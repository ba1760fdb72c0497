# TLA+ verification of the verification-agent-suite

`src/` is a monorepo of 24 independent Python packages: agents for RTL and formal
verification, each with a CLI, deterministic core logic and a language model or
an EDA tool behind a mock-by-default boundary. What the suite promises is less
about computation than about control: nothing is executed without the approval
it needs, a timeout is never a pass, a number is only reported for what was
really run, what is on disk after a crash still means what it says. Those
promises are what this project states, checks with TLC and proves with TLAPS.

Contents: [components](#components) ·
[modules and code](#modules-and-how-they-correspond-to-the-code) ·
[runs](#runs) · [bounds](#bounds) · [fairness](#fairness) ·
[proofs](#proofs) · [where documentation and code differ](#where-documentation-and-code-differ) ·
[not modelled](#not-modelled-and-why) · [plan](#plan)

## Components

### Packages with state, order or failure to get wrong

**multi-agent-verification-supervisor** (`Supervisor.run`). State: the workflow
state and the object's attributes (candidate, findings, partition, plan,
approval, run record), and per task `audit.jsonl`, `evidence_packet.json` and
`run_record.json`. Operations: ten stages that call seven backends, a
propose-and-review loop with retries, the approval gate, the failure handler.
Interaction: stages call backends and append to the audit log; the two JSON files
are rewritten in place. Hard: a crash or an I/O error between or inside file
writes, two processes on one task, retries, an approval that becomes necessary
two stages after the task was read. Correct if: EXECUTION is entered only after
the gates and the approval, every state change is one of `ALLOWED_TRANSITIONS`,
the log is gapless, and the packet says what the log says.

**formal-run-orchestrator**. State: a SQLite ledger (suites, plans, runs) and a
directory of logs. Operations: `plan`, `run`, `ingest-result`; the classifier,
the record validator, the reward; group-holdout split, evaluation and ablation of
policies. Interaction: the commands share the ledger file and commit statement by
statement; `run` reads the plan, then its suite, and writes a log before each row.
Hard: concurrent or killed commands, a suite replaced under its plan, a catalog
that changes, results of a real backend under a planned run id. Correct if: a
verdict in the ledger is a verdict of that run, a finished command's rows are
there, repeated runs agree, and nothing leaks from test items into training.

**spec-to-cov-agent** (veri-forge). State: the `RunContext` shared by sixteen
stages. Operations: the stages; two drivers of them, the orchestrator of the CLI
with its outer loop over stages 12 to 16, and `Pipeline`; stage 16 loops again.
Hard: a stage that raises in the loop, results of an earlier iteration taken for
this one's, nested retries. Correct if: exit code 0 means closure, stage 16 gives up no
coverage and no iteration a test, and the loops end.

**assertion-mutation-agent**. State: the cached baseline of the Verilator executor
and the list of results. Operations: classification of a mutant, the score. Hard:
nine ways for a simulator's run to end, a baseline that is measured once and used
for all. Correct if: only what ran to its end is scored.

**formal-flow-scout**. State: a dependency graph; the stacks of the traversal and
of Tarjan's search. Operations: parser and graph builder, cone of influence,
components, candidate partitions. Hard: an iterative version of a recursive algorithm, edges that must
not be missed. Correct if: the cone is exact, components are the classes of
mutual dependency, and whoever gets a part of a loop is told of the rest of it.

**verification-knowledge-graph** (vkg). State: a SQLite database of nodes and
edges by stable ID. Operations: six importers, each one transaction; five gap
queries. Hard: importers that refer to what another brings, in any order and at
the same time; artifacts that change between or during imports; failures in the
middle. Correct if: the graph is that of the committed versions, and the queries
answer what those say.

**verification-plan-agent** (vplan). State: one plan JSON with an approval state per
item, and a Markdown report. Operations: `plan` drafts, `approve` applies a file of
human decisions, `report` renders. Interaction: each command reads the plan as a
whole and writes it as a whole, without a lock. Hard: commands that overlap, a
redraft over an approved plan, a death in the write. Correct if: an item is only
ever in the state a human gave it, and the first decision stands.

**verification-agent-factory** (`init-agent`). State: the directory of a new agent.
Operation: validate a manifest, refuse a filled destination, write some thirty files
one after another. Hard: a failure or a kill between two writes or inside one,
nothing is cleaned up, and the command is run again, with or without `--overwrite`.
Correct if: a run that ends well leaves a whole agent, and no run mixes two unasked.

### Packages that compute a result from an input in one pass

They keep no state and nothing in them runs concurrently. What is hard to test is the
input: contradictory, incomplete, malformed, in another order, at a boundary. Each is
correct if its report says of the input what the input says, and claims no more.

| Package | What it computes | Correct if |
|---|---|---|
| formal-regression-intelligence-agent | clusters, duplicates, slow-downs and flakiness of a ledger of runs | the findings are about the bag of runs, not their order or their timeouts |
| coverage-closure-agent | classes of coverage holes, ranked actions | a point is a hole exactly when nothing hit it, and failures come first |
| counterexample-triage-agent | activation and divergence in a trace, ranked hypotheses | the divergence refutes the property as the language defines it |
| cdc-rdc-triage-agent | crossings between clock and reset domains, synchronizer chains | a synchronizer that is reported is there |
| reset-intent-agent | reset topology, polarity by vote, candidate properties | nothing is generated that the source contradicts |
| register-csr-agent | checks of a register map, candidates, tests, a matrix | no byte or bit is shared, and the matrix is honest |
| constraint-hygiene-agent | contradictions, ownership and use of assumptions | a conflict is one, and reaches people first |
| performance-regression-agent | robust statistics, regression verdicts | verdicts follow the bad direction and only their own group |
| equivalence-triage-agent | groups of mismatches, ranked causes | the order of the log does not matter, and nothing is dropped |
| testbench-recovery-agent | commands recovered from a checkout, one to try first | it is in the repository, whole, and known not to delete |
| sva-intent-engine, protocol-contract-agent, security-property-agent | candidate assertions from sentences and templates | grounded, nothing guessed, no obligation without its condition |
| assertion-review-agent | defects in the text of assertions, a grade | what cannot fail is found, and what is called vacuous is |
| rtl-intent-ingestor | a Verilog subset to a manifest | the manifest has each statement whole, or says that it has not |
| formal-flow-scout, first half | text or manifest to the graph of dependencies | every dependency of a construct it follows is an edge |
| verification-report-kit | HTML and JSON of a typed report | formatting only |

The packages do not call each other: they exchange JSON artifacts on disk. The
supervisor's backends and the importers of vkg are where artifacts of several
packages meet.

## Modules and how they correspond to the code

| Module | Models | Extends |
|---|---|---|
| `WorkflowTable` | `state_machine.py`: the abstract specification of one workflow | |
| `Supervisor` | `supervisor.py`, `audit.py`, the gates of `validators.py` | instantiates `WorkflowTable` |
| `RunClassifier` | `classifier.py`, the validator of `RunRecord`: operators only | |
| `RunJudgement` | `executor.py`, `reward.py`: one run from its raw signals to its score | `RunClassifier` |
| `RunLedger` | `ledger.py`, the three writing commands of `cli.py` | `RunClassifier` |
| `HoldoutEvaluation` | `split.py`, `evaluation.py`, training of the bandit | |
| `ClosurePipeline` | `orchestrator.py`, `pipeline.py`, `stages/s01` to `s16` | |
| `MutationScoring` | `verilator_executor.py`, `agent.py` | |
| `PlanApproval` | `approval.py`, `engine.py` (the items of a draft), the commands of `cli.py` | |
| `ConeOfInfluence` | `graph_core.py`, seeds and partitions of `analyzer.py` | |
| `KnowledgeGraph` | `importers.py`, `graph.py`, `ids.py`, `queries.py` | |
| `Scaffold` | `scaffold.py`, `cli.py init-agent`, the validation of a manifest | |
| `OnePass` | the frame of a tool that reads one input and writes one report; `Picked`, the elements at some positions, and the order statistics of numbers | |
| `DomainCrossings` | cdc-rdc-triage-agent | `OnePass` |
| `ResetIntent` | reset-intent-agent | `OnePass` |
| `DependencyGraph` | `verilog_parser.py`, `graph_builder.py` of formal-flow-scout | `OnePass` |
| `RegressionFindings` | formal-regression-intelligence-agent | `OnePass` |
| `CoverageHoles` | coverage-closure-agent | `OnePass` |
| `CounterexampleTriage` | counterexample-triage-agent | `OnePass` |
| `EquivalenceTriage` | equivalence-triage-agent | `OnePass` |
| `PerformanceRegression` | performance-regression-agent | `OnePass` |
| `ConstraintHygiene` | constraint-hygiene-agent | `OnePass` |
| `RegisterChecks` | register-csr-agent | `OnePass` |
| `AssertionReview` | assertion-review-agent | `OnePass` |
| `ProtocolContract` | protocol-contract-agent | `OnePass` |
| `SvaIntent` | sva-intent-engine | `OnePass` |
| `SecurityProperties` | security-property-agent | `OnePass` |
| `TestbenchRecovery` | testbench-recovery-agent | `OnePass` |
| `RtlIntent` | rtl-intent-ingestor | `OnePass` |
| `MCSupervisor`, `MCRunLedger` | instances for TLC | the module each is named for |
| `MCGraphs` | inputs of the two graph modules | `ConeOfInfluence`, `KnowledgeGraph` |
| `MCAgents` | one instance for six | `ClosurePipeline`, `MutationScoring`, `PlanApproval`, `Scaffold`, `MCGraphs` |
| `MCDesigns`, `MCResults`, `MCProperties`, `MCRepositories` | inputs of the tools | the modules of the tools |
| `MCTools` | one instance for eighteen | the four above |
| `DataLemmas` | facts about numbers, ranks, finite sets, positions, sequences and folds that several proofs cite | |
| `SupervisorProofs` | theorems | `Supervisor` |
| `RunLedgerProofs` | theorems | `RunLedger` |
| `ClosurePipelineProofs` | theorems | `ClosurePipeline` |
| `AgentProofs` | theorems | `PlanApproval`, `MutationScoring`, `Scaffold`, `KnowledgeGraph`, `TestbenchRecovery` |
| `ResultProofs` | theorems | `RunJudgement`, `CoverageHoles`, `CounterexampleTriage`, `EquivalenceTriage`, `RegressionFindings`, `PerformanceRegression` |
| `ToolProofs` | theorems | `HoldoutEvaluation`, `SvaIntent`, `ProtocolContract`, `ConstraintHygiene`, `RegisterChecks` |
| `DesignProofs` | theorems | `ConeOfInfluence`, `DependencyGraph`, `ResetIntent`, `SecurityProperties`, `AssertionReview`, `DomainCrossings` |

`MCAgents` and `MCTools` put components that share nothing beside each other: a
variable `part` says which one a behaviour is of, and the others sleep in one of their
initial states.

**Tools of one pass.** `OnePass` has three variables: the tool, its input, and its report
or none. The module of a tool gives two actions, one that picks an input from a constant
and one that computes the report; everything between is operators, one for each function
of the package. They are pure and are checked against definitions that share nothing
with them: the meaning of an assertion on two cycles, the satisfiability of a
conjunction, the bytes of a register, what a statement means. A text is abstracted to
what the regular expressions of the package find in it, never to a string; a number is an
integer with the fractions multiplied out. `RtlIntent` is a parser over tokens and
`EquivalenceTriage` a reader of lines, because what they get wrong is where one thing
ends and the next begins. Optional values are sets of at most one element.

**Supervisor.** A member of `Runs` is one `Supervisor` object on one task; all
share the task's files. A step is what another process or a crash can come
between: one audit line, one truncation of a file, one write of its content.
`pc[r]` is the place in `run()`; `state`, `seq`, `candidate`, `findings`, `cuts`,
`plan`, `approval`, `result` are the attributes of the object, abstracted to what
later code asks of them (a partition is whether it has cut assumptions, a plan
whether it needs a human). The text checks of `validators.py` are one Boolean of
a candidate, `gates`. Each backend may answer anything of its type or raise. The
exception is `Raise`, the handler of `run()` `HandleException`, the death of the
process `Crash`; `log` is the set of the audit lines with the number each writer gave them.
`Table == INSTANCE WorkflowTable WITH wf <- state, cleared <- ...` is the
refinement mapping: `Cleared(r)` is "the gates found nothing, and the plan is
free or approved".

**RunJudgement.** `ExecuteMock` is the mock executor with its simulation, its
budget and its cap; `AdapterResult` is any combination of raw signals a real
backend may return; `Judge` is the classifier followed by the validator of the
record, which may refuse; `Score` is the reward. Times and sizes are numbers in
arbitrary units, because only comparisons and `mem * 10 > cap * 8` enter; rewards
are in ten-thousandths.

**RunLedger.** A member of `Procs` is a CLI process, its local variables one
record `proc[p]`. `plan` is three steps (suite row, policy, plan row), `run` is a
query, another query, and three steps per planned run (the log is emptied, the log is
filled, the row). A process that dies or is overtaken between emptying and filling leaves a
`Torn` log. A step ends
where another process, or a kill, can come between. Rows are
`INSERT OR REPLACE`. `Choose`, `Outcome` and `Holds` are constants: a policy, what
a simulated run does, and the truth about a design. `UpgradeCatalog` installs the
next catalog version. `made` and `died` (the logs a process died in, until one writes them
to the end) are history variables.

**HoldoutEvaluation.** A hash of the group is a constant `Bucket`; the split moves
one group over when one side would be empty, as the code does. `learned` is every
item whose reward reached the policy, `tested` those it is being measured on.

**ClosurePipeline.** One action per stage, and several for stage 16, whose inner
loop runs the simulator. `rtl`, `sva`, `log`, `testFound`, `testFile`, `coverage`
are the fields of the context that a later stage reads. `driver` chooses between
the two drivers: after each stage `Record` does what that driver does with a
result, and `CheckClosure` is the end of an outer iteration. `iter` counts the
outer and `inner` the inner loop. A stage's result is `pass`, `fail` or `skip`;
raising is `fail`, under another name in the loop.

**MutationScoring.** `Outcome` lists the combinations of the five flags of
`_RunOutcome` that `_compile_and_run` can return; `ClassifyOutcome` is the order in
which `classify` tests them.

**PlanApproval.** A member of `Vplan` is a CLI process; `vplan[p]` holds the plan it
read (`base`), the plan it will write and what it still has to write. `Draft`,
`Approve` and `Render` are the three commands up to their first write; `EmitPlan` and
`EmitReport` are the two writes of `_emit`; `Die` ends a process anywhere, in a write
with a torn file. A plan is the approval states of its items, whose ids are those
`decompose` and `build_children` derive from the categories of the requirements.
`given` is a history of the plan, not part of the file: the decisions files that went
into it.

**ConeOfInfluence.** `kinds` gives every pair of nodes its kinds of edges, the
CSR arrays being a representation of it. `Expand` is one iteration of
`backward_coi`, with any node of the stack instead of the last. The Tarjan
search keeps the explicit stack of the code: `work` holds pairs of a node and the
position in its neighbours, `sccStack`, `index`, `low` and `counter` are the
code's, and each action is one branch of its inner loop. COMB, SEQ and HIER edges
are treated alike by every function modelled and are one kind, "data"; so are
CLOCK and RESET, "control".

**Scaffold.** `tree` is the destination, each file the manifest it was rendered from;
a run of `init-agent` is a validation and one action per write, any of which may fail or be
the last. Users edit and delete files between runs.

**KnowledgeGraph.** `ChangeArtifact` puts the next version of a file in place, also while
its import waits for the lock. An importer writes rows one by one; `Rows(f)` is the sequence
of rows that the importer of the file's kind writes, in its order. `tx` is the
transaction's view, `db` what is committed, `lock` SQLite's write lock. A stub is a
row that is written only if the transaction sees no such node. The queries are
operators over `db`.

## Runs

Every run but the marked ones must end without an error.

| Run | Distinct states | Question |
|---|---|---|
| `supervisor_solo` | 18,031 | One workflow, every argument, candidate, review state and result, two retries, an exception or crash at every step: gates, approval, retry bound, conformance to the table, termination. |
| `supervisor_files` | 1,584,030 | Two runs of one task, after each other or interleaved, dying anywhere: numbering and chaining of the log, packet and run record against it. |
| `supervisor_early_done` (violation) | | A packet on disk says DONE of a run that never logged DONE. |
| `supervisor_rejected_review` (violation) | | A candidate that arrives rejected is executed. |
| `run_ledger` | 219,199 | Two processes, two suites of which one is redesigned under its plans, external results, a new catalog, kills, also inside the write of a log: what rows and logs still mean. |
| `ledger_ingest` (violation) | | A FAIL that a run recorded becomes the PASS of an ingested record. |
| `agents` | 750,094 | Sixteen stages under both drivers with every failure; analyses of up to four mutants with every end of a run; two vplan commands at a time on one plan file, dying anywhere; a scaffold that fails between writes and is run again; every graph of data edges on three nodes; two importers of six artifacts that change, with failures. |
| `closure_stop` (violation) | | The orchestrator iterates on after the target was met. |
| `formal_timeout` (violation) | | Stage 6 passes on a timeout. |
| `mutation_baseline` (violation) | | A mutant is scored against an original that never ran to its end. |
| `tools` | 169,596 | Every combination of raw signals around the budget and the cap; splits, evaluations and ablations of a growing suite; sixteen tools over products of small inputs: does the report say what the input says? |
| `smoke_test` (violation) | | The command to try first is a make target whose recipe deletes. |

Properties, and the hazard each is for:

- **Supervisor.** `ExecutionCleared`: no execution past a failed gate or without a
  needed approval. `AuditJustifiesExecution`: the log alone shows why a run was
  executed. `ImplementsTable`: the driver refines `TableSpec`. `RunEnds` (liveness).
  `AuditChained`: the log numbers without clash as long as runs follow each other,
  and each run's lines are a path of the table even when they do not. `PacketTrue`:
  a readable packet agrees with the log, only a PASS goes on to a human, and the
  files of the last run are all its own.
- **Ledger.** `VerdictIsTrue` (a conclusive row was concluded under its own config
  and tells the truth of its own design), `LedgerHolds` (the plan that runs is the
  one on file, what a finished command reported as saved is there, log and row agree
  unless a process is inside the write of the log, or died there and none has written it to
  its end since), `RowsReproducible` (action property: only rows of the installed catalog
  are written, and a settled row keeps its verdict).
- **Judgement and evaluation.** `NeverFalsePass`, `RewardRanks`, `SplitSound` (action
  property: both sides of a split, nothing learned from what is tested, a split that
  stays as the suite grows).
- **Closure.** `ExitZeroMeansMet`, `ProgressKept` (action property: no step of stage 16
  replaces the coverage by a smaller one, and no iteration loses the tests of another; the
  simulation of a later outer iteration may well bring less coverage), `PipelineEnds`
  (liveness).
- **Mutation.** `ScoresComparable`: what is scored ran to its end, against one baseline.
- **Plan.** `FirstDecisionStands` (every plan on file, in the report or in a command's
  hands says of each item what the first decisions file to decide it says),
  `DecisionsWithdrawnBySlip` (action property: what may take a decision off the file,
  namely a redraft, a torn write, or an approval that read the file too early; the
  last is the lost update that the code's lack of a lock allows).
- **Scaffold.** `ScaffoldSound`: a run that ends well leaves all of its agent, and no run
  without `--overwrite` mixes two agents or truncates what somebody else wrote.
- **Graphs.** `ConeExact`; `PartitionsSound` (components against a reference that
  quantifies over closed sets and shares nothing with Tarjan's algorithm; a partition by
  components has each loop whole; one by modules may split a loop, and then has every
  signal of the loop it lacks among its cut signals or its clocks and resets); `GraphSound` (the graph is a
  function of the committed versions of the files, whatever the order, the
  repetitions, the overlaps and the failures; each query against the artifacts
  themselves, where of the failures of an interface no FAIL may be missed: that only FAILs
  are returned is `OnlyFailuresReturned`, which does not hold); `DependenciesKept` (from text or manifest to edges, nothing is dropped
  of what the parser follows).
- **Designs.** `SynchronizersReal`: a chain that is reported forwards the whole signal on
  one clock. `ResetIntentSound`: polarities nobody contradicts, crossings between
  registers without a common reset. `ManifestSound`: each statement of a file is in the
  manifest with all it means, whatever stands beside it, or something there was said
  not to be understood; nothing else is; the top and the clocks are right.
- **Results.** `FindingsStable`: another order of the lines, or timeouts that waited
  longer, give the same findings, where start and name tell the runs of a job apart.
  `CoverageHolesSound`: no hole is lost or invented, a failing test is not hidden by a
  passing one, and a rerun is of a linked test (that it is of the one that failed is
  `RerunsAFailingTest`, which does not hold). `CounterexampleSound`: the divergence is where the window of the first
  refuted attempt opens, and an attempt the trace cuts off accuses nobody.
  `EquivalenceSound`: another order of the log gives the same groups. `PerformanceSound`:
  for a candidate on one side of a baseline above zero the verdict follows the bad
  direction, a lone outlier does not matter, and a group's findings are those of its two
  ends. Nothing in it speaks of a baseline without spread, of which `NeverFalselyStable` is
  violated.
- **Constraints, registers, properties.** `HygieneSound`: a conflict of bodies that do not mix their
  operators is unsatisfiable over bits and the other way round. `RegistersSound`: comparing neighbours finds every shared
  byte; the matrix agrees with what was generated. `ReviewSound`: vacuity against the
  meaning of a body, polarity against the manifest, every block once. `ContractSound`:
  a well-behaved interface keeps its contract, and nothing the design drives is
  assumed silently. `IntentSound`: only clear sentences, their own names, and the
  condition kept in every form but the one-hot one. `SecuritySound`: a guard never guards itself; a broken variant tells a good
  design from a bad one.
- **Repositories.** `RecoverySound`: every command shown is in the repository, every line
  of a recipe or workflow is accounted for, and the one to try first deletes neither by its
  own text nor by a recipe of the rule it was first found in (that no recipe deletes is
  `SmokeTestDeletesNothing`, which does not hold).
- `TypeOK` is the type invariant that the proofs of the supervisor rest on; those of the
  other modules (`ClosureTypeOK` and so on) are proved and not checked again.

Each property of a passing run has a mutant in `PROJECT.json`: an operator in the
module, marked "Mutation" in its comment, that changes one definition the way a
slip in the code would. With it in place TLC finds the property violated.

Run one with `tlc -config SupervisorSolo.cfg MCSupervisor.tla`, and prove with
`tlapm SupervisorProofs.tla`.

## Bounds

| Constant | Value | Why it is enough |
|---|---|---|
| `Runs` | 1 or 2 | Runs interact only through three files, each rewritten whole or appended to; two writers show every overlap. The proofs are for any number. |
| `MaxPropertyRetries` | 2, 0 with two runs | 2 has a first, a middle and a last retry. |
| `Procs`, `MaxCommands` | 2, 4 | plan, re-plan and two overlapping runs; with fewer no row is replaced twice. |
| `Suites`, `Catalogs` | 2 ids with 2 versions, 2 | a benchmark that is dropped, one that is redesigned, a config that goes away. |
| `Times`, `Sizes` | 4 values each | below, at and above the budget, the cap and 80% of the cap. |
| `Benchmarks` | 4 in 3 groups | suites that hash all, some or none of their groups to the test side. |
| `Measured`, `Target` | 4 coverages, 90.0% | nothing measured, far below, just below, one metric alone. |
| `MaxIters` | 0, 1, 3 | no, one and repeated iterations; the inner loop has the same bound. |
| `MaxMutants` | 4 | a bad baseline before, between and after scored mutants. |
| `Vplan`, `MaxApprovals` | 2, 2 | a lost update needs two processes; a second file meets an item the first one decided. The proofs are for any number. |
| `Specs`, `DecisionFiles` | 1, 3 | a feature two reviewers disagree on, an unknown id, one item twice in a file, an explicit deferral. |
| `Manifests`, `MaxRuns` | a valid agent of each layout and a refused one, 2 | a run that fails, and a second with the same or another manifest over what the first left. |
| `N` | 3 | the smallest graphs with a cross edge to a finished component, nested cycles and a cluster with a driver of its own; both Tarjan mutants show already there. |
| `Importers`, `Files`, `MaxChanges` | 2, 6, 1 | one file of each kind, each referring to things of another; one of them changes once, before, during or after its import. |
| inputs of the tools | 509 to 8,898 each | each a product of the features that the tool's branches ask for, with two or three things (registers, tests, mismatches, sentences, statements, files) so that one can disturb the next. |

`MaxCommands`, `MaxMutants`, `MaxApprovals`, `MaxRuns` and `MaxChanges` are the only bounds
on behaviours; the other constants are inputs. `CHECK_DEADLOCK FALSE` is set where a
system may stop: after the last command, when a run or pipeline has ended, when a tool
has reported.

## Fairness

- `FairSpec` of `Supervisor` has weak fairness on each run's own steps
  (`Step(r)`), not on crashes. `run()` is sequential code that waits for no other
  process, and a backend call returns or raises.
- `ClosureSpec` has weak fairness on the pipeline's next step. Tools run under a
  `timeout` argument and model calls have a bounded number of retries, so every
  stage returns or raises.
- No other module states fairness: the other commands are started by users, who
  need not start any, and a tool of one pass is one step.

## Proofs

All proofs are checked by `tlapm`, for every value of the constants. What they assume of
constants is named in the module that declares them, and TLC evaluates it for the
instances of the runs:

- *types only*: `SupervisorAssumption` and `RunNamesAssumption` (the two words `NoRun` and
  `Mixed` name no run), `JudgementAssumption`, `HoldoutAssumption`, `ClosureAssumption`,
  `MutationAssumption`, `PlanAssumption` (a plan is neither of the two markers for an
  unreadable file), `ConeAssumption`, `CoverageAssumption`, `SecurityAssumption`,
  `ResetModulesAssumption`, `IntentAssumption`, `HygieneAssumption`, `ReviewAssumption`,
  `ContractAssumption`, `ImportersAssumption`, `ArtifactsAssumption`, `LedgersAssumption`,
  `EquivalenceAssumption` and `RegisterAssumption` (what is read from a list is a list, a
  width or a unit of addresses is not 0);
- *what validation guarantees*: `LedgerAssumption` (a suite is not empty and names no
  benchmark twice), `ExternalsAssumption` (an ingested record passed the model of a
  record), `CounterexamplesAssumption` (of the two delays of a window the first is not
  the larger), `DatasetsAssumption` (a metric that a run names has samples, and thresholds
  are not negative), `CrossingAssumption` (a cell of the glossary has a stage; and a module
  is finite);
- *what the language or the file system guarantees*: `ScoutAssumption` (in its scope a name
  is given once), `RecoveryAssumption` (paths tell files apart; a rule has a target, and none
  is called `make`, because a text is the set of its words).

| Theorem | States |
|---|---|
| *Supervisor* (`SupervisorProofs`) | |
| `SupervisorTypeCorrect` | `Spec => []TypeOK`, for any number of runs |
| `ExecutionIsCleared` | `Spec => []ExecutionCleared` |
| `DriverImplementsTable` | `Spec => ImplementsTable`: every step is a step of `WorkflowTable` or a stutter |
| `AuditJustifiesExecutionAlways`, `AuditChainedAlways` | the log alone justifies each execution, its lines are a path for each run, its numbers are unique without overlaps |
| `PacketTrueAlways` | packet and run record against the log, with a death inside any write |
| *Run orchestrator* (`ResultProofs`, `RunLedgerProofs`, `ToolProofs`) | |
| `JudgementTypeCorrect`, `NeverFalsePassAlways`, `NeverRefusedAlways` | no combination of signals gives a false PASS, and the record validator refuses none |
| `MockConclusionAlways`, `RewardRanksAlways` | the mock concludes within its limits only, and scores rank as documented |
| `VerdictIsTrueAlways`, `LedgerHoldsAlways`, `RowsReproducibleAlways` | the ledger, for any processes, suites, catalogs and policies, with a kill inside any write of a log |
| `SplitSoundAlways` | the split of a growing suite, for every hash |
| *Closure* (`ClosurePipelineProofs`) | |
| `ClosureTypeCorrect` | the shared context stays within its types |
| `ExitZeroMeansMetAlways` | exit code 0 means that the target was met, for every target, `max_iter` and coverage |
| `ProgressKeptAlways` | stage 16 keeps the better coverage, and no iteration loses the tests of another |
| *Plan, mutation, factory, knowledge graph* (`AgentProofs`) | |
| `FirstDecisionStandsAlways`, `DecisionsWithdrawnBySlipAlways` | the first decision stands, and leaves the file only in the three ways the property names |
| `ScoresComparableAlways` | what is scored ran to its end, against one baseline, for any number of mutants |
| `ScaffoldSoundAlways` | a run that ends well is complete, and nobody's files are mixed or cut off unasked |
| `GraphIsOfImports`, `GraphSoundAlways` | the committed rows are a function of the versions whose import committed, and no stub replaces a description; the queries answer what the imported artifacts say, and miss no FAIL of an interface |
| `RecoverySoundAlways` | every command shown has its lines, no recipe or step is lost without an issue, and what is to be tried first deletes neither by its text nor by the rule it was first found in |
| *Tools on results* (`ResultProofs`) | |
| `CoverageHolesSoundAlways` | no hole is lost, invented or hidden by a passing test, and reruns are of linked tests |
| `CounterexampleSoundAlways` | a divergence refutes the implication, and the cone is the least closed set |
| `EquivalenceSoundAlways` | the groups do not depend on the order of the log, and each mismatch is in one |
| `FindingsOfRuns`, `FindingsStableAlways` | the findings are a function of the bag of runs, without the times of those that did not conclude |
| `PerformanceSoundAlways` | worse stays worse, a lone outlier is ignored, groups are judged alone, the exit code |
| *Tools on a design* (`DesignProofs`) | |
| `ConeInvariant`, `ConeExactAlways` | the cone is exact for every graph, every node kind and every property |
| `SearchInvariant`, `PartitionsSoundAlways` | Tarjan's search with explicit stacks finds the classes of mutual dependency; of a loop that a partition by modules splits, the rest is among its cut signals or its clocks and resets |
| `ScopesByPath`, `DependenciesKeptAlways` | of the constructs the parser follows no dependency is dropped, at any depth of the hierarchy |
| `SynchronizersRealAlways` | a reported depth is the length of the longest chain of registers that forward the whole signal on one clock |
| `ResetIntentSoundAlways` | polarities nobody contradicts, and exact crossings |
| *Tools on properties* (`ToolProofs`, `DesignProofs`) | |
| `HygieneSoundAlways` | a conflict of bodies that do not mix their operators is unsatisfiable, and the other way round where the facts are known |
| `IntentSoundAlways` | clear clauses, own names, no obligation without its condition but those of the one-hot form |
| `RegistersSoundAlways` | comparing neighbours finds an overlap whenever two registers share a byte; resets, grounding, matrix |
| `ContractSoundAlways` | a well-behaved interface keeps its contract, and nothing is invented or assumed silently |
| `SecuritySoundAlways` | no clause is lost, candidates are grounded, witnesses tell |
| `ReviewSoundAlways` | what is called hollow is, and what is hollow is given away; polarity, ownership and grade |

How they go:

- *Supervisor.* `ExecutionCleared` is not inductive: that the run at "execute" is
  cleared depends on what every earlier place in `run()` has established.
  `GateInv` says for each place what is known there: nothing is planned before
  the planner, the candidate is eligible past the review, a free plan at the gate
  means no obligation is open. `GateStep` has one step per action. The refinement
  uses it: `MoveImage`, `ClearImage` and `StutterImage` say which kind of abstract
  step a concrete one is, and `ImageStep` goes through the actions.
  `AuditInv` ties the object of a run to its lines: the last line ended in the state
  the run is in, a clearance is logged before control reaches the execution, and,
  as long as nobody overlaps (`Sequential`), the counter of the only live run is the
  number of lines. `FilesInv` rests on it: what a run may write depends on the line it
  has logged, and between truncating and filling a file nobody else touches it.
- *Judgement.* `JudgementInv` ties the status of a judged run to its signals;
  `ClassifyPass` and `ClassifyAccepted` are the facts about the classifier. `MockInv`
  says what the mock's signals can be, which is all `RewardRanks` needs: the rest is
  arithmetic over the weights.
- *Ledger.* A conclusive row is true because the row, the log file and the local
  variables of the process that writes them agree at each place of its program:
  `LedgerInv` is what holds of each table (`SuitesInv`, `PlansInv`, `RunsInv`, `FilesInv`)
  and of each process at each `pc` (`ProcInv`). The part that needs the strengthening
  is a plan whose suite is redesigned while it runs: a row is judged against the plan it
  was saved with, which `Planned` traces from the file into the process. A log under a row of a
  settled plan is the log of the row, or is torn: because a process is inside its write, or
  because one died there (`died`).
- *Holdout.* `HoldoutInv`: between the start of an evaluation and its report the split is
  that of the suite. `SplitOfSuite` says of the split what the action property compares
  before and after growth.
- *Closure.* `ExitZeroMeansMet` speaks of the end only. `ClosureInv` says what a run
  that wants closure and has not failed knows on the way: past the simulation it
  has coverage (`CoveredWhenSimulated`), past stage 16 it has met the target
  (`MetWhenClosed`). That tests are kept needs one more: in the first iteration there is
  no test file up to stage 12 (`NoTestsYet`), which holds because steps only go forward
  unless they begin a new iteration (`Forward`). Types are proved in two halves,
  `DriverType` and `ContextType`.
- *Plan.* `StandingAppend` is the heart: one more decisions file changes the standing
  word of an item only when nobody decided it before. `ByIdIsVerdict` says that the
  dictionary of decisions holds each item's last entry. Both rest on `MinOfSome` and
  `MaxOfSome`, from the well-foundedness of `<`. `PlanInv` says what every file and
  every process may hold.
- *Mutation, scaffold.* `MutationInv` keeps for each result the end it was classified
  from and what the baseline was then. `ScaffoldInv` says which files a run in progress has
  written so far, and, without `--overwrite`, that the tree is of one agent.
- *Knowledge graph.* `GraphOf(rows, imports, latest)` is the meaning of the tables:
  they have a row for each node or edge that some committed version speaks of, described
  by the last that does, and a stub only where none does. `Overlaid` is the same of a
  transaction over what it found, and `GraphInv` says that each importer's view is `db`
  overlaid with what it has written. It is inductive because SQLite's lock lets one
  importer at a time read and write its view (`lock`), and because it speaks of the
  version that was read, not of the file, which may have changed since.
- *Cone.* `ConeInv`: the cone is within every closed set that has the seeds, and
  a node whose drivers are not all in the cone is still on the stack. With the
  stack empty both directions of `ConeExact` follow.
- *The tools of one pass.* Their invariant is the same each time: the input is one that can
  be asked for, and the report, if any, is the report on it (`CoverageInv`, `ScoutInv`
  and so on); that much the frame gives, and the lemmas that say it are no results. The work is in lemmas about their functions. Folds are unrolled step by step
  (`StepByStep`, `IteratedSteps`): the points of one coverage item merged so far keep the
  highest count; the cone of a counterexample grows within every closed set and, when as many
  steps as there are signals have been made, has stopped; a flattened design has each
  instance under one path. A divergence is in the window of the first attempt that the
  samples refute; a dependency is followed through the branches of `ReadStatement`. For
  contracts, each template has a lemma for the rules it makes and one that an ideal
  interface keeps them. For constraints, facts of a body mean its conjunction, so that
  two facts that disagree have no model, and for known forms, facts that agree have one. For
  the review of assertions, a body that cannot fail is put to two valuations: the signals
  of its antecedent true and all others false, and all false. That makes its shape known
  (`CannotFailShape`), and the shapes are those of the checks. For security, a
  requirement gives at most one assertion of its category, and its sides are made of
  references the manifest knows (`GroundedTerm`, `PickedApart`). `PickedPositions`
  says that a choice of positions of a list gives each of them once and in order.

- *Graph queries.* From `GraphOf` each query is read off the rows: an edge is there exactly
  when a version whose import committed says so, and a node has what the last description of
  it says.
- *Tarjan's search.* `SearchInv` says that the nodes of `work` are a path, each of which
  depends on all above it on `sccStack` (`PathReaches`); that every node of the stack
  depends on one of the path at or below it (`ReachesPath`); that `low` is the index of a
  node of the stack that is depended on (`LowReached`), not above that of any neighbour
  already looked at (`LowOfLookedAt`, `LowOfFinished`); and that what was cut off is closed
  and consists of classes (`MembersClassed`). A node whose `low` is its `index` has
  above it on the stack, when its neighbours are done, its class and nothing else.
- *Registers.* Sorting by address gives each row a rank, and ranks taken by neighbours leave no
  gap (`RanksTaken`). Where no neighbours overlap, the end of each register is at most the
  start of every later one.
- *Equivalence.* Two logs that tell the same (the same lines, and of each mismatch the same
  counterexamples in their order) give the same enriched mismatches; groups and causes are
  sets made from those.
- *Findings of a ledger.* A bijection of the lines carries each group and each history to
  one of the same size, and keeps the order of the runs of a job because start and name
  tell them apart. An order statistic depends on how many samples lie below, so medians
  and quartiles are equal when these counts are.
- *Performance.* The same counting: shifting all samples shifts median, quartiles, fences and
  what is kept between them; raising the largest of more than four samples changes no
  statistic of lower rank, nor the median of the deviations, most of which are not larger
  than its own. Sums are a recursive function, unrolled where a sample is changed.
- *Synchronizers.* The walk is a recursive function of its fuel. Each register of a chain
  is the sole follower of the one before, so two walks from one register agree as far as
  both go, and a walk is stuck within the number of registers of the module: it is
  the longest chain.
- *Recovery.* What an extractor finds stands on a line; merging equal commands keeps each of
  them at the first (`StepByStep` over the fold); the cursor of the search for a line never
  passes the line a command was written on.

In sources a proof reads, a `UNION` that is an operand stands in brackets, since SANY and
tlapm give it different precedence.

Working the proofs out changed what is stated. `HollowCaught` used to except more shapes of
hollow assertions than the three that hide one. `DependenciesKept` turned out to need a
premise: the names behind a closing bracket in a condition are lost for every statement
of a block, so that `ScoutAssumption` asks that what decides a statement is among the
names of some condition, or behind such a bracket. And the return code of an adapter is any
integer, not a natural number: a process that is killed has a negative one.
`DirectionKept` used to hold of the inputs checked and not in general: the verdict comes from
the mean of the baseline and the size of the change from its median, so with a baseline of
10, 11, 40 a throughput of 17 is a regression and one of 16 is stable; and a baseline with a
negative mean turns the direction round. It is stated for a candidate on one side of
both and a positive baseline, and the inputs of the run include what lies outside. `FindingsStable` needs
`HistoriesTold`, since two runs of one job with one start and one name are ordered by their
lines. Of a bin that two files describe, `QueriesAnswer` lets either description count, and a
claim is without a benchmark when none of its descriptions has one. `MatrixHonest` counts
assertions where names are given once: rows of equal names count each other's.

Model-checked only: liveness (`RunEnds`, `PipelineEnds`) and everything that needs
fairness or ENABLED, which TLAPS cannot reason about; and `ManifestSound`. `RtlIntent` is
a recursive parser: what it computes for every file would take an induction over data, and the
installed provers cannot instantiate the library's theorems for it. Every other property of a
passing run is the property of a theorem above.

## Where documentation and code differ

Seven runs end in a violation on purpose; each is an entry under "findings" of
`PROJECT.json` with the line quoted:

1. The packet that says DONE is written before the run is DONE
   (`supervisor_early_done`).
2. A candidate that arrives REVIEWED_REJECTED is promoted to REVIEWED_OK
   (`supervisor_rejected_review`).
3. `ingest-result` with the id of a planned run replaces the FAIL that the run recorded by a
   PASS (`ledger_ingest`).
4. The outer closure loop looks for a key that stage 16 never writes, so it always
   runs `max_iter` times (`closure_stop`).
5. Stage 6 passes when the formal tool timed out (`formal_timeout`).
6. A baseline run that timed out counts as a passing baseline
   (`mutation_baseline`).
7. A make target that a workflow names counts as harmless even if its recipe deletes, and
   may be the smoke test (`smoke_test`).

Six more promises that are not kept are stated beside the properties they limit, and no run
carries them. Each is refuted when it is put in the place of the invariant of `SmokeTest.cfg`
(for `OnlyFailuresReturned`, of `ClosureStop.cfg`):

| Stated as | What the code does | The promise |
|---|---|---|
| `UnknownNeverPasses` (`CoverageHoles`) | a hole none of whose tests passed, one with a test of unknown outcome, is classified as one whose test ran (`triage.py:211`) | the comment there: "At least one linked test passed yet the point is still uncovered." |
| `RerunsAFailingTest` (`CoverageHoles`) | the rerun names the first linked test, failed or not (`triage.py:332`) | its text: "Re-run the failing linked test" |
| `NeverFalselyStable` (`PerformanceRegression`) | three samples off a baseline without spread are STABLE, however far off (`statistics.py:189`) | the package's README: "ambiguous cases are `INCONCLUSIVE`, never a false `STABLE`/PASS" |
| `OddConditionRecorded` (`SvaIntent`) | a one-hot sentence with a condition becomes an assertion without it, and a condition in no accepted shape is not looked at (`pipeline.py:87`, `163`) | `supported_forms.md:35`: what is outside the shapes is recorded as an ambiguity and not emitted |
| `ConflictsAreReal` (`ConstraintHygiene`) | a body is split at `&&` before `\|\|` is seen, so a contradiction is reported that is none (`sva.py:126`) | the docstring at `sva.py:156`: facts are taken only where they are unconditionally implied |
| `OnlyFailuresReturned` (`KnowledgeGraph`) | the query for failures of an interface returns entries of any status, as its test expects (`queries.py:116`) | its docstring: "Only FAIL-status failure nodes ... are returned" |

Others, met while reading and stated by no formula:

- supervisor: `audit.py:12` speaks of a sequence number per task, which two
  processes on a task duplicate (`AuditChained` asks for it of runs that follow each
  other); a failed run leaves no packet, whatever the docstring of `run()`
  says.
- formal-run-orchestrator: the precedence at `classifier.py:32` puts a nonzero
  return code before everything else; the code asks for the timeout first, and a
  refutation with a nonzero code is a FAIL. Rows of benchmarks that a re-plan
  dropped stay in the plan's summary.
- spec-to-cov: the summary and the dashboard read keys that no stage writes; the
  CLI's RTL files are added to the context after the run; per-metric targets and
  `ctx.coverage_met()` are not used, and the overall figure is the mean of the
  metrics above zero, so a metric that is missing raises it; `Pipeline` has no
  caller in the CLI.
- assertion-mutation: a simulator that exits nonzero counts as DETECTED, while the
  docstring calls any other tool failure an ERROR.
- verification-plan: the docstring at `approval.py:35` says that items already decided
  are "reported as unmatched", and the code reports them as matched, as its test
  expects; the matrix is said to mark uncovered requirements, but every requirement
  becomes a feature with scenarios, so every row is covered, and stays so when all
  its tests are rejected.
- knowledge graph: an unqualified interface of a
  ledger entry without a module yields an ID that no RTL import creates; a
  re-imported artifact that has changed leaves its old rows behind, and an import that
  read an older version may commit after a newer one; the provenance
  of a stub is that of the first file to refer to it.
- formal-flow-scout: the header of the C++ core says that CLOCK and RESET edges are not
  followed, and the code follows them by default; components use data edges only, so a
  loop that passes through a register used as a clock may be cut. Its `README.md:23` and
  the docstring of the parser promise that no dependency is dropped without a note.
  Dropped without one: the first arm of a `case` (later labels become the target); a
  statement behind a condition with brackets in it; in a block of several statements the
  names such a condition is made of, for every statement behind it, though the comment at
  `verilog_parser.py:480` wants them kept; procedural concatenations (of an `assign`, the
  concatenation becomes one signal); in a block without a clock, a condition that looks
  like a reset; a third edge; positional connections; all but the first name of an
  expression at a port. `DependenciesKept` is stated for the rest.
- rtl-intent-ingestor: the branches `begin ... end else begin ... end` that no block is
  around end the procedure after the first `begin`, and the statement behind is
  swallowed; of two files with one basename the first is dropped; the parts of a case
  become registers, concatenated targets become names with a brace, system tasks and
  net initialisers are dropped; `assert property` becomes an instance of a module
  "assert"; interface ports become inputs; a clock whose name contains "rst" is a
  reset; an empty positional connection shifts the others; an unopened bracket in a
  connection keeps the parser in its loop. The comment "nothing is silently
  dropped" is wrong for top-level functions and imports.
- cdc-rdc-triage: the comment at `analyze.py:115` speaks of a signal that is not a
  known reset; the fallback is the first edge, reset or not.
- reset-intent: of a register with two resets the crossing search sees one, whichever a
  set iteration gives last; a bare guard on a manifest signal of unknown
  polarity votes active-high.
- regression intelligence: `job_key` is documented as a triple and is
  benchmark::config.
- coverage-closure: `CoverageItem` says "hits >= 1" and the code asks for the goal.
- counterexample-triage: the comment "window minimum shifted up by 1" stands at a
  maximum; every value that is not x counts as a defined 0; a results file that is
  malformed or stale gives NOT_REPRODUCED, although `executor.py:178` says never
  to fall back to a pass.
- equivalence-triage: a mismatch line that is repeated drops its counterexample and
  counts twice; "across modules" is said of a confidence that is reset per module.
- performance-regression: the comment at `models.py:46` says that a
  regression is always a change in the bad direction; with a baseline of negative mean, which
  no validator refuses, it is one in the good direction. And a candidate between the
  baseline's mean and its median gets a verdict from the one and a size from the other, so
  that a worse one may be judged better.
- register-csr: of registers that share a name only the last is compared with the RTL, and
  the rows of the matrix for fields of one name count each other's assertions. A test is
  counted for a field when the field's name is part of its lower-cased name; the assertion
  of an implicit field is never counted.
- assertion-review: "identifiers grounded, widths match" is ticked without a
  manifest and in spite of a width mismatch; grade A is documented as clean, and five
  properties with one error get it; one requirement tag covers all later
  properties; `a |=> a` is called a tautology; `assert property (x);` is never
  reviewed; a guard in an extra pair of brackets is read without its negation.
- protocol-contract: rules that lack a role are left out without the promised warning;
  a clock or reset that is not in the module is declared an input; the latency of a
  grant asks for a second grant when the first comes with the request.
- sva-intent: a cover whose condition cannot be normalized is emitted without it; an
  "unless" guard is extracted and not used; a reset property always states `== 0`;
  marker words have to be symbols, so most clauses with them are never emitted; an
  unknown `--module` takes the first one.
- security-property: assumptions are said to be rendered and always skipped; privilege,
  fault and information flow may take one signal for both sides (the others may not);
  the keyword "recover" can only end in an exception that loses the whole run; the
  bounded-response witnesses need not fail although they are said to.
- testbench-recovery: equal commands keep the flags of the first, so that within a Makefile a
  recipe line keeps those of another recipe with the same line; prerequisites are not followed; a
  checkout below a directory named `build` inspects nothing.

Behaviours that no property judges, because nothing in the repository says what they
should be: the approval is used for whatever task `run()` works on, its task id is not
compared (`supervisor.py:233`); rows of benchmarks that a re-plan dropped stay
(`ledger.py:166`); the reward asks today's catalog about an old record
(`reward.py:34`); the mean of the metrics above zero (`s16_coverage_closure.py:144`).
The validator of a run record may raise after the log is written
(`models.py:274`); `NeverRefusedAlways` proves that it never does.

## Not modelled, and why

- `verification-report-kit`: it renders a typed report; it decides nothing.
- Scanners and printers (tokens of Verilog, SVA text, VCD, coverage files, HTML, DOT):
  what a pattern finds in a line is an input of the models, and a finite model
  of the pattern itself would be an identity with a name. The pydantic models of
  the packages are types and appear only where they validate.
- The mutation operators of assertion-mutation-agent: rewriting of program text.
- Real-valued arithmetic where no integer stands for it: confidences and confidence
  intervals, the linear algebra of the LinUCB bandit (its choice is an
  arbitrary one), the mock backends' cost formulas.
- Language models and EDA tools: the environment. They are nondeterministic
  outcomes of their type wherever a modelled component calls them; the retries in
  `llm/client.py` end in an answer or an exception, which the stages see.
- In the modelled packages: classification, risk, ambiguities and traceability of a
  plan draft, the kinds and domains of nodes and the register-boundary partition
  of formal-flow-scout, the release audit of the factory, the text mutations of
  protocol-contract-agent, dashboards, reports and exports. `PROJECT.json` says it
  per component.

## Plan

The order is by what a failure would cost and by what a test would hardly reach.

1. *Done.* All components but the report kit are modelled; the hazards listed each have
   a property, and each property a mutant.
2. *Done.* Proofs of the supervisor, the judgement, the ledger, the evaluation, the
   closure loop, plan approval, mutation scoring, the scaffold, the knowledge graph with its
   queries, the cone and its partitions, and of all tools of one pass but the ingestor:
   every safety and action property of a passing run except `ManifestSound`.
3. *Left.* `ManifestSound`: a formulation of the parser without recursive operators whose
   invariant says, token by token, what of the file is in the manifest so far. The liveness
   properties stay with TLC.
