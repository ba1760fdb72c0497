------------------------------- MODULE RunLedger -------------------------------
(***************************************************************************)
(* The formal run orchestrator's SQLite ledger and the commands that write *)
(* it: plan, run and ingest-result.  A member of Procs is one invocation   *)
(* of the command line after another; invocations share the ledger file    *)
(* and the artifact directory, and any of them may be killed.  One step is *)
(* one committed statement, one query or half a file write, for that is    *)
(* what another process can come between: plan commits the suite and the   *)
(* plan separately, run commits every record by itself, and a log file is  *)
(* emptied by the step that opens it and filled by the next.               *)
(*                                                                         *)
(* A plan id is the hash of suite id, policy, base seed and catalog        *)
(* version: here the triple of the first, the policy with its seed, and    *)
(* the version.  A run id is the hash of plan id and benchmark id.  Rows   *)
(* are replaced, never deleted.                                            *)
(***************************************************************************)
EXTENDS RunClassifier, Sequences, SequencesExt

CONSTANTS
    Procs,       \* command-line processes
    SuiteIds, Policies, Benchmarks, Designs,
    Suites,      \* suite files: id, and items in order
    Configs,
    Catalogs,    \* Catalogs[v]: the configs of catalog version v
    Choose(_, _, _, _),   \* policy's config for benchmark, design in version
    Outcome(_, _, _),     \* what the mock run of benchmark, design, config does
    Holds(_),             \* the ground truth of a design
    KeepArtifacts,        \* is an artifact directory given? one or both answers
    Externals,            \* run record files of a real backend: id and record
    AllowCrash, AllowUpgrade,
    MaxCommands           \* bound: commands started in a behaviour

Versions == DOMAIN Catalogs
Items    == [benchmark : Benchmarks, design : Designs]

ASSUME LedgerAssumption ==
    /\ \A s \in Suites : /\ s.id \in SuiteIds
                         /\ s.items \in Seq(Items) /\ s.items # <<>>
                         /\ \A i, j \in DOMAIN s.items :
                              s.items[i].benchmark = s.items[j].benchmark
                                  => i = j
    /\ Versions \subseteq Nat /\ 1 \in Versions
    /\ \A v \in Versions : Catalogs[v] \subseteq Configs
    /\ \A d \in Designs : Holds(d) \in BOOLEAN
    /\ \A policy \in Policies, b \in Benchmarks, d \in Designs, v \in Versions :
          Choose(policy, b, d, v) \in Configs
    /\ KeepArtifacts \subseteq BOOLEAN
    /\ {AllowCrash, AllowUpgrade} \subseteq BOOLEAN
    /\ MaxCommands \in Nat

VARIABLES
    version,    \* CATALOG_VERSION of the installed orchestrator
    suites,     \* table suites: the items of every suite id
    plans,      \* table plans: the planned runs of every plan id
    runs,       \* table runs: the record of every run id
    artifacts,  \* <run id>.log: the content of every artifact file
    made,       \* history: the suite items each plan row was made from
    died,       \* history: the logs a process died in, none written whole since
    commands,   \* how many commands were started
    proc        \* every process: what it does and its local variables

vars == <<version, suites, plans, runs, artifacts, made, died, commands, proc>>

PlanIds == SuiteIds \X Policies \X Versions
RunIds  == PlanIds \X Benchmarks
NoRow   == <<>>                      \* suites and plans are never empty
NoRun   == [status |-> "no row"]
NoFile  == [status |-> "no file"]
Torn    == [status |-> "torn"]       \* empty, cut off or a mixture

PlannedRuns == [benchmark : Benchmarks, config : Configs]

\* What a log file tells runs apart by.
Contents == [status : RunStatus, config : Configs]

\* origin: does the record come from execute or from a file?
Records == [plan : PlanIds, benchmark : Benchmarks, design : Designs,
            config : Configs, status : RunStatus,
            validation : ValidationStatus, artifact : BOOLEAN,
            origin : {"mock", "file"}]

ASSUME ExternalsAssumption ==
    \A f \in Externals :
        f.id \in RunIds /\ f.record \in Records /\ f.record.origin = "file"

Idle == [pc |-> "idle"]

-----------------------------------------------------------------------------
(***************************************************************************)
(* Planner and executor                                                    *)
(***************************************************************************)

PlanId(suite, policy) == <<suite.id, policy, version>>

\* Mutation: the run id forgets the suite.
RunIdAcrossSuites(plan, benchmark) ==
    <<<<CHOOSE id \in SuiteIds : TRUE, plan[2], plan[3]>>, benchmark>>

RunId(plan, benchmark) == <<plan, benchmark>>

\* plan_experiment: one planned run per item, in the suite's order.
PlanExperiment(suite, policy) ==
    [i \in DOMAIN suite.items |->
        [benchmark |-> suite.items[i].benchmark,
         config |-> Choose(policy, suite.items[i].benchmark,
                           suite.items[i].design, version)]]

\* The raw signals of simulate's four ways out; the budget is 10 seconds.
SimulatedRaw(outcome, holds) ==
    [return_code |-> CASE outcome = "error" -> 1
                       [] outcome = "timeout" -> 124
                       [] OTHER -> 0,
     wall_time_s |-> IF outcome = "timeout" THEN 10 ELSE 1,
     timeout_s   |-> 10,
     reached_conclusion |-> outcome = "concluded",
     conclusion_holds |-> IF outcome # "concluded" THEN "none"
                          ELSE IF holds THEN "holds" ELSE "refuted",
     tool_reported_error |-> outcome = "error"]

Simulated(item, config) ==
    SimulatedRaw(Outcome(item.benchmark, item.design, config),
                 Holds(item.design))

\* Mutation: a config the catalog no longer has is run all the same.
ExecuteAnyConfig(plan, item, config, keep) ==
    [plan |-> plan, benchmark |-> item.benchmark, design |-> item.design,
     config |-> config, status |-> Classify(Simulated(item, config)),
     validation |-> "valid", artifact |-> keep, origin |-> "mock"]

\* execute: a config outside the catalog is an ERROR record and nothing runs;
\* keep says whether an artifact directory was given.
Execute(plan, item, config, keep) ==
    LET known == config \in Catalogs[version] IN
    [plan |-> plan, benchmark |-> item.benchmark, design |-> item.design,
     config |-> config,
     status |-> IF known THEN Classify(Simulated(item, config)) ELSE "ERROR",
     validation |-> IF known THEN "valid" ELSE "invalid_config",
     artifact |-> known /\ keep,
     origin |-> "mock"]

LogOf(record) == [status |-> record.status, config |-> record.config]

-----------------------------------------------------------------------------
(***************************************************************************)
(* plan                                                                    *)
(***************************************************************************)
Init ==
    /\ version = 1
    /\ suites = [s \in SuiteIds |-> NoRow]
    /\ plans = [p \in PlanIds |-> NoRow]
    /\ runs = [r \in RunIds |-> NoRun]
    /\ artifacts = [r \in RunIds |-> NoFile]
    /\ made = [p \in PlanIds |-> NoRow]
    /\ died = {}
    /\ commands = 0
    /\ proc = [p \in Procs |-> Idle]

Goes(p, from, local) ==
    /\ proc[p].pc = from
    /\ proc' = [proc EXCEPT ![p] = local]

CommandStarts == commands < MaxCommands /\ commands' = commands + 1

\* plan_cmd reads the suite file and plans in memory.
StartPlan(p, suite, policy) ==
    /\ Goes(p, "idle", [pc |-> "save_suite", suite |-> suite,
                        id |-> PlanId(suite, policy),
                        planned |-> PlanExperiment(suite, policy)])
    /\ CommandStarts
    /\ UNCHANGED <<version, suites, plans, runs, artifacts, made, died>>

\* save_suite: INSERT OR REPLACE, committed at once.
SaveSuite(p) ==
    /\ Goes(p, "save_suite", [proc[p] EXCEPT !.pc = "save_plan"])
    /\ suites' = [suites EXCEPT ![proc[p].suite.id] = proc[p].suite.items]
    /\ UNCHANGED <<version, plans, runs, artifacts, made, died, commands>>

\* save_plan: the foreign key finds the suite.
SavePlan(p) ==
    /\ Goes(p, "save_plan", Idle)
    /\ suites[proc[p].suite.id] # NoRow
    /\ plans' = [plans EXCEPT ![proc[p].id] = proc[p].planned]
    /\ made'  = [made EXCEPT ![proc[p].id] = proc[p].suite.items]
    /\ UNCHANGED <<version, suites, runs, artifacts, died, commands>>

-----------------------------------------------------------------------------
(***************************************************************************)
(* run                                                                     *)
(***************************************************************************)

\* get_plan; a plan id that is not there ends the command.
StartRun(p, plan, keep) ==
    /\ plans[plan] # NoRow
    /\ Goes(p, "idle", [pc |-> "get_suite", id |-> plan, keep |-> keep,
                        planned |-> plans[plan], from |-> made[plan]])
    /\ CommandStarts
    /\ UNCHANGED <<version, suites, plans, runs, artifacts, made, died>>

\* get_suite; a missing suite ends the command with an error.
GetSuite(p) ==
    /\ proc[p].pc = "get_suite"
    /\ LET items == suites[proc[p].id[1]] IN
       proc' = [proc EXCEPT ![p] =
                  IF items = NoRow THEN [pc |-> "no_suite"]
                  ELSE [pc |-> "loop", id |-> proc[p].id,
                        keep |-> proc[p].keep, from |-> proc[p].from,
                        planned |-> proc[p].planned, items |-> items,
                        next |-> 1]]
    /\ UNCHANGED <<version, suites, plans, runs, artifacts, made, died, commands>>

\* by_id[...]: the item of the suite row with that benchmark id, if there is one.
Found(p, benchmark) ==
    {item \in Range(proc[p].items) : item.benchmark = benchmark}

Current(p) == proc[p].planned[proc[p].next]

\* by_id[pr.benchmark_id] raises KeyError: the rest of the plan is not run.
MissingItem(p) ==
    /\ proc[p].pc = "loop"
    /\ proc[p].next <= Len(proc[p].planned)
    /\ Found(p, Current(p).benchmark) = {}
    /\ proc' = [proc EXCEPT ![p] = [pc |-> "key_error", from |-> proc[p].from,
                                    items |-> proc[p].items]]
    /\ UNCHANGED <<version, suites, plans, runs, artifacts, made, died, commands>>

\* execute, up to the opening of the log file, which empties it.  Without an
\* artifact directory, or a config to run, there is no log.
ExecuteItem(p) ==
    /\ proc[p].pc = "loop"
    /\ proc[p].next <= Len(proc[p].planned)
    /\ \E item \in Found(p, Current(p).benchmark) :
          LET rec == Execute(proc[p].id, item, Current(p).config, proc[p].keep)
              id  == RunId(proc[p].id, Current(p).benchmark)
          IN /\ artifacts' = [artifacts EXCEPT ![id] =
                                IF rec.artifact THEN Torn ELSE @]
             /\ proc' = [proc EXCEPT ![p] =
                           [pc |-> IF rec.artifact THEN "write_log" ELSE "save_run",
                            loop |-> proc[p], record |-> rec]]
    /\ UNCHANGED <<version, suites, plans, runs, made, died, commands>>

\* The log of the record a process holds.
LogId(p) == RunId(proc[p].record.plan, proc[p].record.benchmark)

\* What a file holds once content is written to it from its start: of another
\* content that was written since it was opened, an end may stay.
Written(file, content) ==
    IF file \in {Torn, content} THEN {content} ELSE {content, Torn}

\* The rest of write_text: the log is filled and closed.
FillLog(p) ==
    /\ proc[p].pc = "write_log"
    /\ \E content \in Written(artifacts[LogId(p)], LogOf(proc[p].record)) :
          artifacts' = [artifacts EXCEPT ![LogId(p)] = content]
    /\ died' = died \ {LogId(p)}
    /\ proc' = [proc EXCEPT ![p] = [proc[p] EXCEPT !.pc = "save_run"]]
    /\ UNCHANGED <<version, suites, plans, runs, made, commands>>

\* save_run: INSERT OR REPLACE, committed at once.
SaveRun(p) ==
    /\ proc[p].pc = "save_run"
    /\ LET rec == proc[p].record IN
       runs' = [runs EXCEPT ![RunId(rec.plan, rec.benchmark)] = rec]
    /\ proc' = [proc EXCEPT ![p] =
                  [proc[p].loop EXCEPT !.next = @ + 1]]
    /\ UNCHANGED <<version, suites, plans, artifacts, made, died, commands>>

\* The loop is over and the connection closed.
FinishRun(p) ==
    /\ proc[p].pc = "loop"
    /\ proc[p].next > Len(proc[p].planned)
    /\ proc' = [proc EXCEPT ![p] = [pc |-> "ran", id |-> proc[p].id,
                                    planned |-> proc[p].planned]]
    /\ UNCHANGED <<version, suites, plans, runs, artifacts, made, died, commands>>

-----------------------------------------------------------------------------
(***************************************************************************)
(* ingest-result, the end of a process, a new catalog                      *)
(***************************************************************************)

\* ingest_result_json: any record the validator accepts, under any run id.
IngestResult(p, file) ==
    /\ proc[p].pc = "idle"
    /\ runs' = [runs EXCEPT ![file.id] = file.record]
    /\ UNCHANGED <<version, suites, plans, artifacts, made, died, proc, commands>>

\* The process has ended; its user starts another command.
Finished == {"ran", "key_error", "no_suite"}

Return(p) ==
    /\ proc[p].pc \in Finished
    /\ proc' = [proc EXCEPT ![p] = Idle]
    /\ UNCHANGED <<version, suites, plans, runs, artifacts, made, died, commands>>

\* The process is killed between two commits, or inside the write of a log.
Crash(p) ==
    /\ AllowCrash
    /\ proc[p].pc \notin Finished \cup {"idle"}
    /\ proc' = [proc EXCEPT ![p] = Idle]
    /\ died' = IF proc[p].pc = "write_log" THEN died \cup {LogId(p)} ELSE died
    /\ UNCHANGED <<version, suites, plans, runs, artifacts, made, commands>>

\* The next catalog version is installed while no command runs.
UpgradeCatalog ==
    /\ AllowUpgrade
    /\ version + 1 \in Versions
    /\ \A p \in Procs : proc[p] = Idle
    /\ version' = version + 1
    /\ UNCHANGED <<suites, plans, runs, artifacts, made, died, proc, commands>>

PlanStep(p) ==
    \/ \E s \in Suites, policy \in Policies : StartPlan(p, s, policy)
    \/ SaveSuite(p)
    \/ SavePlan(p)

RunStep(p) ==
    \/ \E plan \in PlanIds, keep \in KeepArtifacts : StartRun(p, plan, keep)
    \/ GetSuite(p)
    \/ MissingItem(p)
    \/ ExecuteItem(p)
    \/ FillLog(p)
    \/ SaveRun(p)
    \/ FinishRun(p)

Next ==
    \/ \E p \in Procs : PlanStep(p) \/ RunStep(p) \/ Return(p) \/ Crash(p)
    \/ \E p \in Procs, file \in Externals : IngestResult(p, file)
    \/ UpgradeCatalog

Spec == Init /\ [][Next]_vars

-----------------------------------------------------------------------------
(***************************************************************************)
(* Properties                                                              *)
(***************************************************************************)

\* The rows and the files have the types their writers give them.
TypeOK ==
    /\ version \in Versions
    /\ \A s \in SuiteIds : suites[s] \in Seq(Items) \cup {NoRow}
    /\ \A p \in PlanIds : plans[p] \in Seq(PlannedRuns) \cup {NoRow}
    /\ \A r \in RunIds : runs[r] \in Records \cup {NoRun}
    /\ \A r \in RunIds : artifacts[r] \in Contents \cup {NoFile, Torn}
    /\ died \subseteq RunIds

\* runs_for_plan
RunsForPlan(plan) == {r \in RunIds : runs[r] # NoRun /\ runs[r].plan = plan}

\* plans.suite_id REFERENCES suites: whatever is killed when, save_plan never
\* meets a missing suite and run never fails to find its plan's suite.
ForeignKeyHolds ==
    \A p \in Procs :
        /\ proc[p].pc = "save_plan" => suites[proc[p].suite.id] # NoRow
        /\ proc[p].pc # "no_suite"

\* The executor's verdicts are the simulation's: a conclusive status in a row
\* of the mock was concluded under that row's config on that row's design, and
\* says what is true of the design.
VerdictIsTrue ==
    \A r \in RunIds :
        runs[r] # NoRun /\ runs[r].origin = "mock"
            /\ Conclusive(runs[r].status) =>
            /\ runs[r].validation = "valid"
            /\ Outcome(runs[r].benchmark, runs[r].design, runs[r].config)
                 = "concluded"
            /\ Holds(runs[r].design) <=> runs[r].status = "PASS"

\* A plan that outlived its catalog: no config that the installed catalog does
\* not have is ever recorded as a valid run, although the plan names it.
OnlyCatalogConfigsRun ==
    \A r \in RunIds :
        runs'[r] # runs[r] /\ runs'[r].origin = "mock" /\ runs'[r].validation = "valid"
            => runs'[r].config \in Catalogs[version]

\* A plan is followed unless its suite was replaced between the plan that run
\* read and the suite it read: no KeyError ends the loop half-way, and each
\* record has the config the policy chooses for the design that was run.
PlanFollowed ==
    \A p \in Procs :
        /\ proc[p].pc = "key_error" => proc[p].items # proc[p].from
        /\ proc[p].pc \in {"write_log", "save_run"}
             /\ proc[p].loop.from = proc[p].loop.items =>
             LET rec == proc[p].record IN
             rec.config = Choose(rec.plan[2], rec.benchmark, rec.design,
                                 rec.plan[3])

\* What was planned can be run, and is what runs.
PlansHold == ForeignKeyHolds /\ PlanFollowed

\* A plan id whose suite files never redesign a benchmark, and about which no
\* external results come in.
Settled(plan) ==
    /\ \A s, t \in Suites : s.id = plan[1] /\ t.id = plan[1] =>
          \A i \in DOMAIN s.items, j \in DOMAIN t.items :
             s.items[i].benchmark = t.items[j].benchmark
                => s.items[i] = t.items[j]
    /\ \A f \in Externals : f.id[1] # plan /\ f.record.plan # plan

\* "Reproducible": running a settled plan again, after a crash or beside another
\* run of it, under the catalog it was run with, never changes its verdicts.
RowsStable ==
    \A r \in RunIds :
        Settled(r[1]) /\ runs[r] # NoRun /\ version = r[1][3] =>
            /\ runs'[r] # NoRun
            /\ \A f \in {"plan", "design", "config", "status", "validation"} :
                  runs'[r][f] = runs[r][f]

\* No step writes a row that the installed catalog does not cover, or changes what a
\* settled row says.
RowsReproducible == [][OnlyCatalogConfigsRun /\ RowsStable]_vars

\* When run reports its records as saved, the plan's summary has every one of
\* them, whatever other processes do meanwhile.
FinishedRunRecorded ==
    \A p \in Procs :
        proc[p].pc = "ran" /\ Settled(proc[p].id) =>
            \A i \in DOMAIN proc[p].planned :
                \E r \in RunsForPlan(proc[p].id) :
                    runs[r].benchmark = proc[p].planned[i].benchmark

\* A process is inside the write of that log.
Writing(r) == \E p \in Procs : proc[p].pc = "write_log" /\ LogId(p) = r

\* The row of a settled plan that names an artifact agrees with the file, even
\* if processes race or die between the file and the row; unless the file is
\* just being written again, or was when its writer died: such a log stays torn
\* under its old row until a run of the plan has written it to the end.
ArtifactAgrees ==
    \A r \in RunIds :
        Settled(r[1]) /\ runs[r] # NoRun /\ runs[r].artifact =>
            \/ artifacts[r] = LogOf(runs[r])
            \/ artifacts[r] = Torn /\ (Writing(r) \/ r \in died)

\* What a finished run reported as saved is there, a log agrees with its row but
\* for a write that goes on or was cut off, and what runs is what was planned.
LedgerHolds == PlansHold /\ FinishedRunRecorded /\ ArtifactAgrees

\* HUMAN_GATE.md: failures, timeouts, errors and inconclusive runs are "never
\* hidden, never upgraded": a row that is not PASS does not become PASS.
NeverUpgraded ==
    [][\A r \in RunIds :
          runs[r] # NoRun /\ runs[r].status # "PASS"
            => runs'[r].status # "PASS"]_vars

=============================================================================
