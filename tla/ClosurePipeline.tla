---------------------------- MODULE ClosurePipeline ----------------------------
(***************************************************************************)
(* The sixteen stages of spec-to-cov-agent (veri-forge), from a design     *)
(* spec to coverage closure, under either of its two drivers:              *)
(*                                                                         *)
(*   orchestrator   VeriForgeOrchestrator, the one the CLI runs: stages 1  *)
(*                  to 11 once, then 12 to 16 again and again.             *)
(*   pipeline       Pipeline: all stages once, stopping at a critical one. *)
(*                                                                         *)
(* The context that the stages share is abstracted to what a later stage   *)
(* asks of it: are there RTL files, an SVA file, a simulation log; which   *)
(* pieces the test file is made of; what the coverage is.  Models, tools   *)
(* and simulators are the environment: a call returns or raises.           *)
(***************************************************************************)
EXTENDS Integers, Sequences

CONSTANTS
    Measured,     \* what a simulation's coverage can be
    NoCoverage,   \* ctx.coverage is None
    Target,       \* target_coverage, in tenths of a percent
    SkipChoices,  \* the sets of stages a user may skip
    MaxIters      \* the values of max_iter

\* A simulation's coverage: whole percents, and is something reported uncovered?
CoverageResult == [line : 0 .. 100, toggle : 0 .. 100, branch : 0 .. 100,
                   gaps : BOOLEAN]

ASSUME ClosureAssumption ==
    /\ Measured \subseteq CoverageResult
    /\ NoCoverage \notin CoverageResult
    /\ Target \in Nat
    /\ SkipChoices \subseteq SUBSET (1 .. 16)
    /\ MaxIters \subseteq Nat

VARIABLES
    driver,    \* "orchestrator" or "pipeline"
    skip,      \* config.skip_stages
    maxIter,   \* config.max_iter
    stage,     \* the stage that runs now, Check, or Done
    iter,      \* ctx.iteration
    inner,     \* the iteration inside stage 16
    rtl, sva, log,   \* ctx.rtl_files, ctx.sva_file, ctx.sim_log: is there any?
    testFile,  \* the iterations that wrote a piece of ctx.test_file
    testFound, \* is a stage-12 result with its file recorded?
    coverage,  \* ctx.coverage
    formal,    \* status of stage 6, and how the tool's run ended
    verdict,   \* status of the last result named coverage_closure
    failed     \* is any recorded result a fail?

stageVars   == <<driver, skip, maxIter>>
contextVars == <<rtl, sva, log, testFile, testFound, coverage>>
closureVars == <<stageVars, stage, iter, inner, contextVars, formal, verdict,
                 failed>>

Check == 17     \* the orchestrator looks at the closure verdict
Done  == 18

CRITICAL_STAGES == {1, 13}

\* LegacyCoverageResult.overall_pct and stage 16's _overall: the mean of the
\* metrics above zero, rounded to a tenth of a percent.
Overall(cov) ==
    LET sum == cov.line + cov.toggle + cov.branch
        One(pct) == IF pct > 0 THEN 1 ELSE 0
        n == One(cov.line) + One(cov.toggle) + One(cov.branch)
    IN  IF n = 0 THEN 0 ELSE (20 * sum + n) \div (2 * n)

Met(cov) == Overall(cov) >= Target

ClosureInit ==
    /\ driver \in {"orchestrator", "pipeline"}
    /\ skip \in SkipChoices /\ maxIter \in MaxIters
    /\ stage = 1 /\ iter = 0 /\ inner = 0
    /\ rtl = FALSE /\ sva = FALSE /\ log = FALSE
    /\ testFile = <<>> /\ testFound = FALSE /\ coverage = NoCoverage
    /\ formal = [status |-> "none", run |-> "none"]
    /\ verdict = "none" /\ failed = FALSE

-----------------------------------------------------------------------------
(***************************************************************************)
(* The drivers.                                                            *)
(***************************************************************************)

\* Where the driver goes after stage n: the pipeline stops at a critical stage
\* that failed, the orchestrator at its loop of no iterations.
After(n, status) ==
    IF \/ driver = "pipeline" /\ n = 16
       \/ driver = "pipeline" /\ status = "fail" /\ n \in CRITICAL_STAGES
       \/ driver = "orchestrator" /\ n = 11 /\ maxIter = 0
    THEN Done ELSE n + 1

\* The driver records the result of stage n, an exception being a fail.
Record(n, status) ==
    /\ stage = n /\ n \notin skip
    /\ stage' = After(n, status)
    /\ failed' = (failed \/ status = "fail")
    /\ UNCHANGED <<stageVars, iter>>

SkipStage ==
    /\ stage \in skip
    /\ stage' = After(stage, "skip")
    /\ UNCHANGED <<stageVars, iter, inner, contextVars, formal, verdict, failed>>

\* The end of one iteration of VeriForgeOrchestrator.run.  The loop looks for
\* data["closure"] in the last coverage_closure result; stage 16 never writes
\* that key, so that its default "iterate" is what the loop always sees.
CheckClosure ==
    /\ stage = Check
    /\ IF verdict # "none" /\ iter + 1 < maxIter
       THEN stage' = 12 /\ iter' = iter + 1
       ELSE stage' = Done /\ iter' = iter
    /\ UNCHANGED <<stageVars, inner, contextVars, formal, verdict, failed>>

-----------------------------------------------------------------------------
(***************************************************************************)
(* Stages 1 to 11.  pass, skip and warn are the same to the drivers.       *)
(***************************************************************************)

Unmoved == UNCHANGED <<inner, contextVars, formal, verdict>>

SpecParser  == \E status \in {"pass", "fail"} : Record(1, status) /\ Unmoved

\* RTL is found in rtl_dir or generated; else the call raises.
RtlDesigner ==
    \E status \in {"pass", "fail"} :
        /\ Record(2, status)
        /\ rtl' = (status = "pass")
        /\ UNCHANGED <<inner, sva, log, testFile, testFound, coverage, formal,
                       verdict>>

LintRunner == \E status \in {"skip", "pass", "warn"} :
    (rtl \/ status = "skip") /\ Record(3, status) /\ Unmoved

RtlReviewer == \E status \in {"skip", "pass", "warn", "fail"} :
    (rtl <=> status # "skip") /\ Record(4, status) /\ Unmoved

PropertyGen ==
    \E status \in {"pass", "fail"} :
        /\ Record(5, status)
        /\ sva' = (status = "pass")
        /\ UNCHANGED <<inner, rtl, log, testFile, testFound, coverage, formal,
                       verdict>>

\* The formal tool proves, refutes, runs out of time or cannot be run.
FormalRuns == {"proven", "cex", "timeout", "error"}

\* _run_jasper and _run_sby return no counterexample for a timeout or an error,
\* and a result without counterexample is a pass.
Formal ==
    \/ /\ Record(6, "skip")
       /\ formal' = [status |-> "skip", run |-> "none"]
       /\ UNCHANGED <<inner, contextVars, verdict>>
    \/ \E run \in FormalRuns :
          LET status == IF run = "cex" THEN "fail" ELSE "pass" IN
          /\ sva /\ rtl
          /\ Record(6, status)
          /\ formal' = [status |-> status, run |-> run]
          /\ UNCHANGED <<inner, contextVars, verdict>>

Lec == \E status \in {"skip", "pass", "fail", "warn"} :
    (rtl \/ status = "skip") /\ Record(7, status) /\ Unmoved

TestplanGen  == \E status \in {"pass", "fail"} : Record(8, status) /\ Unmoved
RefModelGen  == \E status \in {"pass", "fail"} : Record(9, status) /\ Unmoved
UvmVipGen    == \E status \in {"skip", "pass", "fail"} :
                    Record(10, status) /\ Unmoved
CocotbVipGen == \E status \in {"pass", "fail"} : Record(11, status) /\ Unmoved

-----------------------------------------------------------------------------
(***************************************************************************)
(* Stages 12 to 15.                                                        *)
(***************************************************************************)

\* The first generated file is the initial one; later iterations add to it.
TestGen ==
    \/ Record(12, "fail") /\ Unmoved
    \/ /\ Record(12, "pass")
       /\ testFile' = IF iter = 0 \/ testFile = <<>> THEN <<iter>>
                      ELSE Append(testFile, iter)
       /\ testFound' = TRUE
       /\ UNCHANGED <<inner, rtl, sva, log, coverage, formal, verdict>>

\* No RTL, no test file, or a simulator that is missing or runs out of time:
\* the coverage of an earlier iteration stays.  A simulation that ran replaces
\* it, whether its tests passed or not.
Simulation ==
    \/ Record(13, "fail") /\ Unmoved
    \/ /\ rtl /\ testFound
       /\ \E status \in {"pass", "fail"} : Record(13, status)
       /\ coverage' \in Measured
       /\ log' \in BOOLEAN
       /\ UNCHANGED <<inner, rtl, sva, testFile, testFound, formal, verdict>>

\* The analyzer appends to the log, and asks a model only about failures.
FsdbAnalyzer ==
    \E status \in {"skip", "pass", "fail"} :
        (log <=> status # "skip") /\ Record(14, status) /\ Unmoved

\* A model that cannot be reached is replaced by an empty analysis.
DebugAnalyzer ==
    \E status \in {"skip", "pass"} :
        /\ status = "skip" <=> coverage = NoCoverage /\ ~log
        /\ Record(15, status) /\ Unmoved

-----------------------------------------------------------------------------
(***************************************************************************)
(* Stage 16: the closure loop inside the closure loop.                     *)
(***************************************************************************)

\* Mutation: the last measurement is kept.
Latest(new, old) == new

\* What stage 16 keeps of a new simulation.
Better(new, old) == IF Overall(new) > Overall(old) THEN new ELSE old

\* Stage 16 returns a result under its own name and the driver goes on.
FinishClosure(status) ==
    /\ Record(16, status)
    /\ verdict' = status /\ inner' = 0
    /\ UNCHANGED <<contextVars, formal>>

ClosureWithoutCoverage == coverage = NoCoverage /\ FinishClosure("skip")

\* The loop ends: target met, no gaps, no test generated, or max_iter reached.
ClosureResult ==
    /\ coverage # NoCoverage
    /\ FinishClosure(IF Met(coverage) THEN "pass" ELSE "fail")

\* Another iteration: below the target, with gaps and a generated test.
Closing ==
    /\ stage = 16 /\ 16 \notin skip /\ inner < maxIter
    /\ coverage # NoCoverage /\ ~Met(coverage) /\ coverage.gaps

\* Mutation: a failed simulation starts the count of iterations anew.
ClosureSimFailedUncounted ==
    /\ Closing
    /\ inner' = 0
    /\ UNCHANGED <<stageVars, stage, iter, contextVars, formal, verdict, failed>>

ClosureSimFailed ==
    /\ Closing
    /\ inner' = inner + 1
    /\ UNCHANGED <<stageVars, stage, iter, contextVars, formal, verdict, failed>>

ClosureSimOk ==
    /\ Closing
    /\ inner' = inner + 1
    /\ \E new \in Measured : coverage' = Better(new, coverage)
    /\ UNCHANGED <<stageVars, stage, iter, rtl, sva, log, testFile, testFound,
                   formal, verdict, failed>>

\* Mutation: the driver takes the exception for a warning.
ClosureRaisesWarning ==
    /\ Closing /\ Record(16, "warn")
    /\ inner' = 0 /\ UNCHANGED <<contextVars, formal, verdict>>

\* The simulator is missing or runs out of time: the driver records a fail
\* under the class name, which is not the name the loop looks for.
ClosureRaises ==
    /\ Closing /\ Record(16, "fail")
    /\ inner' = 0 /\ UNCHANGED <<contextVars, formal, verdict>>

ClosureNext ==
    \/ SpecParser \/ RtlDesigner \/ LintRunner \/ RtlReviewer \/ PropertyGen
    \/ Formal \/ Lec \/ TestplanGen \/ RefModelGen \/ UvmVipGen \/ CocotbVipGen
    \/ TestGen \/ Simulation \/ FsdbAnalyzer \/ DebugAnalyzer
    \/ ClosureWithoutCoverage \/ ClosureResult
    \/ ClosureSimFailed \/ ClosureSimOk \/ ClosureRaises
    \/ SkipStage \/ CheckClosure

\* Every call of a tool has a time limit and every call of a model a bounded
\* number of retries, so the single process of the driver goes on.
ClosureSpec ==
    ClosureInit /\ [][ClosureNext]_closureVars /\ WF_closureVars(ClosureNext)

-----------------------------------------------------------------------------
(***************************************************************************)
(* Properties                                                              *)
(***************************************************************************)

\* The variables range over the values of the code's types, and the coverage is
\* always that of one simulation.
ClosureTypeOK ==
    /\ driver \in {"orchestrator", "pipeline"}
    /\ skip \in SUBSET (1 .. 16) /\ maxIter \in Nat
    /\ stage \in 1 .. Done /\ iter \in Nat /\ inner \in Nat
    /\ rtl \in BOOLEAN /\ sva \in BOOLEAN /\ log \in BOOLEAN
    /\ testFile \in Seq(Nat) /\ testFound \in BOOLEAN
    /\ coverage \in Measured \cup {NoCoverage}
    /\ formal \in [status : {"none", "skip", "pass", "fail"},
                   run : FormalRuns \cup {"none"}]
    /\ verdict \in {"none", "skip", "pass", "fail"}
    /\ failed \in BOOLEAN

\* The CLI's exit code 0 ("non-zero if any stage failed") means closure: when
\* neither simulation nor closure was skipped, the coverage the run ends with
\* was measured and meets the target, whatever failed, raised or was retried
\* on the way.
ExitZeroMeansMet ==
    stage = Done /\ ~failed /\ maxIter > 0 /\ skip \cap {13, 16} = {} =>
        coverage # NoCoverage /\ Met(coverage)

\* Stage 16 never gives back coverage it has: a worse or failed simulation of
\* its inner loop leaves the coverage alone.
CoverageStep ==
    stage = 16 /\ coverage # NoCoverage =>
        /\ coverage' # NoCoverage
        /\ Overall(coverage') >= Overall(coverage)

\* "Do NOT rewrite existing tests": no iteration loses the tests of another.
TestsStep ==
    Len(testFile) <= Len(testFile') /\ SubSeq(testFile', 1, Len(testFile)) = testFile

\* Two things are kept: the coverage, by the inner loop of stage 16, and the tests, by both
\* loops.  The outer loop does lose coverage: stage 13 replaces it by what it measured.
ProgressKept == [][CoverageStep /\ TestsStep]_closureVars

\* The nested loops end, whatever simulators and models do.
ClosureEnds == <>(stage = Done)

-----------------------------------------------------------------------------
(* What the documentation says and the code does not do. *)

\* "Coverage closure loop repeats stages 12-16 until your targets are met":
\* no iteration starts after a closure result that met the target.
StopsWhenMet == stage = 12 /\ iter > 0 => verdict # "pass"

\* "Never classify a TIMEOUT, ERROR, or INCONCLUSIVE result as a PASS": stage 6
\* passes only when the formal tool concluded.
FormalPassConcluded == formal.status = "pass" => formal.run = "proven"

=============================================================================
