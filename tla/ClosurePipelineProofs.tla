------------------------- MODULE ClosurePipelineProofs -------------------------
(***************************************************************************)
(* Proofs about the closure pipeline, for every set of coverages a         *)
(* simulation can yield, every target, every choice of skipped stages and  *)
(* every max_iter: what exit code 0 means, that the loop repeats only on a *)
(* closure result, and that neither loop loses coverage or tests.          *)
(***************************************************************************)
EXTENDS ClosurePipeline, TLAPS

USE ClosureAssumption

-----------------------------------------------------------------------------
(* The inductive invariant. *)

\* A run that wants closure and has not failed so far.
Closable == ~failed /\ maxIter > 0 /\ skip \cap {13, 16} = {}

\* Past the simulation such a run has coverage, and past stage 16 it has met
\* the target.
CoveredWhenSimulated == Closable /\ stage \in 14 .. Done => coverage # NoCoverage
MetWhenClosed        == Closable /\ stage \in {Check, Done} => Met(coverage)

\* The two halves of the type invariant: what the driver owns, and what the
\* stages write.
DriverType ==
    /\ driver \in {"orchestrator", "pipeline"}
    /\ skip \in SUBSET (1 .. 16) /\ maxIter \in Nat
    /\ stage \in 1 .. Done /\ iter \in Nat /\ failed \in BOOLEAN

ContextType ==
    /\ inner \in Nat /\ testFile \in Seq(Nat) /\ testFound \in BOOLEAN
    /\ rtl \in BOOLEAN /\ sva \in BOOLEAN /\ log \in BOOLEAN
    /\ coverage \in Measured \cup {NoCoverage}
    /\ formal \in [status : {"none", "skip", "pass", "fail"},
                   run : FormalRuns \cup {"none"}]
    /\ verdict \in {"none", "skip", "pass", "fail"}

ClosureInv ==
    /\ ClosureTypeOK
    /\ CoveredWhenSimulated
    /\ MetWhenClosed

-----------------------------------------------------------------------------
(* Lemmas. *)

\* The driver's next stage is the one that follows, or the end: of the pipeline
\* after its last or a failed critical stage, of the orchestrator with no
\* iterations.
LEMMA AfterStage ==
    ASSUME NEW n \in 1 .. 16, NEW status
    PROVE  \/ After(n, status) = n + 1
           \/ /\ After(n, status) = Done
              /\ \/ n = 16
                 \/ status = "fail"
                 \/ n = 11 /\ maxIter = 0
BY DEF After

LEMMA TypeHalves ==
    /\ ClosureTypeOK <=> DriverType /\ ContextType
    /\ ClosureTypeOK' <=> DriverType' /\ ContextType'
BY DEF ClosureTypeOK, DriverType, ContextType

\* Recording a result keeps the types of what the driver owns.
LEMMA RecordType ==
    ASSUME NEW n \in 1 .. 16, NEW status, ClosureTypeOK, Record(n, status)
    PROVE  DriverType'
<1>1. stage' = After(n, status)
  BY DEF Record
<1>2. stage' \in 1 .. Done
  BY <1>1, AfterStage DEF Done
<1>3. failed' \in BOOLEAN
  BY DEF Record
<1> QED  BY <1>2, <1>3 DEF Record, stageVars, ClosureTypeOK, DriverType

\* A stage before the simulation keeps the invariant when it keeps the types,
\* the coverage and the verdict.
LEMMA BeforeSimulation ==
    ASSUME NEW n \in 1 .. 12, NEW status, ClosureInv, Record(n, status),
           ClosureTypeOK', UNCHANGED <<coverage, verdict>>
    PROVE  ClosureInv'
<1>1. \/ stage' = n + 1
      \/ stage' = Done /\ (failed' \/ maxIter' = 0)
  <2>1. /\ stage' = After(n, status)
        /\ status = "fail" => failed'
        /\ maxIter' = maxIter
    BY DEF Record, stageVars
  <2> QED  BY <2>1, AfterStage
<1>2. Closable' => stage' \in 2 .. 13
  BY <1>1 DEF Closable
<1> QED
  BY <1>2 DEF ClosureInv, CoveredWhenSimulated, MetWhenClosed, Check, Done

\* So does a stage between the simulation and stage 16.
LEMMA AfterSimulation ==
    ASSUME NEW n \in 14 .. 15, NEW status, ClosureInv, Record(n, status),
           ClosureTypeOK', UNCHANGED <<coverage, verdict>>
    PROVE  ClosureInv'
<1>1. stage = n /\ (stage' = n + 1 \/ (stage' = Done /\ failed'))
  <2>1. /\ stage = n /\ stage' = After(n, status)
        /\ status = "fail" => failed'
    BY DEF Record
  <2> QED  BY <2>1, AfterStage
<1>2. Closable' => Closable /\ stage' \in 15 .. 16
  <2>1. failed \in BOOLEAN /\ failed' = (failed \/ status = "fail")
    BY DEF ClosureInv, ClosureTypeOK, Record
  <2>2. skip' = skip /\ maxIter' = maxIter
    BY DEF Record, stageVars
  <2> QED  BY <1>1, <2>1, <2>2 DEF Closable
<1> QED
  BY <1>1, <1>2 DEF ClosureInv, CoveredWhenSimulated, MetWhenClosed, Check,
                          Done

\* Stages that leave the context alone.
LEMMA UnmovedType ==
    ASSUME NEW n \in 1 .. 16, NEW status, ClosureTypeOK, Record(n, status), Unmoved
    PROVE  ClosureTypeOK' /\ UNCHANGED <<coverage, verdict>>
BY RecordType, TypeHalves DEF ContextType, Unmoved, contextVars

LEMMA UnmovedStage ==
    ASSUME NEW n \in (1 .. 12) \cup (14 .. 15), NEW status, ClosureInv,
           Record(n, status), Unmoved
    PROVE  ClosureInv'
<1>1. ClosureTypeOK' /\ UNCHANGED <<coverage, verdict>>
  BY UnmovedType DEF ClosureInv
<1> QED  BY <1>1, BeforeSimulation, AfterSimulation

\* The overall coverage is a number.
LEMMA OverallType ==
    ASSUME NEW cov \in CoverageResult
    PROVE  Overall(cov) \in Nat
<1> DEFINE One(pct) == IF pct > 0 THEN 1 ELSE 0
           sum == cov.line + cov.toggle + cov.branch
           n == One(cov.line) + One(cov.toggle) + One(cov.branch)
<1>1. sum \in Nat /\ n \in 0 .. 3
  <2>1. cov.line \in 0 .. 100 /\ cov.toggle \in 0 .. 100 /\ cov.branch \in 0 .. 100
    BY DEF CoverageResult
  <2>2. \A pct \in 0 .. 100 : One(pct) \in 0 .. 1
    OBVIOUS
  <2>3. One(cov.line) \in 0 .. 1 /\ One(cov.toggle) \in 0 .. 1
        /\ One(cov.branch) \in 0 .. 1
    BY <2>1, <2>2
  <2>4. \A a, b, c \in 0 .. 1 : a + b + c \in 0 .. 3
    OBVIOUS
  <2>5. \A a, b, c \in 0 .. 100 : a + b + c \in Nat
    OBVIOUS
  <2>6. n \in 0 .. 3
    BY <2>3, <2>4
  <2>7. sum \in Nat
    BY <2>1, <2>5
  <2> QED  BY <2>6, <2>7
<1>2. Overall(cov) = IF n = 0 THEN 0 ELSE (20 * sum + n) \div (2 * n)
  BY DEF Overall
<1> HIDE DEF sum, n
<1>3. (20 * sum + 1) \div 2 \in Nat
  BY <1>1
<1>4. (20 * sum + 2) \div 4 \in Nat
  BY <1>1
<1>5. (20 * sum + 3) \div 6 \in Nat
  BY <1>1
<1>6. n = 0 \/ n = 1 \/ n = 2 \/ n = 3
  BY <1>1
<1> QED  BY <1>2, <1>3, <1>4, <1>5, <1>6

-----------------------------------------------------------------------------
(* The invariant holds of the initial states and of every step. *)

LEMMA ClosureStart == ClosureInit => ClosureInv
<1> SUFFICES ASSUME ClosureInit PROVE ClosureInv
  OBVIOUS
<1>1. ClosureTypeOK
  <2>1. DriverType
    <3>1. skip \in SUBSET (1 .. 16) /\ maxIter \in Nat
      BY DEF ClosureInit, ClosureAssumption
    <3>2. stage \in 1 .. Done /\ iter \in Nat
      BY DEF ClosureInit, Done
    <3> QED  BY <3>1, <3>2 DEF ClosureInit, DriverType
  <2>2. ContextType
    <3>1. formal \in [status : {"none", "skip", "pass", "fail"},
                      run : FormalRuns \cup {"none"}]
      BY DEF ClosureInit
    <3>2. testFile \in Seq(Nat)
      BY DEF ClosureInit
    <3> QED  BY <3>1, <3>2 DEF ClosureInit, ContextType
  <2> QED  BY <2>1, <2>2, TypeHalves
<1> QED
  BY <1>1 DEF ClosureInit, ClosureInv, CoveredWhenSimulated, MetWhenClosed,
              Check, Done

\* The stages up to 12 that write something into the context.
LEMMA WritersBeforeSimulation ==
    ASSUME ClosureInv, RtlDesigner \/ PropertyGen \/ Formal \/ TestGen
    PROVE  ClosureInv'
<1> USE DEF ClosureInv
<1>1. ASSUME RtlDesigner PROVE ClosureInv'
  <2> PICK status \in {"pass", "fail"} : Record(2, status)
    BY <1>1 DEF RtlDesigner
  <2>1. ContextType' /\ UNCHANGED <<coverage, verdict>>
    BY <1>1, TypeHalves DEF RtlDesigner, ContextType
  <2> QED  BY <2>1, TypeHalves, RecordType, BeforeSimulation
<1>2. ASSUME PropertyGen PROVE ClosureInv'
  <2> PICK status \in {"pass", "fail"} : Record(5, status)
    BY <1>2 DEF PropertyGen
  <2>1. ContextType' /\ UNCHANGED <<coverage, verdict>>
    BY <1>2, TypeHalves DEF PropertyGen, ContextType
  <2> QED  BY <2>1, TypeHalves, RecordType, BeforeSimulation
<1>3. ASSUME Formal PROVE ClosureInv'
  <2> PICK status \in {"skip", "pass", "fail"} : Record(6, status)
    BY <1>3 DEF Formal
  <2>1. formal' \in [status : {"none", "skip", "pass", "fail"},
                     run : FormalRuns \cup {"none"}]
    BY <1>3 DEF Formal
  <2>2. ContextType' /\ UNCHANGED <<coverage, verdict>>
    BY <1>3, <2>1, TypeHalves DEF Formal, ContextType, contextVars
  <2> QED  BY <2>2, TypeHalves, RecordType, BeforeSimulation
<1>4. ASSUME TestGen PROVE ClosureInv'
  <2>1. CASE Record(12, "fail") /\ Unmoved
    BY <2>1, UnmovedStage
  <2>2. CASE ~(Record(12, "fail") /\ Unmoved)
    <3>1. /\ Record(12, "pass")
          /\ testFile' = IF iter = 0 \/ testFile = <<>> THEN <<iter>>
                         ELSE Append(testFile, iter)
          /\ testFound' = TRUE
          /\ UNCHANGED <<inner, rtl, sva, log, coverage, formal, verdict>>
      BY <1>4, <2>2 DEF TestGen
    <3>2. testFile' \in Seq(Nat)
      BY <3>1 DEF ClosureTypeOK
    <3>3. ContextType'
      BY <3>1, <3>2, TypeHalves DEF ContextType
    <3> QED  BY <3>1, <3>3, TypeHalves, RecordType, BeforeSimulation
  <2> QED  BY <2>1, <2>2
<1> QED  BY <1>1, <1>2, <1>3, <1>4

\* A simulation that does not fail leaves coverage behind.
LEMMA SimulationStep ==
    ASSUME ClosureInv, Simulation
    PROVE  ClosureInv'
<1>1. PICK status \in {"pass", "fail"} : Record(13, status)
  BY DEF Simulation
<1>2. ClosureTypeOK' /\ verdict' = verdict
  <2>1. ClosureTypeOK /\ ContextType
    BY TypeHalves DEF ClosureInv
  <2>2. ContextType' /\ verdict' = verdict
    BY <2>1 DEF Simulation, ContextType, Unmoved, contextVars
  <2> QED  BY <1>1, <2>1, <2>2, TypeHalves, RecordType
<1>3. stage' = 14 \/ failed'
  <2>1. stage' = After(13, status) /\ (status = "fail" => failed')
    BY <1>1 DEF Record
  <2> QED  BY <2>1, AfterStage
<1>4. failed' \/ coverage' # NoCoverage
  BY DEF Simulation, Record
<1> QED
  BY <1>2, <1>3, <1>4 DEF ClosureInv, CoveredWhenSimulated, MetWhenClosed,
                                Closable, Check, Done

\* Stage 16 gives its verdict: a pass means that the target is met.
LEMMA FinishStep ==
    ASSUME ClosureInv, NEW status \in {"skip", "pass", "fail"},
           FinishClosure(status),
           status = "skip" => coverage = NoCoverage,
           status = "pass" => coverage # NoCoverage /\ Met(coverage)
    PROVE  ClosureInv'
<1>1. Record(16, status) /\ UNCHANGED <<contextVars, formal>>
      /\ verdict' = status /\ inner' = 0
  BY DEF FinishClosure
<1>2. ClosureTypeOK'
  <2>1. ClosureTypeOK /\ ContextType
    BY TypeHalves DEF ClosureInv
  <2>2. ContextType'
    BY <1>1, <2>1 DEF ContextType, contextVars
  <2> QED  BY <1>1, <2>1, <2>2, TypeHalves, RecordType
<1>3. Closable' => Closable /\ status # "fail"
  <2>1. failed \in BOOLEAN /\ failed' = (failed \/ status = "fail")
    BY <1>1 DEF ClosureInv, ClosureTypeOK, Record
  <2>2. skip' = skip /\ maxIter' = maxIter
    BY <1>1 DEF Record, stageVars
  <2> QED  BY <2>1, <2>2 DEF Closable
<1>4. Closable => coverage # NoCoverage
  BY <1>1 DEF ClosureInv, CoveredWhenSimulated, Record, Done
<1>5. coverage' = coverage
  BY <1>1 DEF contextVars
<1>6. Closable' => coverage' # NoCoverage /\ Met(coverage')
  BY <1>3, <1>4, <1>5
<1>7. CoveredWhenSimulated' /\ MetWhenClosed'
  BY <1>6 DEF CoveredWhenSimulated, MetWhenClosed
<1> QED  BY <1>2, <1>7 DEF ClosureInv

\* The inner loop of stage 16, and the exception that ends it.
LEMMA InnerStep ==
    ASSUME ClosureInv, ClosureSimFailed \/ ClosureSimOk \/ ClosureRaises
    PROVE  ClosureInv'
<1> USE DEF ClosureInv
<1>1. ASSUME ClosureSimFailed PROVE ClosureInv'
  <2>1. ClosureTypeOK'
    BY <1>1 DEF ClosureSimFailed, ClosureTypeOK, stageVars, contextVars
  <2> QED
    BY <1>1, <2>1 DEF ClosureSimFailed, stageVars, contextVars, Closing, Closable,
          CoveredWhenSimulated, MetWhenClosed, Check, Done
<1>2. ASSUME ClosureSimOk PROVE ClosureInv'
  <2>1. coverage \in Measured /\ coverage' \in Measured
    BY <1>2 DEF ClosureSimOk, Closing, ClosureTypeOK, Better
  <2>2. ClosureTypeOK'
    BY <1>2, <2>1 DEF ClosureSimOk, ClosureTypeOK, stageVars
  <2>3. stage' = 16 /\ coverage' # NoCoverage
    BY <1>2, <2>1 DEF ClosureSimOk, Closing
  <2> QED
    BY <2>2, <2>3 DEF CoveredWhenSimulated, MetWhenClosed, Check, Done
<1>3. ASSUME ClosureRaises PROVE ClosureInv'
  <2>1. Record(16, "fail") /\ UNCHANGED <<contextVars, formal, verdict>> /\ inner' = 0
    BY <1>3 DEF ClosureRaises
  <2>2. ClosureTypeOK'
    <3>1. ContextType'
      BY <2>1, TypeHalves DEF ContextType, contextVars
    <3> QED  BY <2>1, <3>1, TypeHalves, RecordType
  <2>3. failed'
    BY <2>1 DEF Record
  <2> QED
    BY <2>2, <2>3 DEF Closable, CoveredWhenSimulated, MetWhenClosed
<1> QED  BY <1>1, <1>2, <1>3

\* Skipping neither the simulation nor stage 16 loses nothing.
LEMMA SkipStep ==
    ASSUME ClosureInv, SkipStage
    PROVE  ClosureInv'
<1>1. stage \in 1 .. 16 /\ stage \in skip
  BY DEF ClosureInv, ClosureTypeOK, SkipStage
<1>2. /\ stage' = stage + 1 \/ stage' = Done
      /\ Closable => stage' = stage + 1
  <2>1. stage' = After(stage, "skip")
    BY DEF SkipStage
  <2> QED  BY <1>1, <2>1, AfterStage DEF Closable
<1>3. ClosureTypeOK'
  <2>1. ClosureTypeOK /\ DriverType /\ ContextType
    BY TypeHalves DEF ClosureInv
  <2>2. DriverType'
    BY <1>1, <1>2, <2>1 DEF SkipStage, DriverType, stageVars, Done
  <2>3. ContextType'
    BY <2>1 DEF SkipStage, ContextType, contextVars
  <2> QED  BY <2>2, <2>3, TypeHalves
<1>4. /\ Closable' <=> Closable
      /\ coverage' = coverage
  BY DEF ClosureInv, SkipStage, stageVars, contextVars, Closable
<1>5. Closable => stage \in (1 .. 12) \cup (14 .. 15)
  BY <1>1 DEF Closable
<1> QED
  BY <1>2, <1>3, <1>4, <1>5 DEF ClosureInv, CoveredWhenSimulated, MetWhenClosed,
                                Check, Done

\* The orchestrator looks at the verdict and goes back to stage 12, or ends.
LEMMA CheckStep ==
    ASSUME ClosureInv, CheckClosure
    PROVE  ClosureInv'
<1>1. ClosureTypeOK'
  BY DEF ClosureInv, ClosureTypeOK, CheckClosure, stageVars, contextVars, Done
<1>2. /\ Closable' <=> Closable
      /\ UNCHANGED <<coverage, verdict>>
  BY DEF CheckClosure, stageVars, contextVars, Closable
<1>3. stage = Check /\ (stage' = 12 \/ stage' = Done)
  BY DEF CheckClosure
<1> QED
  BY <1>1, <1>2, <1>3 DEF ClosureInv, CoveredWhenSimulated, MetWhenClosed, Check, Done

LEMMA ClosureStep ==
    ASSUME ClosureInv, [ClosureNext]_closureVars
    PROVE  ClosureInv'
<1>1. CASE SpecParser \/ LintRunner \/ RtlReviewer
  BY <1>1, UnmovedStage DEF SpecParser, LintRunner, RtlReviewer
<1>2. CASE Lec \/ TestplanGen \/ RefModelGen \/ UvmVipGen \/ CocotbVipGen
  BY <1>2, UnmovedStage DEF Lec, TestplanGen, RefModelGen, UvmVipGen, CocotbVipGen
<1>3. CASE FsdbAnalyzer \/ DebugAnalyzer
  BY <1>3, UnmovedStage DEF FsdbAnalyzer, DebugAnalyzer
<1>4. CASE RtlDesigner \/ PropertyGen \/ Formal \/ TestGen
  BY <1>4, WritersBeforeSimulation
<1>5. CASE Simulation
  BY <1>5, SimulationStep
<1>6. CASE ClosureWithoutCoverage
  BY <1>6, FinishStep DEF ClosureWithoutCoverage
<1>7. CASE ClosureResult
  BY <1>7, FinishStep DEF ClosureResult
<1>8. CASE ClosureSimFailed \/ ClosureSimOk \/ ClosureRaises
  BY <1>8, InnerStep
<1>9. CASE SkipStage
  BY <1>9, SkipStep
<1>10. CASE CheckClosure
  BY <1>10, CheckStep
<1>11. CASE UNCHANGED closureVars
  BY <1>11 DEF closureVars, stageVars, contextVars, ClosureInv, ClosureTypeOK,
       CoveredWhenSimulated, MetWhenClosed, Closable
<1> QED
  BY <1>1, <1>2, <1>3, <1>4, <1>5, <1>6, <1>7, <1>8, <1>9, <1>10, <1>11
     DEF ClosureNext

-----------------------------------------------------------------------------
(* Theorems. *)

\* Every reachable state of a driver satisfies the inductive invariant: runs
\* that have not failed carry coverage from stage 13 on and a met target from
\* stage 16 on.
THEOREM ClosureInvariant == ClosureSpec => []ClosureInv
BY ClosureStart, ClosureStep, PTL DEF ClosureSpec

\* The shared context never holds a value that the code's types exclude.
THEOREM ClosureTypeCorrect == ClosureSpec => []ClosureTypeOK
<1>1. ClosureInv => ClosureTypeOK
  BY DEF ClosureInv
<1> QED  BY <1>1, ClosureInvariant, PTL

\* Exit code 0 of the CLI means that the target is met, for every target, every
\* max_iter above zero and every coverage a simulator can report.
THEOREM ExitZeroMeansMetAlways == ClosureSpec => []ExitZeroMeansMet
<1>1. ClosureInv => ExitZeroMeansMet
  BY DEF ClosureInv, CoveredWhenSimulated, MetWhenClosed, Closable,
         ExitZeroMeansMet, Check, Done
<1> QED  BY <1>1, ClosureInvariant, PTL

-----------------------------------------------------------------------------
(* What the loops keep. *)

\* A stage that records its result leaves the iteration and goes forward.
LEMMA RecordForward ==
    ASSUME NEW n \in 1 .. 16, NEW status, Record(n, status)
    PROVE  iter' = iter /\ stage \in Nat /\ stage' \in Nat /\ stage' > stage
<1>1. stage = n /\ stage' = After(n, status) /\ iter' = iter
  BY DEF Record
<1> QED  BY <1>1, AfterStage DEF Done

\* Until stage 12 has run for the first time there is no test file.
NoTestsYet == iter = 0 /\ stage <= 12 => testFile = <<>>

\* Every action but the test generator leaves the test file alone.
LEMMA TestFileKept ==
    ASSUME [ClosureNext]_closureVars, ~TestGen
    PROVE  testFile' = testFile
BY DEF ClosureNext, closureVars, contextVars, Unmoved,
       SpecParser, RtlDesigner, LintRunner, RtlReviewer, PropertyGen, Formal, Lec,
       TestplanGen, RefModelGen, UvmVipGen, CocotbVipGen, Simulation, FsdbAnalyzer,
       DebugAnalyzer, ClosureWithoutCoverage, ClosureResult, FinishClosure,
       ClosureSimFailed, ClosureSimOk, ClosureRaises, SkipStage, CheckClosure

\* Only the end of an iteration goes back, and it begins a new one.
LEMMA Forward ==
    ASSUME ClosureInv, [ClosureNext]_closureVars
    PROVE  (iter' = iter /\ stage' >= stage) \/ iter' > 0
<1>1. stage \in 1 .. Done /\ iter \in Nat
  BY DEF ClosureInv, ClosureTypeOK
<1>2. CASE SpecParser \/ LintRunner \/ RtlReviewer \/ Lec \/ TestplanGen \/ RefModelGen
  <2>1. PICK n \in 1 .. 16 : \E status : Record(n, status)
    BY <1>2 DEF SpecParser, LintRunner, RtlReviewer, Lec, TestplanGen, RefModelGen
  <2> QED  BY <1>1, <2>1, RecordForward DEF Done
<1>3. CASE UvmVipGen \/ CocotbVipGen \/ FsdbAnalyzer \/ DebugAnalyzer
  <2>1. PICK n \in 1 .. 16 : \E status : Record(n, status)
    BY <1>3 DEF UvmVipGen, CocotbVipGen, FsdbAnalyzer, DebugAnalyzer
  <2> QED  BY <1>1, <2>1, RecordForward DEF Done
<1>4. CASE RtlDesigner \/ PropertyGen \/ Formal \/ TestGen \/ Simulation
  <2>1. PICK n \in 1 .. 16 : \E status : Record(n, status)
    BY <1>4 DEF RtlDesigner, PropertyGen, Formal, TestGen, Simulation
  <2> QED  BY <1>1, <2>1, RecordForward DEF Done
<1>5. CASE ClosureWithoutCoverage \/ ClosureResult \/ ClosureRaises
  <2>1. PICK n \in 1 .. 16 : \E status : Record(n, status)
    BY <1>5 DEF ClosureWithoutCoverage, ClosureResult, FinishClosure, ClosureRaises
  <2> QED  BY <1>1, <2>1, RecordForward DEF Done
<1>6. CASE ClosureSimFailed \/ ClosureSimOk
  BY <1>1, <1>6 DEF ClosureSimFailed, ClosureSimOk, Done
<1>7. CASE SkipStage
  <2>1. stage \in 1 .. 16 /\ stage' = After(stage, "skip") /\ iter' = iter
    BY <1>7 DEF SkipStage, ClosureInv, ClosureTypeOK
  <2> QED  BY <2>1, AfterStage DEF Done
<1>8. CASE CheckClosure
  BY <1>1, <1>8 DEF CheckClosure, Check, Done
<1>9. CASE UNCHANGED closureVars
  BY <1>1, <1>9 DEF closureVars, Done
<1> QED
  BY <1>2, <1>3, <1>4, <1>5, <1>6, <1>7, <1>8, <1>9 DEF ClosureNext

LEMMA NoTestsYetStep ==
    ASSUME ClosureInv, NoTestsYet, [ClosureNext]_closureVars
    PROVE  NoTestsYet'
<1>1. stage \in 1 .. Done /\ stage' \in 1 .. Done /\ iter \in Nat
  BY ClosureStep DEF ClosureInv, ClosureTypeOK
<1>2. CASE TestGen
  <2>1. PICK status : Record(12, status)
    BY <1>2 DEF TestGen
  <2>2. stage = 12 /\ stage' > 12
    BY <2>1, RecordForward DEF Record
  <2> QED  BY <1>1, <2>2 DEF NoTestsYet, Done
<1>3. CASE ~TestGen
  BY <1>1, <1>3, TestFileKept, Forward DEF NoTestsYet, Done
<1> QED  BY <1>2, <1>3

\* Stage 16 never gives back coverage, however its simulations end, and no
\* iteration of the outer loop loses the tests of another.
THEOREM ProgressKeptAlways == ClosureSpec => ProgressKept
<1>1. ASSUME ClosureInv, [ClosureNext]_closureVars
      PROVE  [CoverageStep]_closureVars
  <2> SUFFICES ASSUME stage = 16, coverage # NoCoverage
               PROVE  /\ coverage' # NoCoverage
                      /\ Overall(coverage') >= Overall(coverage)
    BY DEF CoverageStep
  <2>1. coverage \in Measured /\ Overall(coverage) \in Nat
    BY <1>1, OverallType DEF ClosureInv, ClosureTypeOK
  <2>2. ASSUME coverage' = coverage
        PROVE  /\ coverage' # NoCoverage
               /\ Overall(coverage') >= Overall(coverage)
    BY <2>1, <2>2
  <2>3. CASE ClosureSimOk
    <3> PICK new \in Measured : coverage' = Better(new, coverage)
      BY <2>3 DEF ClosureSimOk
    <3>1. Overall(new) \in Nat /\ new # NoCoverage
      BY OverallType
    <3> QED  BY <2>1, <3>1 DEF Better
  <2>4. CASE ~ClosureSimOk
    <3>1. coverage' = coverage
      BY <1>1, <2>4 DEF ClosureNext, closureVars, contextVars, Unmoved, Record,
         SpecParser, RtlDesigner, LintRunner, RtlReviewer, PropertyGen, Formal, Lec,
         TestplanGen, RefModelGen, UvmVipGen, CocotbVipGen, TestGen, Simulation,
         FsdbAnalyzer, DebugAnalyzer, ClosureWithoutCoverage, ClosureResult,
         FinishClosure, ClosureSimFailed, ClosureRaises, SkipStage, CheckClosure
    <3> QED  BY <2>2, <3>1
  <2> QED  BY <2>3, <2>4
<1>2. ASSUME ClosureInv, NoTestsYet, [ClosureNext]_closureVars
      PROVE  [TestsStep]_closureVars
  <2>1. testFile \in Seq(Nat) /\ iter \in Nat
    BY <1>2 DEF ClosureInv, ClosureTypeOK
  <2>2. ASSUME testFile' = testFile PROVE TestsStep
    <3>1. SubSeq(testFile, 1, Len(testFile)) = testFile
      BY <2>1
    <3> QED  BY <2>1, <2>2, <3>1 DEF TestsStep
  <2>3. ASSUME testFile = <<>>, testFile' = <<iter>> PROVE TestsStep
    BY <2>1, <2>3 DEF TestsStep
  <2>4. ASSUME testFile' = Append(testFile, iter) PROVE TestsStep
    BY <2>1, <2>4 DEF TestsStep
  <2>5. CASE TestGen
    <3>1. CASE Record(12, "fail") /\ Unmoved
      BY <2>2, <3>1 DEF Unmoved, contextVars
    <3>2. CASE ~(Record(12, "fail") /\ Unmoved)
      <4>1. /\ stage = 12
            /\ testFile' = IF iter = 0 \/ testFile = <<>> THEN <<iter>>
                           ELSE Append(testFile, iter)
        BY <2>5, <3>2 DEF TestGen, Record
      <4>2. iter = 0 => testFile = <<>>
        BY <1>2, <4>1 DEF NoTestsYet
      <4> QED  BY <2>3, <2>4, <4>1, <4>2
    <3> QED  BY <3>1, <3>2
  <2>6. CASE ~TestGen
    BY <1>2, <2>2, <2>6, TestFileKept
  <2> QED  BY <2>5, <2>6
<1>3. ClosureInit => NoTestsYet
  BY DEF ClosureInit, NoTestsYet
<1>4. ClosureSpec => []NoTestsYet
  BY <1>3, NoTestsYetStep, ClosureInvariant, PTL DEF ClosureSpec
<1>5. ASSUME [CoverageStep]_closureVars, [TestsStep]_closureVars
      PROVE  [CoverageStep /\ TestsStep]_closureVars
  BY <1>5
<1> QED
  BY <1>1, <1>2, <1>4, <1>5, ClosureInvariant, PTL DEF ClosureSpec, ProgressKept

=============================================================================
