----------------------------- MODULE RunJudgement ------------------------------
(***************************************************************************)
(* One run of the formal run orchestrator from the backend's raw signals   *)
(* to its score.  The signals come from the mock executor (simulate and    *)
(* execute) or from an adapter of a real tool, which may return anything   *)
(* of the type.  Then classify decides the status, the RunRecord validator *)
(* accepts or refuses the record, and reward scores it.                    *)
(***************************************************************************)
EXTENDS RunClassifier

CONSTANTS
    Times,       \* costs, wall times and timeouts in seconds
    Sizes,       \* peak memory and memory caps
    Codes        \* return codes of an adapter; negative for a killed process

ASSUME JudgementAssumption ==
    /\ Times \subseteq Nat
    /\ Sizes \subseteq Nat
    /\ Codes \subseteq Int

VARIABLES
    stage,     \* how far the run is
    source,    \* who produced the signals
    raw,       \* the RawResult, or NoRaw
    run,       \* the fields of the record that are scored
    inCatalog, \* is the run's config in the catalog?
    score      \* what reward returned

judgementVars == <<stage, source, raw, run, inCatalog, score>>

NoRaw == [return_code |-> 0, wall_time_s |-> 0, timeout_s |-> 1,
          reached_conclusion |-> FALSE, conclusion_holds |-> "none",
          tool_reported_error |-> FALSE]

RunFields == [status : RunStatus, validation : ValidationStatus,
              wall : Nat, timeout : Nat, mem : Nat, cap : Nat,
              return_code : Int]

NoFields == [status |-> "ERROR", validation |-> "valid", wall |-> 0,
             timeout |-> 0, mem |-> 0, cap |-> 0, return_code |-> 0]

JudgementInit ==
    /\ stage = "start" /\ source = "mock" /\ raw = NoRaw
    /\ run = NoFields /\ score = 0 /\ inCatalog \in BOOLEAN

-----------------------------------------------------------------------------
Raw(code, wall, budget, reached, holds, failed) ==
    [return_code |-> code, wall_time_s |-> wall, timeout_s |-> budget,
     reached_conclusion |-> reached, conclusion_holds |-> holds,
     tool_reported_error |-> failed]

\* simulate: cost is the time the run would need, deep whether the bound
\* reaches the resolving depth, failing the memory overflow or the error roll,
\* holds the item's ground truth.
Simulate(cost, budget, deep, failing, holds) ==
    IF failing THEN Raw(1, AtMost((3 * cost) \div 10, budget), budget,
                        FALSE, "none", TRUE)
    ELSE IF cost <= budget /\ deep
         THEN Raw(0, cost, budget, TRUE, holds, FALSE)
    ELSE IF cost <= budget
         THEN Raw(0, cost, budget, FALSE, "none", FALSE)
    ELSE Raw(124, budget, budget, FALSE, "none", FALSE)

\* Mutation: the memory cap is not looked at.
ExecuteMockUncapped(cost, budget, mem, cap, deep, roll, holds) ==
    /\ stage = "start" /\ inCatalog /\ budget > 0
    /\ raw' = Simulate(cost, budget, deep, roll, holds)
    /\ run' = [NoFields EXCEPT !.wall = raw'.wall_time_s, !.timeout = budget,
                               !.mem = mem, !.cap = cap,
                               !.return_code = raw'.return_code]
    /\ stage' = "raw" /\ source' = "mock"
    /\ UNCHANGED <<inCatalog, score>>

\* execute with a config of the catalog, whose timeout is at least 1.
ExecuteMock(cost, budget, mem, cap, deep, roll, holds) ==
    /\ stage = "start" /\ inCatalog /\ budget > 0
    /\ raw' = Simulate(cost, budget, deep, mem > cap \/ roll, holds)
    /\ run' = [NoFields EXCEPT !.wall = raw'.wall_time_s, !.timeout = budget,
                               !.mem = mem, !.cap = cap,
                               !.return_code = raw'.return_code]
    /\ stage' = "raw" /\ source' = "mock"
    /\ UNCHANGED <<inCatalog, score>>

\* execute with a config that is not in the catalog: no run, an ERROR record.
ExecuteUnknown ==
    /\ stage = "start" /\ ~inCatalog
    /\ run' = [NoFields EXCEPT !.return_code = 2, !.status = "ERROR",
                               !.validation = "invalid_config"]
    /\ stage' = "judged" /\ source' = "mock"
    /\ UNCHANGED <<raw, inCatalog, score>>

\* An adapter of a real tool hands over whatever signals it has.
AdapterResult(signals, mem, cap) ==
    /\ stage = "start"
    /\ raw' = signals
    /\ run' = [NoFields EXCEPT !.wall = signals.wall_time_s, !.mem = mem,
                               !.timeout = signals.timeout_s, !.cap = cap,
                               !.return_code = signals.return_code]
    /\ stage' = "raw" /\ source' = "adapter"
    /\ UNCHANGED <<inCatalog, score>>

\* classify, then the record with its validator: a refused record is none.
Judge ==
    /\ stage = "raw"
    /\ LET status == Classify(raw) IN
       /\ run' = [run EXCEPT !.status = status]
       /\ stage' = IF RecordAccepted(status, raw.return_code)
                   THEN "judged" ELSE "refused"
    /\ UNCHANGED <<source, raw, inCatalog, score>>

\* compute_metrics scores the record against today's catalog.
Score ==
    /\ stage = "judged"
    /\ score' = Reward(run, inCatalog)
    /\ stage' = "scored"
    /\ UNCHANGED <<source, raw, run, inCatalog>>

Truth == Verdicts \ {"none"}

JudgementNext ==
    \/ \E cost, budget \in Times, mem, cap \in Sizes, deep, roll \in BOOLEAN,
          holds \in Truth :
            ExecuteMock(cost, budget, mem, cap, deep, roll, holds)
    \/ ExecuteUnknown
    \/ \E mem, cap \in Sizes :
       \E signals \in [return_code : Codes, wall_time_s : Times,
                       timeout_s : Times, reached_conclusion : BOOLEAN,
                       conclusion_holds : Verdicts,
                       tool_reported_error : BOOLEAN] :
            AdapterResult(signals, mem, cap)
    \/ Judge
    \/ Score

JudgementSpec == JudgementInit /\ [][JudgementNext]_judgementVars

-----------------------------------------------------------------------------
(***************************************************************************)
(* Properties                                                              *)
(***************************************************************************)

\* The variables range over the values of the code's types.
JudgementTypeOK ==
    /\ stage \in {"start", "raw", "judged", "refused", "scored"}
    /\ source \in {"mock", "adapter"}
    /\ raw \in RawResult
    /\ run \in RunFields
    /\ inCatalog \in BOOLEAN
    /\ score \in Int

Judged == stage \in {"judged", "scored"}

\* "Never classifies a timeout, error or inconclusive run as PASS", for any
\* signals an adapter may combine: a PASS is a clean exit with a conclusion
\* that holds, and no error was reported.
NeverFalsePass ==
    Judged /\ run.status = "PASS" =>
        /\ raw.return_code = 0
        /\ raw.reached_conclusion
        /\ raw.conclusion_holds = "holds"
        /\ ~raw.tool_reported_error

\* The classifier and the validator agree: whatever the signals, a classified
\* run is never refused by the record it is put in.
NeverRefused == stage # "refused"

\* The mock's verdict is never stronger than its simulation: it is conclusive
\* only in time, under the cap and with an adequate bound, and the numbers it
\* records say so too.
MockConclusionInBudget ==
    Judged /\ source = "mock" /\ Conclusive(run.status) =>
        /\ run.wall <= run.timeout /\ run.mem <= run.cap
        /\ raw.reached_conclusion /\ run.return_code = 0

\* The reward ranks as its documentation says: of the mock's runs, every
\* solved one scores above every unsolved one, and every choice from outside
\* the catalog scores below both.
RewardRanks ==
    stage = "scored" /\ source = "mock" =>
        /\ Conclusive(run.status) /\ inCatalog => score >= 6000
        /\ ~Conclusive(run.status) /\ inCatalog => score \in -9000 .. -8000
        /\ ~inCatalog => score = -20000

=============================================================================
