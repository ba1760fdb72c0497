----------------------------- MODULE RunClassifier -----------------------------
(***************************************************************************)
(* How the formal run orchestrator judges a run: the classifier that turns *)
(* a backend's raw signals into a status, the RunRecord validator, the     *)
(* reward, and the counts a report is made of.  Times and memory are       *)
(* naturals; a reward is in ten-thousandths with the two fractions it uses *)
(* rounded down to whole percents.                                         *)
(***************************************************************************)
EXTENDS Integers, FiniteSets

RunStatus == {"PASS", "FAIL", "TIMEOUT", "ERROR", "INCONCLUSIVE"}
Conclusive(status) == status \in {"PASS", "FAIL"}

Verdicts == {"holds", "refuted", "none"}    \* conclusion_holds

RawResult == [return_code : Int, wall_time_s : Nat, timeout_s : Nat,
              reached_conclusion : BOOLEAN, conclusion_holds : Verdicts,
              tool_reported_error : BOOLEAN]

ValidationStatus == {"valid", "invalid_config", "incomplete_provenance"}

-----------------------------------------------------------------------------
Concluded(raw) == raw.reached_conclusion /\ raw.conclusion_holds # "none"

OutOfTime(raw) ==
    ~raw.reached_conclusion /\ raw.wall_time_s >= raw.timeout_s

\* Mutation: the last word of a run that returned 0 is taken for a verdict.
ClassifyByReturnCode(raw) ==
    IF raw.tool_reported_error THEN "ERROR"
    ELSE IF OutOfTime(raw) THEN "TIMEOUT"
    ELSE IF raw.return_code # 0 /\ ~Concluded(raw) THEN "ERROR"
    ELSE IF raw.conclusion_holds = "refuted" THEN "FAIL"
    ELSE IF raw.return_code = 0 THEN "PASS"
    ELSE "INCONCLUSIVE"

\* classify: the first line that applies decides.
Classify(raw) ==
    IF raw.tool_reported_error THEN "ERROR"
    ELSE IF OutOfTime(raw) THEN "TIMEOUT"
    ELSE IF raw.return_code # 0 /\ ~Concluded(raw) THEN "ERROR"
    ELSE IF raw.reached_conclusion /\ raw.conclusion_holds = "holds"
         THEN IF raw.return_code = 0 THEN "PASS" ELSE "ERROR"
    ELSE IF raw.reached_conclusion /\ raw.conclusion_holds = "refuted"
         THEN "FAIL"
    ELSE "INCONCLUSIVE"

\* RunRecord's validator: PASS requires return code 0.
RecordAccepted(status, return_code) == status = "PASS" => return_code = 0

-----------------------------------------------------------------------------
AtLeastOne(n) == IF n > 1 THEN n ELSE 1

Percent(used, limit) == (100 * used) \div AtLeastOne(limit)
AtMost(n, bound) == IF n > bound THEN bound ELSE n
Excess(n, floor) == IF n > floor THEN n - floor ELSE 0

\* The penalties of reward.py, in ten-thousandths.
R_SOLVED         == 10000
P_TIMEOUT        == 8000
P_ERROR          == 9000
P_INCONCLUSIVE   == 8500
P_INVALID_CONFIG == 20000

\* reward: inCatalog is is_valid_config(run.config_id) now, timeout and cap are
\* those of the catalog's entry.
Reward(run, inCatalog) ==
    IF run.validation # "valid" \/ ~inCatalog THEN -P_INVALID_CONFIG
    ELSE IF Conclusive(run.status)
         THEN R_SOLVED - 30 * AtMost(Percent(run.wall, run.timeout), 100)
                       - 50 * Excess(Percent(run.mem, run.cap), 80)
    ELSE IF run.status = "TIMEOUT" THEN -P_TIMEOUT
    ELSE IF run.status = "ERROR" THEN -P_ERROR
    ELSE -P_INCONCLUSIVE

=============================================================================
