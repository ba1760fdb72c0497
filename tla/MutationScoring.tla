---------------------------- MODULE MutationScoring ----------------------------
(***************************************************************************)
(* One mutation analysis of assertion-mutation-agent with the Verilator    *)
(* executor: the mutants of one design are classified one after another    *)
(* against one property suite, with the outcome of the original design     *)
(* cached on first use, and then scored.  The simulator is the             *)
(* environment: each time it runs it may work, or fail in any of the ways  *)
(* _compile_and_run tells apart.                                           *)
(***************************************************************************)
EXTENDS Integers, Sequences, SequencesExt

CONSTANTS MaxMutants     \* how many mutants an analysis has at most

ASSUME MutationAssumption == MaxMutants \in Nat

VARIABLES
    available,     \* is there a verilator on PATH?
    suite,         \* does the property suite have any text?
    sound,         \* does the original design satisfy the suite?
    baselineOk,    \* the cached baseline: "unknown", "ok" or "bad"
    baseline,      \* how the original's run ended, "none" before it
    results        \* per mutant: its status, and how its run ended

mutationVars == <<available, suite, sound, baselineOk, baseline, results>>

MutantStatus ==
    {"DETECTED", "SURVIVED", "INVALID", "TIMEOUT", "ERROR", "INCONCLUSIVE"}

\* How a run of the simulator can end: _RunOutcome by name.
Outcome(compiled, ran, fired, timedOut, toolError) ==
    [compiled |-> compiled, ran |-> ran, assertion_failed |-> fired,
     timed_out |-> timedOut, tool_error |-> toolError]

RunOutcome ==
  [clean          |-> Outcome(TRUE,  TRUE,  FALSE, FALSE, FALSE),
   fired          |-> Outcome(TRUE,  TRUE,  TRUE,  FALSE, FALSE),
   died           |-> Outcome(TRUE,  TRUE,  TRUE,  FALSE, FALSE),
   runTimeout     |-> Outcome(TRUE,  TRUE,  FALSE, TRUE,  FALSE),
   runError       |-> Outcome(TRUE,  TRUE,  FALSE, FALSE, TRUE),
   noBinary       |-> Outcome(TRUE,  FALSE, FALSE, FALSE, TRUE),
   compileFailed  |-> Outcome(FALSE, FALSE, FALSE, FALSE, FALSE),
   compileTimeout |-> Outcome(FALSE, FALSE, FALSE, TRUE,  FALSE),
   compileError   |-> Outcome(FALSE, FALSE, FALSE, FALSE, TRUE)]

Ends == DOMAIN RunOutcome

\* The ends of a run whose verdict is the design's own.
Conclusions == {"clean", "fired"}

\* How a run of a design can end: a design that satisfies the suite never fires
\* an assertion, one that violates it does not end clean.
EndsOf(satisfies) ==
    (Ends \ Conclusions) \cup {IF satisfies THEN "clean" ELSE "fired"}

MutationInit ==
    /\ available \in BOOLEAN /\ suite \in BOOLEAN /\ sound \in BOOLEAN
    /\ baselineOk = "unknown" /\ baseline = "none" /\ results = <<>>

-----------------------------------------------------------------------------
\* _baseline_passes: a compiled run without a failed assertion.
BaselinePasses(end) ==
    LET o == RunOutcome[end] IN
    o.compiled /\ o.ran /\ ~o.assertion_failed

\* Mutation: a run that timed out is looked at like any other.
ClassifyOutcomeTimeless(end) ==
    LET o == RunOutcome[end] IN
    IF o.tool_error THEN "ERROR"
    ELSE IF ~o.compiled THEN "INVALID"
    ELSE IF o.assertion_failed THEN "DETECTED"
    ELSE "SURVIVED"

\* The tail of VerilatorExecutor.classify.
ClassifyOutcome(end) ==
    LET o == RunOutcome[end] IN
    IF o.timed_out THEN "TIMEOUT"
    ELSE IF o.tool_error THEN "ERROR"
    ELSE IF ~o.compiled THEN "INVALID"
    ELSE IF o.assertion_failed THEN "DETECTED"
    ELSE "SURVIVED"

Classified(status, end) ==
    /\ Len(results) < MaxMutants
    /\ results' = Append(results, [status |-> status, end |-> end])
    /\ UNCHANGED <<available, suite, sound>>

\* The mutation left the source as it was.
NoOpMutant ==
    Classified("INVALID", "none") /\ UNCHANGED <<baselineOk, baseline>>

NoVerilator ==
    /\ ~available
    /\ Classified("ERROR", "none") /\ UNCHANGED <<baselineOk, baseline>>

NoPropertyText ==
    /\ available /\ ~suite
    /\ Classified("INCONCLUSIVE", "none") /\ UNCHANGED <<baselineOk, baseline>>

\* The baseline of the suite is run once and then remembered.
WithBaseline(ok) ==
    /\ available /\ suite
    /\ \/ /\ baselineOk = "unknown"
          /\ \E end \in EndsOf(sound) :
                /\ ok = BaselinePasses(end)
                /\ baseline' = end
                /\ baselineOk' = IF ok THEN "ok" ELSE "bad"
       \/ /\ baselineOk # "unknown"
          /\ ok = (baselineOk = "ok")
          /\ UNCHANGED <<baselineOk, baseline>>

NoBaseline ==
    WithBaseline(FALSE) /\ Classified("INCONCLUSIVE", "none")

\* The mutated design may satisfy the suite or not.
RunMutant ==
    /\ WithBaseline(TRUE)
    /\ \E end \in Ends : Classified(ClassifyOutcome(end), end)

MutationNext ==
    NoOpMutant \/ NoVerilator \/ NoPropertyText \/ NoBaseline \/ RunMutant

MutationSpec == MutationInit /\ [][MutationNext]_mutationVars

-----------------------------------------------------------------------------
\* compute_score: the statuses in the denominator of the mutation score.
IsScored(status) == status \in {"DETECTED", "SURVIVED"}

-----------------------------------------------------------------------------
(***************************************************************************)
(* Properties                                                              *)
(***************************************************************************)

\* The variables range over the values of the code's types.
MutationTypeOK ==
    /\ available \in BOOLEAN /\ suite \in BOOLEAN /\ sound \in BOOLEAN
    /\ baselineOk \in {"unknown", "ok", "bad"}
    /\ baseline \in Ends \cup {"none"}
    /\ results \in Seq([status : MutantStatus, end : Ends \cup {"none"}])

\* "TIMEOUT/ERROR/INCONCLUSIVE are NEVER a PASS and are never counted as
\* detected": every mutant in the score was run to an end, and a survivor's
\* end was clean.
ScoredRanToEnd ==
    \A i \in 1 .. Len(results) :
        /\ results[i].status = "DETECTED" => results[i].end \in {"fired", "died"}
        /\ results[i].status = "SURVIVED" => results[i].end = "clean"

\* All mutants of an analysis are held against one baseline: none is scored when
\* another was given up because the original did not pass.
OneBaseline ==
    \A i, j \in 1 .. Len(results) :
        available /\ suite /\ results[i].status = "INCONCLUSIVE"
            => ~IsScored(results[j].status)

\* The scores of an analysis can be compared: all are of runs that ended, all against
\* one original.
ScoresComparable == ScoredRanToEnd /\ OneBaseline

-----------------------------------------------------------------------------
(* What the documentation says and the code does not do. *)

\* "If the ORIGINAL design does not pass the property suite under this harness,
\* the mutant is INCONCLUSIVE": a mutant is scored only against an original
\* whose run ended clean.
ScoredAgainstCleanBaseline ==
    \A i \in 1 .. Len(results) :
        IsScored(results[i].status) => baseline = "clean"

=============================================================================
