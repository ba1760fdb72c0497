----------------------------- MODULE MCSupervisor -----------------------------
(***************************************************************************)
(* Small instances of Supervisor for TLC.  Runs are interchangeable.       *)
(***************************************************************************)
EXTENDS Supervisor, TLC

RunSymmetry == Permutations(Runs)

\* Candidates nobody has reviewed, the only ones the mock SVA agent proposes.
UnreviewedProposals == {c \in CandidateSpace : c.review = "UNREVIEWED"}

\* A task without flags and no approval; a flagged one with either decision.
FewArguments ==
    {[flagged |-> FALSE, given |-> "none"],
     [flagged |-> TRUE,  given |-> "approved"],
     [flagged |-> TRUE,  given |-> "denied"]}

\* A free task and an approved one: enough for two processes to get in each
\* other's way at every file.
TwoArguments == {a \in FewArguments : a.given # "denied"}

=============================================================================
