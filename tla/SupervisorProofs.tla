--------------------------- MODULE SupervisorProofs ---------------------------
(***************************************************************************)
(* Theorems about Supervisor for any set of runs, any retry bound and any  *)
(* overlap of the runs.                                                    *)
(***************************************************************************)
EXTENDS Supervisor, TLAPS

-----------------------------------------------------------------------------
(***************************************************************************)
(* Type correctness                                                        *)
(***************************************************************************)

\* An audit line keeps the types of the log, its line count and the counters.
LEMMA AuditType ==
    ASSUME TypeOK, NEW r \in Runs, NEW dst \in WorkflowStates,
           NEW event \in Events, NEW detail \in Details,
           Audit(r, dst, event, detail)
    PROVE  /\ log' \subseteq AuditEvents
           /\ lines' \in Nat
           /\ seq' \in [Runs -> Nat]
BY DEF TypeOK, Audit, AuditEvents

\* A line without a transition types every variable it determines.
LEMMA NoteType ==
    ASSUME TypeOK, NEW r \in Runs, NEW event \in Events, NEW detail \in Details,
           Note(r, event, detail)
    PROVE  /\ log' \subseteq AuditEvents
           /\ lines' \in Nat
           /\ seq' \in [Runs -> Nat]
           /\ state' \in [Runs -> WorkflowStates]
           /\ packet' \in Packets \cup {Absent, Torn}
           /\ record' \in Records \cup {Absent, Torn}
<1>1. state[r] \in WorkflowStates
  BY DEF TypeOK
<1>2. Audit(r, state[r], event, detail)
  BY DEF Note
<1>3. QED
  BY <1>1, <1>2, AuditType DEF TypeOK, Note

\* So does a transition.
LEMMA GoType ==
    ASSUME TypeOK, NEW r \in Runs, NEW dst \in WorkflowStates,
           NEW event \in Events, Go(r, dst, event)
    PROVE  /\ log' \subseteq AuditEvents
           /\ lines' \in Nat
           /\ seq' \in [Runs -> Nat]
           /\ state' \in [Runs -> WorkflowStates]
           /\ packet' \in Packets \cup {Absent, Torn}
           /\ record' \in Records \cup {Absent, Torn}
<1>1. Audit(r, dst, event, "-") /\ "-" \in Details
  BY DEF Go, Details
<1>2. QED
  BY <1>1, AuditType DEF TypeOK, Go

\* A step of control ends at a location.
LEMMA AtType ==
    ASSUME TypeOK, NEW r \in Runs, NEW from, NEW to \in Locations,
           At(r, from, to)
    PROVE  pc' \in [Runs -> Locations]
BY DEF TypeOK, At

\* A packet built from well-typed state is a packet.
LEMMA BuildPacketType ==
    ASSUME TypeOK, NEW r \in Runs, NEW final \in {"DONE", "REJECTED"}
    PROVE  BuildPacket(r, final) \in Packets
<1>1. RecommendNext(state[r], result[r]) \in
        {"resubmit", "review_workflow", "human_review", "triage", "escalate",
         "investigate"}
  BY DEF RecommendNext
<1>2. QED
  BY <1>1 DEF TypeOK, BuildPacket, Packets

\* The candidate the gates have looked at is still a candidate, and their
\* findings are names of gates.
LEMMA ReviewType ==
    ASSUME NEW c \in CandidateSpace
    PROVE  /\ Reviewed(c) \in CandidateSpace
           /\ ValidateProperty(c) \in SUBSET Gates
BY DEF Reviewed, ValidateProperty, CandidateSpace, ReviewStates, Gates

LEMMA TypeInit == Init => TypeOK
BY DEF Init, TypeOK, Locations, CandidateSpace, ReviewStates, WorkflowStates,
       Table!WorkflowStates, Decisions, OptResults, Ended

\* The steps up to an accepted property, by the lemmas above.
LEMMA TypeStep == TypeOK /\ [Next]_vars => TypeOK'
<1> SUFFICES ASSUME TypeOK, [Next]_vars PROVE TypeOK'
  OBVIOUS
<1> USE DEF memory, inputs, files
<1>0. CASE UNCHANGED vars
  BY <1>0 DEF TypeOK, vars
<1>1. ASSUME NEW r \in Runs, Construct(r) PROVE TypeOK'
  <2>1. pc' \in [Runs -> Locations]
    BY <1>1, AtType DEF Construct, Locations
  <2>2. flagged' \in [Runs -> BOOLEAN] /\ given' \in [Runs -> Decisions]
    BY <1>1, SupervisorAssumption DEF Construct, TypeOK, ArgumentSpace
  <2>3. last' \in Runs \cup {NoRun, Mixed}
    BY <1>1 DEF Construct, Newest
  <2>4. QED
    BY <1>1, <2>1, <2>2, <2>3 DEF Construct, TypeOK
<1>2. ASSUME NEW r \in Runs, DispatchIngestion(r) \/ RequestCandidate(r)
                \/ EnterReview(r) \/ RejectProperty(r) \/ RequestPartition(r)
                \/ StartPlan(r) \/ AwaitApproval(r) \/ BlockMissingApproval(r)
                \/ DenyApproval(r) \/ DispatchExecution(r)
                \/ AssembleEvidence(r) \/ FinishWorkflow(r)
      PROVE TypeOK'
  <2>1. PICK from \in Locations, to \in Locations, dst \in WorkflowStates,
             event \in Events :
             /\ At(r, from, to)
             /\ Go(r, dst, event)
             /\ UNCHANGED <<attempt, candidate, findings, cuts, plan, approval,
                            result, inputs, last>>
    BY <1>2 DEF DispatchIngestion, RequestCandidate, EnterReview,
         RejectProperty, RequestPartition, StartPlan, AwaitApproval,
         BlockMissingApproval, DenyApproval, DispatchExecution,
         AssembleEvidence, FinishWorkflow, Locations, Events, WorkflowStates,
         Table!WorkflowStates
  <2>2. QED
    BY <2>1, AtType, GoType DEF TypeOK
<1>3. ASSUME NEW r \in Runs, ReceiveManifest(r) PROVE TypeOK'
  BY <1>3, AtType, NoteType DEF ReceiveManifest, TypeOK, Locations, Events,
     Details
<1>4. ASSUME NEW r \in Runs, ReceiveCandidate(r) PROVE TypeOK'
  <2>1. /\ candidate' \in [Runs -> CandidateSpace]
        /\ verdict' \in [Runs -> ReviewStates]
    BY <1>4, SupervisorAssumption DEF ReceiveCandidate, TypeOK, CandidateSpace
  <2>2. pc' \in [Runs -> Locations]
    BY <1>4, AtType DEF ReceiveCandidate, Locations
  <2>3. Note(r, "sva_candidate_received", "-")
    BY <1>4 DEF ReceiveCandidate
  <2>4. QED
    BY <1>4, <2>1, <2>2, <2>3, NoteType DEF ReceiveCandidate, TypeOK, Events,
       Details
<1>5. ASSUME NEW r \in Runs, AcceptProperty(r) \/ FailGate(r) PROVE TypeOK'
  <2>1. PICK to \in Locations, event \in Events :
          /\ At(r, "gating", to)
          /\ Note(r, event, "-")
          /\ candidate' = [candidate EXCEPT ![r] = Reviewed(@)]
          /\ \/ findings' = [findings EXCEPT ![r] = {}]
             \/ findings' =
                  [findings EXCEPT ![r] = ValidateProperty(candidate'[r])]
          /\ UNCHANGED <<attempt, cuts, plan, approval, result, inputs, last>>
    BY <1>5 DEF AcceptProperty, FailGate, Locations, Events
  <2>2. candidate' \in [Runs -> CandidateSpace]
    BY <2>1, ReviewType DEF TypeOK
  <2>3. findings' \in [Runs -> SUBSET Gates]
    <3>1. candidate'[r] \in CandidateSpace
      BY <2>2
    <3>2. ValidateProperty(candidate'[r]) \in SUBSET Gates
      BY <3>1, ReviewType
    <3>3. QED
      BY <2>1, <3>2 DEF TypeOK
  <2>4. "-" \in Details
    BY DEF Details
  <2>5. QED
    BY <2>1, <2>2, <2>3, <2>4, AtType, NoteType DEF TypeOK
<1>6. ASSUME NEW r \in Runs, RetryCandidate(r) PROVE TypeOK'
  <2>1. pc' \in [Runs -> Locations]
    BY <1>6, AtType DEF RetryCandidate, Locations
  <2>2. attempt' \in [Runs -> Nat]
    BY <1>6 DEF RetryCandidate, TypeOK
  <2>3. Go(r, "SVA_PROPOSAL", "retry_sva_candidate")
    BY <1>6 DEF RetryCandidate
  <2>4. QED
    BY <1>6, <2>1, <2>2, <2>3, GoType DEF RetryCandidate, TypeOK, Events,
       WorkflowStates, Table!WorkflowStates
<1>7. ASSUME NEW r \in Runs, ReceivePartition(r) PROVE TypeOK'
  <2>1. pc' \in [Runs -> Locations]
    BY <1>7, AtType DEF ReceivePartition, Locations
  <2>2. cuts' \in [Runs -> {"none", "empty", "obligations"}]
    BY <1>7 DEF ReceivePartition, TypeOK
  <2>3. Note(r, "partition_report_received", "-")
    BY <1>7 DEF ReceivePartition
  <2>4. QED
    BY <1>7, <2>1, <2>2, <2>3, NoteType DEF ReceivePartition, TypeOK, Events,
       Details
<1>8. ASSUME NEW r \in Runs, CreatePlan(r) PROVE TypeOK'
  <2>1. pc' \in [Runs -> Locations]
    BY <1>8, AtType DEF CreatePlan, Locations
  <2>2. PICK p \in {"free", "gated"} :
          /\ plan' = [plan EXCEPT ![r] = p]
          /\ Note(r, "experiment_plan_created", p)
    BY <1>8 DEF CreatePlan
  <2>3. QED
    BY <1>8, <2>1, <2>2, NoteType DEF CreatePlan, TypeOK, Events, Details
<1>9. ASSUME NEW r \in Runs, SkipApproval(r) PROVE TypeOK'
  BY <1>9, AtType DEF SkipApproval, TypeOK, Locations
<1>10. ASSUME NEW r \in Runs, RecordDecision(r) PROVE TypeOK'
  <2>1. pc' \in [Runs -> Locations]
    BY <1>10, AtType DEF RecordDecision, Locations
  <2>2. given[r] \in {"approved", "denied"}
    BY <1>10 DEF RecordDecision, TypeOK, Decisions
  <2>3. /\ approval' = [approval EXCEPT ![r] = given[r]]
        /\ Note(r, "human_decision", given[r])
    BY <1>10 DEF RecordDecision
  <2>4. QED
    BY <1>10, <2>1, <2>2, <2>3, NoteType DEF RecordDecision, TypeOK, Events,
       Details, Decisions
<1>11. ASSUME NEW r \in Runs, Execute(r) PROVE TypeOK'
  <2>1. pc' \in [Runs -> Locations]
    BY <1>11, AtType DEF Execute, Locations
  <2>2. result' \in [Runs -> OptResults]
    BY <1>11, SupervisorAssumption DEF Execute, TypeOK, OptResults
  <2>3. QED
    BY <1>11, <2>1, <2>2 DEF Execute, TypeOK
<1>12. ASSUME NEW r \in Runs, OpenRecord(r) PROVE TypeOK'
  BY <1>12, AtType DEF OpenRecord, TypeOK, Locations
<1>13. ASSUME NEW r \in Runs, WriteRecord(r) PROVE TypeOK'
  <2>1. pc' \in [Runs -> Locations]
    BY <1>13, AtType DEF WriteRecord, Locations
  <2>2. [status |-> "whole", run |-> r, result |-> result[r]] \in Records
    BY DEF Records, TypeOK
  <2>3. record' \in Records \cup {Absent, Torn}
    BY <1>13, <2>2 DEF WriteRecord, Written
  <2>4. QED
    BY <1>13, <2>1, <2>3 DEF WriteRecord, TypeOK
<1>14. ASSUME NEW r \in Runs, CompleteRun(r) PROVE TypeOK'
  <2>1. pc' \in [Runs -> Locations]
    BY <1>14, AtType DEF CompleteRun, Locations
  <2>2. Note(r, "run_completed", result[r])
    BY <1>14 DEF CompleteRun
  <2>3. result[r] \in Details /\ "run_completed" \in Events
    BY DEF TypeOK, Details, Events
  <2>4. QED
    BY <1>14, <2>1, <2>2, <2>3, NoteType DEF CompleteRun, TypeOK
<1>15. ASSUME NEW r \in Runs, OpenPacket(r) PROVE TypeOK'
  <2>1. pc' \in [Runs -> Locations]
    BY <1>15, AtType DEF OpenPacket, Locations
  <2>2. QED
    BY <1>15, <2>1 DEF OpenPacket, TypeOK
<1>16. ASSUME NEW r \in Runs, WritePacket(r) PROVE TypeOK'
  <2>1. pc' \in [Runs -> Locations]
    BY <1>16, AtType DEF WritePacket, Locations, Ended
  <2>2. PICK final \in {"DONE", "REJECTED"} :
          packet' \in Written(packet, BuildPacket(r, final))
    BY <1>16 DEF WritePacket
  <2>3. packet' \in Packets \cup {Absent, Torn}
    BY <2>2, BuildPacketType DEF Written
  <2>4. QED
    BY <1>16, <2>1, <2>3 DEF WritePacket, TypeOK
<1>17. ASSUME NEW r \in Runs, Raise(r) \/ Crash(r) PROVE TypeOK'
  <2>1. pc' \in [Runs -> Locations]
    BY <1>17, AtType DEF Raise, Crash, Locations, Ended
  <2>2. QED
    BY <1>17, <2>1 DEF Raise, Crash, TypeOK
<1>18. ASSUME NEW r \in Runs, HandleException(r) PROVE TypeOK'
  <2>1. pc' \in [Runs -> Locations]
    BY <1>18, AtType DEF HandleException, Locations, Ended
  <2>2. CASE UNCHANGED <<log, lines, seq, state>>
    BY <1>18, <2>1, <2>2 DEF HandleException, TypeOK
  <2>3. CASE /\ Audit(r, "FAILED", "workflow_exception", "-")
             /\ state' = [state EXCEPT ![r] = "FAILED"]
    <3>1. /\ "FAILED" \in WorkflowStates
          /\ "workflow_exception" \in Events
          /\ "-" \in Details
      BY DEF WorkflowStates, Table!WorkflowStates, Events, Details
    <3>2. QED
      BY <1>18, <2>1, <2>3, <3>1, AuditType DEF HandleException, TypeOK
  <2>4. QED
    BY <1>18, <2>2, <2>3 DEF HandleException
<1>19. QED
  BY <1>0, <1>1, <1>2, <1>3, <1>4, <1>5, <1>6, <1>7, <1>8, <1>9, <1>10, <1>11,
     <1>12, <1>13, <1>14, <1>15, <1>16, <1>17, <1>18 DEF Next, Step

\* Every reachable state of the supervisor is well typed.
THEOREM SupervisorTypeCorrect == Spec => []TypeOK
<1>1. QED
  BY TypeInit, TypeStep, PTL DEF Spec


-----------------------------------------------------------------------------
(***************************************************************************)
(* The approval gate                                                       *)
(***************************************************************************)

LEMMA GateInit == Init => GateInv
BY DEF Init, GateInv, GateInvAt, BeforeExecution, Unplanned, PastReview,
       Executed

\* One step of one run keeps what control implies about every run's object.
LEMMA GateStep == TypeOK /\ GateInv /\ [Next]_vars => GateInv'
<1> SUFFICES ASSUME TypeOK, GateInv, [Next]_vars PROVE GateInv'
  OBVIOUS
<1> USE DEF memory, inputs, files, GateInv, GateInvAt, BeforeExecution,
            Unplanned, PastReview, Executed, ObligationMet, Eligible, Cleared,
            TypeOK, At
<1>0. CASE UNCHANGED vars
  BY <1>0 DEF vars
<1>1. ASSUME NEW r \in Runs, Construct(r) PROVE GateInv'
  BY <1>1 DEF Construct
<1>2. ASSUME NEW r \in Runs, DispatchIngestion(r) PROVE GateInv'
  BY <1>2 DEF DispatchIngestion, Go
<1>3. ASSUME NEW r \in Runs, ReceiveManifest(r) PROVE GateInv'
  BY <1>3 DEF ReceiveManifest, Note
<1>4. ASSUME NEW r \in Runs, RequestCandidate(r) PROVE GateInv'
  BY <1>4 DEF RequestCandidate, Go
<1>5. ASSUME NEW r \in Runs, ReceiveCandidate(r) PROVE GateInv'
  BY <1>5 DEF ReceiveCandidate, Note
<1>6. ASSUME NEW r \in Runs, EnterReview(r) PROVE GateInv'
  BY <1>6 DEF EnterReview, Go
<1>7. ASSUME NEW r \in Runs, AcceptProperty(r) PROVE GateInv'
  BY <1>7 DEF AcceptProperty, ValidateProperty, Reviewed, Note, Audit
<1>8. ASSUME NEW r \in Runs, FailGate(r) PROVE GateInv'
  BY <1>8 DEF FailGate, Note, Audit
<1>9. ASSUME NEW r \in Runs, RetryCandidate(r) PROVE GateInv'
  BY <1>9 DEF RetryCandidate, Go
<1>10. ASSUME NEW r \in Runs, RejectProperty(r) PROVE GateInv'
  BY <1>10 DEF RejectProperty, Go
<1>11. ASSUME NEW r \in Runs, RequestPartition(r) PROVE GateInv'
  BY <1>11 DEF RequestPartition, Go
<1>12. ASSUME NEW r \in Runs, ReceivePartition(r) PROVE GateInv'
  BY <1>12 DEF ReceivePartition, Note
<1>13. ASSUME NEW r \in Runs, StartPlan(r) PROVE GateInv'
  BY <1>13 DEF StartPlan, Go
<1>14. ASSUME NEW r \in Runs, CreatePlan(r) PROVE GateInv'
  BY <1>14 DEF CreatePlan, NeedsHumanApproval, Note
<1>15. ASSUME NEW r \in Runs, SkipApproval(r) PROVE GateInv'
  BY <1>15 DEF SkipApproval
<1>16. ASSUME NEW r \in Runs, AwaitApproval(r) PROVE GateInv'
  BY <1>16 DEF AwaitApproval, Go
<1>17. ASSUME NEW r \in Runs, BlockMissingApproval(r) PROVE GateInv'
  BY <1>17 DEF BlockMissingApproval, Go
<1>18. ASSUME NEW r \in Runs, RecordDecision(r) PROVE GateInv'
  BY <1>18 DEF RecordDecision, Note
<1>19. ASSUME NEW r \in Runs, DenyApproval(r) PROVE GateInv'
  BY <1>19 DEF DenyApproval, Go
<1>20. ASSUME NEW r \in Runs, DispatchExecution(r) PROVE GateInv'
  BY <1>20 DEF DispatchExecution, Go
<1>21. ASSUME NEW r \in Runs, Execute(r) PROVE GateInv'
  BY <1>21 DEF Execute
<1>22. ASSUME NEW r \in Runs, OpenRecord(r) PROVE GateInv'
  BY <1>22 DEF OpenRecord
<1>23. ASSUME NEW r \in Runs, WriteRecord(r) PROVE GateInv'
  BY <1>23 DEF WriteRecord
<1>24. ASSUME NEW r \in Runs, CompleteRun(r) PROVE GateInv'
  BY <1>24 DEF CompleteRun, Note
<1>25. ASSUME NEW r \in Runs, AssembleEvidence(r) PROVE GateInv'
  BY <1>25 DEF AssembleEvidence, Go
<1>26. ASSUME NEW r \in Runs, OpenPacket(r) PROVE GateInv'
  BY <1>26 DEF OpenPacket
<1>27. ASSUME NEW r \in Runs, WritePacket(r) PROVE GateInv'
  BY <1>27 DEF WritePacket
<1>28. ASSUME NEW r \in Runs, FinishWorkflow(r) PROVE GateInv'
  BY <1>28 DEF FinishWorkflow, Go
<1>29. ASSUME NEW r \in Runs, HandleException(r) PROVE GateInv'
  BY <1>29 DEF HandleException
<1>30. ASSUME NEW r \in Runs, Raise(r) PROVE GateInv'
  BY <1>30 DEF Raise, Alive, Ended
<1>31. ASSUME NEW r \in Runs, Crash(r) PROVE GateInv'
  BY <1>31 DEF Crash, Alive, Ended
<1>32. QED
  BY <1>0, <1>1, <1>2, <1>3, <1>4, <1>5, <1>6, <1>7, <1>8, <1>9, <1>10, <1>11, <1>12, <1>13, <1>14, <1>15, <1>16, <1>17, <1>18, <1>19, <1>20, <1>21, <1>22, <1>23, <1>24, <1>25, <1>26, <1>27, <1>28, <1>29, <1>30, <1>31 DEF Next, Step

\* No workflow executes a property its gates did not pass, or without the
\* approval its task or its partition calls for, whatever the other runs do.
THEOREM ExecutionIsCleared == Spec => []ExecutionCleared
<1>1. GateInv => ExecutionCleared
  BY DEF GateInv, GateInvAt, Executed, Eligible, ObligationMet,
         ExecutionCleared
<1>2. QED
  BY <1>1, GateInit, GateStep, SupervisorTypeCorrect, PTL DEF Spec

-----------------------------------------------------------------------------
(***************************************************************************)
(* The driver implements the state machine                                 *)
(***************************************************************************)

\* What the state machine sees of the supervisor.
tableImage == <<state, [r \in Runs |-> Cleared(r)]>>

\* The failure handler, which assigns FAILED without assert_transition, takes a
\* transition of the table all the same.
LEMMA FailedAllowed ==
    ASSUME NEW src \in WorkflowStates, src \notin Table!TerminalStates
    PROVE  Table!TransitionAllowed(src, "FAILED")
BY DEF WorkflowStates, Table!WorkflowStates, Table!TerminalStates,
       Table!TransitionAllowed, Table!AllowedNext

\* A transition of the driver that leaves the clearance of every run alone, and
\* enters EXECUTION only with it, is a move of the table.
LEMMA MoveImage ==
    ASSUME TypeOK, NEW r \in Runs, NEW dst \in WorkflowStates,
           Table!TransitionAllowed(state[r], dst),
           dst = "EXECUTION" => Cleared(r),
           state' = [state EXCEPT ![r] = dst],
           UNCHANGED <<candidate, findings, plan, approval>>
    PROVE  Table!TableNext
<1>1. [q \in Runs |-> Cleared(q)]' = [q \in Runs |-> Cleared(q)]
  BY DEF Cleared
<1>2. Table!Move(r)
  BY <1>1 DEF Table!Move, WorkflowStates
<1>3. QED
  BY <1>2 DEF Table!TableNext

\* A step that changes neither a state nor a clearance is invisible.
LEMMA StutterImage ==
    ASSUME state' = state, \A q \in Runs : Cleared(q)' = Cleared(q)
    PROVE  UNCHANGED tableImage
<1>1. [q \in Runs |-> Cleared(q)]' = [q \in Runs |-> Cleared(q)]
  OBVIOUS
<1>2. QED
  BY <1>1 DEF tableImage

\* A step that clears one run while it is planned or awaits a human.
LEMMA ClearImage ==
    ASSUME TypeOK, NEW r \in Runs,
           state[r] \in {"PLAN_EXPERIMENT", "AWAITING_HUMAN_APPROVAL"},
           state' = state,
           Cleared(r)',
           \A q \in Runs \ {r} : Cleared(q)' = Cleared(q)
    PROVE  Table!TableNext
<1>1. [q \in Runs |-> Cleared(q)]' =
          [[q \in Runs |-> Cleared(q)] EXCEPT ![r] = TRUE]
  OBVIOUS
<1>2. Table!Clear(r)
  BY <1>1 DEF Table!Clear
<1>3. QED
  BY <1>2 DEF Table!TableNext

LEMMA ImageInit == Init => Table!TableInit
BY DEF Init, Table!TableInit, Cleared

LEMMA ImageStep ==
    TypeOK /\ GateInv /\ [Next]_vars => [Table!TableNext]_tableImage
<1> SUFFICES ASSUME TypeOK, GateInv, [Next]_vars
             PROVE  Table!TableNext \/ UNCHANGED tableImage
  OBVIOUS
<1> USE DEF memory, inputs, files
<1>0. CASE UNCHANGED vars
  BY <1>0, StutterImage DEF vars, Cleared
<1>1. ASSUME NEW r \in Runs,
             \/ DispatchIngestion(r)
             \/ RequestCandidate(r)
             \/ EnterReview(r)
             \/ RejectProperty(r)
             \/ RequestPartition(r)
             \/ StartPlan(r)
             \/ AwaitApproval(r)
             \/ BlockMissingApproval(r)
             \/ DenyApproval(r)
             \/ DispatchExecution(r)
             \/ AssembleEvidence(r)
             \/ FinishWorkflow(r)
             \/ RetryCandidate(r)
      PROVE  Table!TableNext
  <2>1. PICK dst \in WorkflowStates, event \in Events :
          /\ Go(r, dst, event)
          /\ dst = "EXECUTION" => pc[r] = "execute"
          /\ UNCHANGED <<candidate, findings, plan, approval>>
    BY <1>1 DEF DispatchIngestion, RequestCandidate, EnterReview, RejectProperty, RequestPartition, StartPlan, AwaitApproval, BlockMissingApproval, DenyApproval, DispatchExecution, AssembleEvidence, FinishWorkflow, RetryCandidate, At, Events, WorkflowStates,
         Table!WorkflowStates
  <2>2. dst = "EXECUTION" => Cleared(r)
    BY <2>1 DEF GateInv, GateInvAt
  <2>3. QED
    BY <2>1, <2>2, MoveImage DEF Go
<1>2. ASSUME NEW r \in Runs,
             \/ Construct(r)
             \/ ReceiveManifest(r)
             \/ ReceivePartition(r)
             \/ SkipApproval(r)
             \/ Execute(r)
             \/ OpenRecord(r)
             \/ WriteRecord(r)
             \/ CompleteRun(r)
             \/ OpenPacket(r)
             \/ WritePacket(r)
             \/ Raise(r)
             \/ Crash(r)
      PROVE  UNCHANGED tableImage
  <2>1. UNCHANGED <<state, candidate, findings, plan, approval>>
    BY <1>2 DEF Construct, ReceiveManifest, ReceivePartition, SkipApproval,
         Execute, OpenRecord, WriteRecord, CompleteRun, OpenPacket,
         WritePacket, Raise, Crash, Note
  <2>2. QED
    BY <2>1, StutterImage DEF Cleared
<1>3. ASSUME NEW r \in Runs,
             ReceiveCandidate(r) \/ AcceptProperty(r) \/ FailGate(r)
      PROVE  UNCHANGED tableImage
  <2>1. /\ plan[r] = "none"
        /\ UNCHANGED <<state, plan, approval>>
        /\ \A q \in Runs \ {r} : /\ candidate'[q] = candidate[q]
                                 /\ findings'[q] = findings[q]
    BY <1>3 DEF ReceiveCandidate, AcceptProperty, FailGate, Note, At, GateInv,
         GateInvAt, Unplanned, TypeOK
  <2>2. QED
    BY <2>1, StutterImage DEF Cleared
<1>4. ASSUME NEW r \in Runs, CreatePlan(r)
      PROVE  Table!TableNext \/ UNCHANGED tableImage
  <2>1. /\ pc[r] = "planning"
        /\ state[r] = "PLAN_EXPERIMENT"
        /\ plan[r] = "none"
        /\ Eligible(r)
        /\ approval[r] = "none"
    BY <1>4 DEF CreatePlan, At, GateInv, GateInvAt, Unplanned, PastReview
  <2>2. PICK p \in {"free", "gated"} : plan' = [plan EXCEPT ![r] = p]
    BY <1>4 DEF CreatePlan
  <2>3. UNCHANGED <<state, candidate, findings, approval>>
    BY <1>4 DEF CreatePlan, Note
  <2>4. \A q \in Runs \ {r} : Cleared(q)' = Cleared(q)
    BY <2>2, <2>3 DEF Cleared, TypeOK
  <2>5. CASE p = "free"
    <3>1. Cleared(r)'
      BY <2>1, <2>2, <2>3, <2>5 DEF Cleared, Eligible, TypeOK
    <3>2. QED
      BY <2>1, <2>3, <2>4, <3>1, ClearImage
  <2>6. CASE p = "gated"
    <3>1. Cleared(r)' = Cleared(r)
      BY <2>1, <2>2, <2>3, <2>6 DEF Cleared, TypeOK
    <3>2. QED
      BY <2>3, <2>4, <3>1, StutterImage
  <2>7. QED
    BY <2>5, <2>6
<1>5. ASSUME NEW r \in Runs, RecordDecision(r)
      PROVE  Table!TableNext \/ UNCHANGED tableImage
  <2>1. /\ pc[r] = "decide"
        /\ state[r] = "AWAITING_HUMAN_APPROVAL"
        /\ plan[r] = "gated"
        /\ Eligible(r)
        /\ approval[r] = "none"
    BY <1>5 DEF RecordDecision, At, GateInv, GateInvAt, PastReview
  <2>2. /\ UNCHANGED <<state, candidate, findings, plan>>
        /\ approval' = [approval EXCEPT ![r] = given[r]]
    BY <1>5 DEF RecordDecision, Note
  <2>3. \A q \in Runs \ {r} : Cleared(q)' = Cleared(q)
    BY <2>2 DEF Cleared, TypeOK
  <2>4. CASE given[r] = "approved"
    <3>1. Cleared(r)'
      BY <2>1, <2>2, <2>4 DEF Cleared, Eligible, TypeOK
    <3>2. QED
      BY <2>1, <2>2, <2>3, <3>1, ClearImage
  <2>5. CASE given[r] # "approved"
    <3>1. Cleared(r)' = Cleared(r)
      BY <2>1, <2>2, <2>5 DEF Cleared, TypeOK
    <3>2. QED
      BY <2>2, <2>3, <3>1, StutterImage
  <2>6. QED
    BY <2>4, <2>5
<1>6. ASSUME NEW r \in Runs, HandleException(r)
      PROVE  Table!TableNext \/ UNCHANGED tableImage
  <2>1. UNCHANGED <<candidate, findings, plan, approval>>
    BY <1>6 DEF HandleException
  <2>2. CASE state' = state
    BY <2>1, <2>2, StutterImage DEF Cleared
  <2>3. CASE /\ state[r] \notin Table!TerminalStates
             /\ state' = [state EXCEPT ![r] = "FAILED"]
    <3>1. state[r] \in WorkflowStates /\ "FAILED" \in WorkflowStates
      BY DEF TypeOK, WorkflowStates, Table!WorkflowStates
    <3>2. Table!TransitionAllowed(state[r], "FAILED")
      BY <2>3, <3>1, FailedAllowed
    <3>3. QED
      BY <2>1, <2>3, <3>1, <3>2, MoveImage
  <2>4. QED
    BY <1>6, <2>2, <2>3 DEF HandleException
<1>7. QED
  BY <1>0, <1>1, <1>2, <1>3, <1>4, <1>5, <1>6 DEF Next, Step

\* Whatever the driver does, failures included, is a behaviour of the workflow
\* state machine in which EXECUTION is entered only by a cleared workflow.
THEOREM DriverImplementsTable == Spec => ImplementsTable
<1>1. TypeOK /\ GateInv /\ [Next]_vars => [Table!TableNext]_(Table!tableVars)
  BY ImageStep DEF Table!tableVars, tableImage
<1>2. QED
  BY <1>1, ImageInit, GateInit, GateStep, SupervisorTypeCorrect, PTL
     DEF Spec, ImplementsTable, Table!TableSpec

-----------------------------------------------------------------------------
(***************************************************************************)
(* The audit log: what the lines, the numbers and the object of a run have *)
(* to do with each other                                                   *)
(***************************************************************************)

\* A line that says of run r that event happened with that detail.
Reported(r, event, detail) ==
    \E e \in log : e.run = r /\ e.event = event /\ e.detail = detail

\* The log has run r's clearance to execute.
Granted(r) == \/ Reported(r, "experiment_plan_created", "free")
              \/ Reported(r, "human_decision", "approved")

\* The counter of a run is above all its lines, and only a constructed run has
\* lines: the counter is set by the constructor and counted up by each line.
Numbered == \A e \in log : e.seq < seq[e.run] /\ pc[e.run] # "new"

\* A clearance is logged before control reaches the execution.
GrantLogged ==
    \A r \in Runs :
        pc[r] = "execute" \/ (pc[r] = "gate" /\ plan[r] = "free") => Granted(r)

\* The last line of a run ended in the state the run is in.
LastLine(r) ==
    \/ state[r] = "CREATED" /\ \A e \in log : e.run # r
    \/ \E e \in log : e.run = r /\ e.seq + 1 = seq[r] /\ e.to = state[r]

\* What control says about the end of the workflow: run() is in its straight
\* line as long as the state is not terminal.
Working == Locations \ ({"restamp_open", "restamp_write", "reject_open",
                         "reject_write", "handling"} \cup Ended)

ControlAt(r) ==
    /\ pc[r] \in Working => state[r] \notin Table!TerminalStates
    /\ pc[r] \in {"restamp_open", "restamp_write"} => state[r] = "DONE"
    /\ pc[r] \in {"reject_open", "reject_write"} => state[r] = "REJECTED"
    /\ pc[r] = "returned" => state[r] \in {"DONE", "REJECTED"}

\* Without an overlap, only the last run moves, and its counter is the file's.
Sequential ==
    last # Mixed =>
        /\ \A r \in Runs : Alive(r) => r = last /\ seq[r] = lines
        /\ \A e \in log : e.seq < lines
        /\ \A e, f \in log : e.seq = f.seq => e = f

AuditInv ==
    /\ Numbered
    /\ GrantLogged
    /\ \A r \in Runs : LastLine(r) /\ ControlAt(r)
    /\ LinesChained
    /\ Sequential
    /\ AuditJustifiesExecution

LEMMA AuditInit == Init => AuditInv
BY DEF Init, AuditInv, Numbered, GrantLogged, LastLine, ControlAt, Working,
       LinesChained, Sequential, AuditJustifiesExecution, Alive, Ended,
       Locations, Table!TerminalStates

\* What a step of run() that logs does to the log and to the state.
Appends(r, dst, event, detail) ==
    /\ Audit(r, dst, event, detail)
    /\ state' = [state EXCEPT ![r] = dst]
    /\ state[r] \notin Table!TerminalStates
    /\ dst # state[r] => Table!TransitionAllowed(state[r], dst)
    /\ event = "dispatch_execution" => pc[r] = "execute"
    /\ event = "run_completed" => pc[r] = "completed" /\ state[r] = "EXECUTION"

\* A step of control from a location that goes on.
LEMMA GoShape ==
    ASSUME TypeOK, NEW r \in Runs, NEW dst \in WorkflowStates,
           NEW event \in Events, Go(r, dst, event),
           event = "dispatch_execution" => pc[r] = "execute",
           event # "run_completed"
    PROVE  Appends(r, dst, event, "-")
BY DEF Go, Appends, Table!TransitionAllowed

LEMMA NoteShape ==
    ASSUME TypeOK, NEW r \in Runs, NEW event \in Events, NEW detail,
           Note(r, event, detail), state[r] \notin Table!TerminalStates,
           event # "dispatch_execution",
           event = "run_completed" => pc[r] = "completed" /\ state[r] = "EXECUTION"
    PROVE  Appends(r, state[r], event, detail)
BY DEF Note, Appends, TypeOK

\* Each step of a run leaves the log, the counters and the states alone, or is
\* one line with the transition it reports.
LEMMA StepShape ==
    ASSUME TypeOK, GateInv, NEW r \in Runs, ControlAt(r),
           Step(r) \/ Raise(r) \/ Crash(r)
    PROVE  /\ Alive(r)
           /\ last' = last
           /\ \E to \in Locations \ {"new"} : pc' = [pc EXCEPT ![r] = to]
           /\ \/ UNCHANGED <<log, lines, seq, state>>
              \/ \E dst \in WorkflowStates, event \in Events, detail \in Details :
                    Appends(r, dst, event, detail)
<1> DEFINE Shape ==
      /\ Alive(r)
      /\ last' = last
      /\ \E to \in Locations \ {"new"} : pc' = [pc EXCEPT ![r] = to]
      /\ \/ UNCHANGED <<log, lines, seq, state>>
         \/ \E dst \in WorkflowStates, event \in Events, detail \in Details :
               Appends(r, dst, event, detail)
<1> USE DEF memory, inputs, files
<1>1. CASE \/ DispatchIngestion(r) \/ RequestCandidate(r) \/ EnterReview(r)
           \/ RetryCandidate(r) \/ RejectProperty(r) \/ RequestPartition(r)
           \/ StartPlan(r) \/ AwaitApproval(r) \/ BlockMissingApproval(r)
           \/ DenyApproval(r) \/ DispatchExecution(r) \/ AssembleEvidence(r)
           \/ FinishWorkflow(r)
  <2>1. PICK from \in Locations \ ({"new"} \cup Ended), to \in Locations \ {"new"},
             dst \in WorkflowStates, event \in Events :
          /\ At(r, from, to)
          /\ Go(r, dst, event)
          /\ event = "dispatch_execution" => from = "execute"
          /\ event # "run_completed"
          /\ last' = last
    BY <1>1 DEF DispatchIngestion, RequestCandidate, EnterReview,
         RetryCandidate, RejectProperty, RequestPartition, StartPlan,
         AwaitApproval, BlockMissingApproval, DenyApproval, DispatchExecution,
         AssembleEvidence, FinishWorkflow, Locations, Ended, Events,
         WorkflowStates, Table!WorkflowStates
  <2>2. Appends(r, dst, event, "-")
    BY <2>1, GoShape DEF At
  <2>3. QED
    BY <2>1, <2>2 DEF At, Alive, Details
<1>2. CASE \/ ReceiveManifest(r) \/ ReceiveCandidate(r) \/ AcceptProperty(r)
           \/ FailGate(r) \/ ReceivePartition(r) \/ CreatePlan(r)
           \/ RecordDecision(r) \/ CompleteRun(r)
  <2>1. PICK from \in Working \ {"new"}, to \in Locations \ {"new"},
             event \in Events, detail \in Details :
          /\ At(r, from, to)
          /\ Note(r, event, detail)
          /\ event # "dispatch_execution"
          /\ event = "run_completed" => from = "completed"
          /\ last' = last
    <3>1. given[r] \in Details /\ result[r] \in Details
      BY DEF TypeOK, Details, Decisions, OptResults
    <3>2. QED
      BY <1>2, <3>1 DEF ReceiveManifest, ReceiveCandidate, AcceptProperty,
         FailGate, ReceivePartition, CreatePlan, RecordDecision, CompleteRun,
         Working, Locations, Ended, Events, Details
  <2>2. state[r] \notin Table!TerminalStates
    BY <2>1 DEF ControlAt, At
  <2>3. event = "run_completed" => pc[r] = "completed" /\ state[r] = "EXECUTION"
    BY <2>1 DEF At, GateInv, GateInvAt
  <2>4. Appends(r, state[r], event, detail)
    BY <2>1, <2>2, <2>3, NoteShape
  <2>5. Alive(r)
    BY <2>1 DEF At, Alive, Working, Ended
  <2>6. QED
    BY <2>1, <2>4, <2>5 DEF At, TypeOK
<1>3. CASE \/ SkipApproval(r) \/ Execute(r) \/ OpenRecord(r) \/ WriteRecord(r)
           \/ OpenPacket(r) \/ WritePacket(r) \/ Raise(r) \/ Crash(r)
  BY <1>3 DEF SkipApproval, Execute, OpenRecord, WriteRecord, OpenPacket,
     WritePacket, Raise, Crash, At, Alive, Locations, Ended
<1>4. CASE HandleException(r)
  <2>1. /\ Alive(r)
        /\ last' = last
        /\ \E to \in Locations \ {"new"} : pc' = [pc EXCEPT ![r] = to]
    BY <1>4 DEF HandleException, At, Alive, Locations, Ended
  <2>2. CASE UNCHANGED <<log, lines, seq, state>>
    BY <2>1, <2>2
  <2>3. CASE /\ state[r] \notin Table!TerminalStates
             /\ Audit(r, "FAILED", "workflow_exception", "-")
             /\ state' = [state EXCEPT ![r] = "FAILED"]
    <3>1. /\ "FAILED" \in WorkflowStates /\ "workflow_exception" \in Events
          /\ "-" \in Details /\ state[r] \in WorkflowStates
      BY DEF WorkflowStates, Table!WorkflowStates, Events, Details, TypeOK
    <3>2. Appends(r, "FAILED", "workflow_exception", "-")
      BY <2>3, <3>1, FailedAllowed DEF Appends
    <3>3. QED
      BY <2>1, <3>1, <3>2
  <2>4. QED
    BY <1>4, <2>2, <2>3 DEF HandleException
<1>5. QED
  BY <1>1, <1>2, <1>3, <1>4 DEF Step

\* A logged grant stays logged.
LEMMA GrantStays ==
    ASSUME NEW r, log \subseteq log', Granted(r)
    PROVE  Granted(r)'
BY DEF Granted, Reported

\* A constructor leaves the log alone, and the counter it sets has no lines yet.
LEMMA AuditConstruct ==
    ASSUME TypeOK, AuditInv, NEW r \in Runs, Construct(r)
    PROVE  AuditInv'
<1> USE DEF files, At
<1>1. /\ pc[r] = "new" /\ pc' = [pc EXCEPT ![r] = "ingest"]
      /\ seq' = [seq EXCEPT ![r] = lines]
      /\ UNCHANGED <<log, lines, state, plan>>
      /\ last' = IF \E q \in Runs : Alive(q) THEN Mixed ELSE Newest(r)
  BY DEF Construct
<1>2. \A e \in log : e.run \in Runs \ {r}
  BY <1>1 DEF AuditInv, Numbered, TypeOK, AuditEvents
<1>3. Numbered'
  BY <1>1, <1>2 DEF AuditInv, Numbered, TypeOK
<1>4. GrantLogged'
  BY <1>1 DEF AuditInv, GrantLogged, Granted, Reported, TypeOK
<1>5. ASSUME NEW q \in Runs PROVE LastLine(q)' /\ ControlAt(q)'
  <2>1. LastLine(q) /\ ControlAt(q)
    BY DEF AuditInv
  <2>2. CASE q = r
    BY <1>1, <1>2, <2>1, <2>2 DEF LastLine, ControlAt, Working, Ended, TypeOK,
       Locations
  <2>3. CASE q # r
    BY <1>1, <2>1, <2>3 DEF LastLine, ControlAt, TypeOK
  <2>4. QED
    BY <2>2, <2>3
<1>6. LinesChained' /\ AuditJustifiesExecution'
  BY <1>1 DEF AuditInv, LinesChained, AuditJustifiesExecution
<1>7. Sequential'
  <2> SUFFICES ASSUME last' # Mixed PROVE Sequential'
    BY DEF Sequential
  <2>1. last # Mixed /\ last' = r /\ \A q \in Runs : ~Alive(q)
    BY <1>1 DEF Newest
  <2>2. \A q \in Runs : Alive(q)' => q = r /\ seq'[q] = lines'
    BY <1>1, <2>1 DEF Alive, TypeOK
  <2>3. QED
    BY <1>1, <2>1, <2>2 DEF Sequential, AuditInv
<1>8. QED
  BY <1>3, <1>4, <1>5, <1>6, <1>7 DEF AuditInv

\* A new line continues its run's path and takes the next number.
LEMMA AppendKeeps ==
    ASSUME TypeOK, AuditInv, NEW r \in Runs, Alive(r), last' = last,
           NEW to \in Locations \ {"new"}, pc' = [pc EXCEPT ![r] = to],
           NEW dst \in WorkflowStates, NEW event \in Events,
           NEW detail \in Details, Appends(r, dst, event, detail)
    PROVE  /\ Numbered'
           /\ \A q \in Runs : LastLine(q)'
           /\ LinesChained'
           /\ Sequential'
           /\ AuditJustifiesExecution'
<1> DEFINE line == [run |-> r, seq |-> seq[r], from |-> state[r], to |-> dst,
                    event |-> event, detail |-> detail]
<1>1. /\ log' = log \cup {line}
      /\ lines' = lines + 1
      /\ seq' = [seq EXCEPT ![r] = @ + 1]
      /\ state' = [state EXCEPT ![r] = dst]
  BY DEF Appends, Audit
<1>2. /\ seq \in [Runs -> Nat] /\ state \in [Runs -> WorkflowStates]
      /\ pc \in [Runs -> Locations] /\ lines \in Nat
      /\ \A e \in log : e.run \in Runs /\ e.seq \in Nat
  BY DEF TypeOK, AuditEvents
<1>3. /\ line.run = r /\ line.seq = seq[r] /\ line.from = state[r]
      /\ line.to = dst /\ line.event = event /\ line.detail = detail
  OBVIOUS
<1> HIDE DEF line
<1>4. \A e \in log : e.run = r => e.seq < seq[r]
  BY DEF AuditInv, Numbered
<1>5. Numbered'
  BY <1>1, <1>2, <1>3 DEF AuditInv, Numbered, Alive
<1>6. ASSUME NEW q \in Runs PROVE LastLine(q)'
  <2>1. CASE q = r
    <3>1. line \in log' /\ line.run = q /\ line.seq + 1 = seq'[q]
             /\ line.to = state'[q]
      BY <1>1, <1>2, <1>3, <2>1
    <3>2. QED
      BY <3>1 DEF LastLine
  <2>2. CASE q # r
    BY <1>1, <1>2, <1>3, <2>2 DEF AuditInv, LastLine
  <2>3. QED
    BY <2>1, <2>2
<1>7. LinesChained'
  <2> SUFFICES ASSUME NEW e \in log'
               PROVE  /\ e.from # e.to => Table!TransitionAllowed(e.from, e.to)
                      /\ e.from \notin Table!TerminalStates
                      /\ \/ \E f \in log' :
                               f.run = e.run /\ f.seq + 1 = e.seq /\ f.to = e.from
                         \/ /\ e.from = "CREATED"
                            /\ \A f \in log' : f.run = e.run => f.seq >= e.seq
    BY DEF LinesChained
  <2>1. CASE e \in log
    <3>1. /\ e.from # e.to => Table!TransitionAllowed(e.from, e.to)
          /\ e.from \notin Table!TerminalStates
          /\ \/ \E f \in log :
                   f.run = e.run /\ f.seq + 1 = e.seq /\ f.to = e.from
             \/ /\ e.from = "CREATED"
                /\ \A f \in log : f.run = e.run => f.seq >= e.seq
      BY <2>1 DEF AuditInv, LinesChained
    <3>2. line.run = e.run => line.seq >= e.seq
      BY <1>2, <1>3, <1>4, <2>1
    <3>3. QED
      BY <1>1, <3>1, <3>2
  <2>2. CASE e = line
    <3>1. /\ state[r] \notin Table!TerminalStates
          /\ state[r] # dst => Table!TransitionAllowed(state[r], dst)
      BY DEF Appends
    <3>2. LastLine(r)
      BY DEF AuditInv
    <3>3. \/ \E f \in log : f.run = r /\ f.seq + 1 = seq[r] /\ f.to = state[r]
          \/ state[r] = "CREATED" /\ \A f \in log : f.run # r
      BY <3>2 DEF LastLine
    <3>4. \A f \in log' : f = line \/ f \in log
      BY <1>1
    <3>5. QED
      BY <1>1, <1>2, <1>3, <2>2, <3>1, <3>3, <3>4
  <2>3. QED
    BY <1>1, <2>1, <2>2
<1>8. Sequential'
  <2> SUFFICES ASSUME last # Mixed PROVE Sequential'
    BY DEF Sequential
  <2>1. /\ \A q \in Runs : Alive(q) => q = last /\ seq[q] = lines
        /\ \A e \in log : e.seq < lines
        /\ \A e, f \in log : e.seq = f.seq => e = f
    BY DEF AuditInv, Sequential
  <2>2. r = last /\ line.seq = lines
    BY <1>3, <2>1
  <2>3. \A q \in Runs : Alive(q)' => q = last' /\ seq'[q] = lines'
    BY <1>1, <1>2, <2>1, <2>2 DEF Alive
  <2>4. \A e \in log' : e.seq < lines'
    BY <1>1, <1>2, <2>1, <2>2
  <2>5. \A e, f \in log' : e.seq = f.seq => e = f
    BY <1>1, <1>2, <2>1, <2>2
  <2>6. QED
    BY <2>3, <2>4, <2>5 DEF Sequential
<1>9. AuditJustifiesExecution'
  <2>1. CASE event # "dispatch_execution"
    BY <1>1, <1>3, <2>1 DEF AuditInv, AuditJustifiesExecution
  <2>2. CASE event = "dispatch_execution"
    <3>1. Granted(r)
      BY <2>2 DEF Appends, AuditInv, GrantLogged
    <3>2. PICK f \in log : /\ f.run = r
                           /\ \/ f.event = "experiment_plan_created" /\ f.detail = "free"
                              \/ f.event = "human_decision" /\ f.detail = "approved"
      BY <3>1 DEF Granted, Reported
    <3>3. f.seq < line.seq /\ f \in log' /\ f.run = line.run
      BY <1>1, <1>3, <1>4, <3>2
    <3>4. QED
      BY <1>1, <3>2, <3>3 DEF AuditInv, AuditJustifiesExecution
  <2>3. QED
    BY <2>1, <2>2
<1>10. QED
  BY <1>5, <1>6, <1>7, <1>8, <1>9

\* A step that logs nothing and ends no constructor.
LEMMA QuietKeeps ==
    ASSUME TypeOK, AuditInv, NEW r \in Runs, Alive(r), last' = last,
           NEW to \in Locations \ {"new"}, pc' = [pc EXCEPT ![r] = to],
           UNCHANGED <<log, lines, seq, state>>
    PROVE  /\ Numbered'
           /\ \A q \in Runs : LastLine(q)'
           /\ LinesChained'
           /\ Sequential'
           /\ AuditJustifiesExecution'
<1>1. Numbered'
  BY DEF AuditInv, Numbered, TypeOK, AuditEvents
<1>2. Sequential'
  BY DEF AuditInv, Sequential, Alive, TypeOK
<1>3. QED
  BY <1>1, <1>2 DEF AuditInv, LastLine, LinesChained, AuditJustifiesExecution

\* A line reports what it is written for.
LEMMA AuditReports ==
    ASSUME NEW r, NEW dst, NEW event, NEW detail, Audit(r, dst, event, detail)
    PROVE  Reported(r, event, detail)'
<1> DEFINE line == [run |-> r, seq |-> seq[r], from |-> state[r], to |-> dst,
                    event |-> event, detail |-> detail]
<1>1. line \in log'
  BY DEF Audit
<1>2. line.run = r /\ line.event = event /\ line.detail = detail
  OBVIOUS
<1>3. QED
  BY <1>1, <1>2 DEF Reported

\* Control reaches the execution with the clearance in the log.
LEMMA GrantStep ==
    ASSUME TypeOK, GateInv, AuditInv, NEW r \in Runs,
           Step(r) \/ Raise(r) \/ Crash(r), log \subseteq log',
           NEW to \in Locations, pc' = [pc EXCEPT ![r] = to]
    PROVE  GrantLogged'
<1> USE DEF memory, inputs, files
<1>1. ASSUME NEW q \in Runs, q # r,
             pc'[q] = "execute" \/ (pc'[q] = "gate" /\ plan'[q] = "free")
      PROVE  Granted(q)'
  <2>1. plan'[q] = plan[q] /\ pc'[q] = pc[q]
    <3>1. CASE CreatePlan(r)
      BY <1>1, <3>1 DEF CreatePlan, TypeOK
    <3>2. CASE ~CreatePlan(r)
      BY <1>1, <3>2 DEF Step, TypeOK, DispatchIngestion, ReceiveManifest,
         RequestCandidate, ReceiveCandidate, EnterReview, AcceptProperty,
         FailGate, RetryCandidate, RejectProperty, RequestPartition,
         ReceivePartition, StartPlan, SkipApproval, AwaitApproval,
         BlockMissingApproval, RecordDecision, DenyApproval, DispatchExecution,
         Execute, OpenRecord, WriteRecord, CompleteRun, AssembleEvidence,
         OpenPacket, WritePacket, FinishWorkflow, HandleException, Raise, Crash
    <3>3. QED
      BY <3>1, <3>2
  <2>2. Granted(q)
    BY <1>1, <2>1 DEF AuditInv, GrantLogged
  <2>3. QED
    BY <2>2, GrantStays
<1>2. ASSUME pc'[r] = "execute" \/ (pc'[r] = "gate" /\ plan'[r] = "free")
      PROVE  Granted(r)'
  <2>1. CASE CreatePlan(r)
    <3>1. PICK p \in {"free", "gated"} :
            plan' = [plan EXCEPT ![r] = p] /\ Note(r, "experiment_plan_created", p)
      BY <2>1 DEF CreatePlan
    <3>2. p = "free"
      BY <1>2, <2>1, <3>1 DEF CreatePlan, At, TypeOK
    <3>3. Reported(r, "experiment_plan_created", "free")'
      BY <3>1, <3>2, AuditReports DEF Note
    <3>4. QED
      BY <3>3 DEF Granted
  <2>2. CASE SkipApproval(r)
    <3>1. pc[r] = "gate" /\ plan[r] = "free"
      BY <2>2 DEF SkipApproval, At, GateInv, GateInvAt, TypeOK
    <3>2. QED
      BY <3>1, GrantStays DEF AuditInv, GrantLogged
  <2>3. CASE RecordDecision(r)
    <3>1. given[r] = "approved" /\ Note(r, "human_decision", given[r])
      BY <1>2, <2>3 DEF RecordDecision, At, TypeOK
    <3>2. Reported(r, "human_decision", "approved")'
      BY <3>1, AuditReports DEF Note
    <3>3. QED
      BY <3>2 DEF Granted
  <2>4. CASE ~(CreatePlan(r) \/ SkipApproval(r) \/ RecordDecision(r))
    <3>1. pc'[r] \notin {"execute", "gate"}
      BY <2>4 DEF Step, At, TypeOK, DispatchIngestion, ReceiveManifest,
         RequestCandidate, ReceiveCandidate, EnterReview, AcceptProperty,
         FailGate, RetryCandidate, RejectProperty, RequestPartition,
         ReceivePartition, StartPlan, AwaitApproval,
         BlockMissingApproval, DenyApproval, DispatchExecution,
         Execute, OpenRecord, WriteRecord, CompleteRun, AssembleEvidence,
         OpenPacket, WritePacket, FinishWorkflow, HandleException, Raise, Crash
    <3>2. QED
      BY <1>2, <3>1
  <2>5. QED
    BY <2>1, <2>2, <2>3, <2>4
<1>3. QED
  BY <1>1, <1>2 DEF GrantLogged

\* The workflow is in a terminal state when control says so and not before.
LEMMA ControlStep ==
    ASSUME TypeOK, GateInv, NEW r \in Runs, ControlAt(r),
           Step(r) \/ Raise(r) \/ Crash(r)
    PROVE  ControlAt(r)'
<1> USE DEF memory, inputs, files, ControlAt, Working, Ended, Locations,
            Table!TerminalStates
<1>1. CASE \/ DispatchIngestion(r) \/ RequestCandidate(r) \/ EnterReview(r)
           \/ RetryCandidate(r) \/ RequestPartition(r) \/ StartPlan(r)
           \/ AwaitApproval(r) \/ DispatchExecution(r) \/ AssembleEvidence(r)
  BY <1>1 DEF DispatchIngestion, RequestCandidate, EnterReview, RetryCandidate,
     RequestPartition, StartPlan, AwaitApproval, DispatchExecution,
     AssembleEvidence, At, Go, TypeOK
<1>2. CASE \/ RejectProperty(r) \/ BlockMissingApproval(r) \/ DenyApproval(r)
           \/ FinishWorkflow(r)
  BY <1>2 DEF RejectProperty, BlockMissingApproval, DenyApproval,
     FinishWorkflow, At, Go, TypeOK
<1>3. CASE \/ ReceiveManifest(r) \/ ReceiveCandidate(r) \/ AcceptProperty(r)
           \/ FailGate(r) \/ ReceivePartition(r) \/ CreatePlan(r)
           \/ RecordDecision(r) \/ CompleteRun(r)
  BY <1>3 DEF ReceiveManifest, ReceiveCandidate, AcceptProperty, FailGate,
     ReceivePartition, CreatePlan, RecordDecision, CompleteRun, Note, At, TypeOK
<1>4. CASE \/ SkipApproval(r) \/ Execute(r) \/ OpenRecord(r) \/ WriteRecord(r)
           \/ OpenPacket(r) \/ WritePacket(r) \/ Raise(r) \/ Crash(r)
  BY <1>4 DEF SkipApproval, Execute, OpenRecord, WriteRecord, OpenPacket,
     WritePacket, Raise, Crash, At, TypeOK
<1>5. CASE HandleException(r)
  BY <1>5 DEF HandleException, At, TypeOK
<1>6. QED
  BY <1>1, <1>2, <1>3, <1>4, <1>5 DEF Step

LEMMA AuditStep == TypeOK /\ GateInv /\ AuditInv /\ [Next]_vars => AuditInv'
<1> SUFFICES ASSUME TypeOK, GateInv, AuditInv, [Next]_vars PROVE AuditInv'
  OBVIOUS
<1>1. CASE UNCHANGED vars
  BY <1>1 DEF vars, memory, inputs, files, AuditInv, Numbered, GrantLogged,
     Granted, Reported, LastLine, ControlAt, LinesChained, Sequential, Alive,
     AuditJustifiesExecution
<1>2. ASSUME NEW r \in Runs, Construct(r) PROVE AuditInv'
  BY <1>2, AuditConstruct
<1>3. ASSUME NEW r \in Runs, Step(r) \/ Raise(r) \/ Crash(r) PROVE AuditInv'
  <2>1. ControlAt(r)
    BY DEF AuditInv
  <2>2. /\ Alive(r)
        /\ last' = last
        /\ \E to \in Locations \ {"new"} : pc' = [pc EXCEPT ![r] = to]
        /\ \/ UNCHANGED <<log, lines, seq, state>>
           \/ \E dst \in WorkflowStates, event \in Events, detail \in Details :
                 Appends(r, dst, event, detail)
    BY <1>3, <2>1, StepShape
  <2>3. PICK to \in Locations \ {"new"} : pc' = [pc EXCEPT ![r] = to]
    BY <2>2
  <2>4. /\ Numbered'
        /\ \A q \in Runs : LastLine(q)'
        /\ LinesChained'
        /\ Sequential'
        /\ AuditJustifiesExecution'
    <3>1. CASE UNCHANGED <<log, lines, seq, state>>
      BY <2>2, <2>3, <3>1, QuietKeeps
    <3>2. ASSUME NEW dst \in WorkflowStates, NEW event \in Events,
                 NEW detail \in Details, Appends(r, dst, event, detail)
          PROVE  /\ Numbered'
                 /\ \A q \in Runs : LastLine(q)'
                 /\ LinesChained'
                 /\ Sequential'
                 /\ AuditJustifiesExecution'
      BY <2>2, <2>3, <3>2, AppendKeeps
    <3>3. QED
      BY <2>2, <3>1, <3>2
  <2>5. log \subseteq log' /\ \A q \in Runs \ {r} : state'[q] = state[q]
    BY <2>2 DEF Appends, Audit, TypeOK
  <2>6. GrantLogged'
    BY <1>3, <2>3, <2>5, GrantStep
  <2>7. ASSUME NEW q \in Runs PROVE ControlAt(q)'
    <3>1. CASE q = r
      BY <1>3, <2>1, <3>1, ControlStep
    <3>2. CASE q # r
      <4>1. ControlAt(q) /\ pc'[q] = pc[q] /\ state'[q] = state[q]
        BY <2>3, <2>5, <3>2 DEF AuditInv, TypeOK
      <4>2. QED
        BY <4>1 DEF ControlAt
    <3>3. QED
      BY <3>1, <3>2
  <2>8. QED
    BY <2>4, <2>6, <2>7 DEF AuditInv
<1>4. QED
  BY <1>1, <1>2, <1>3 DEF Next

\* At every moment the audit log of each run says where the run is, how it came there,
\* and which result and approval let it go on.
THEOREM AuditInvariant == Spec => []AuditInv
<1>1. QED
  BY AuditInit, AuditStep, GateInit, GateStep, SupervisorTypeCorrect, PTL
     DEF Spec

\* However the runs of a task overlap, and whichever of them are killed, every
\* execution in audit.jsonl comes after a line of its run that reports a plan
\* no human has to approve, or the approval.
THEOREM AuditJustifiesExecutionAlways == Spec => []AuditJustifiesExecution
<1>1. AuditInv => AuditJustifiesExecution
  BY DEF AuditInv
<1>2. QED
  BY <1>1, AuditInvariant, PTL

\* The lines of every run form one path through the workflow, for any overlap
\* of the runs, and their numbers tell the lines of the file apart as long as
\* the runs follow each other.
THEOREM AuditChainedAlways == Spec => []AuditChained
<1>1. AuditInv => AuditChained
  BY DEF AuditInv, AuditChained, Sequential, SeqUnique
<1>2. QED
  BY <1>1, AuditInvariant, PTL

-----------------------------------------------------------------------------
(***************************************************************************)
(* The evidence packet and the run record                                  *)
(***************************************************************************)

\* Only an execution has a result, and an execution was approved.
ResultAt(r) ==
    /\ result[r] # "none" => state[r] \in Executed \cup {"FAILED"}
    /\ state[r] \in Executed => Approved(r)
    /\ pc[r] \in {"assemble", "packet_open", "packet_write", "finish",
                  "restamp_open", "restamp_write"} =>
           Reported(r, "run_completed", result[r])

\* A run that logged a result can end in DONE or FAILED only.
CompletionStands ==
    \A e \in log :
        e.event = "run_completed" => state[e.run] \in Executed \cup {"FAILED"}

\* A packet that says REJECTED is of a run that is, and stays, rejected.
RejectionStays ==
    packet.status = "whole" /\ packet.final = "REJECTED" =>
        state[packet.run] = "REJECTED"

\* Without an overlap, the file the last run has truncated is still truncated
\* when it fills it, and the record it wrote is still there when it returns.
OwnFiles ==
    last \in Runs \ {Mixed} =>
        /\ pc[last] \in {"packet_write", "restamp_write", "reject_write"} =>
               packet = Torn
        /\ pc[last] = "record_write" => record = Torn
        /\ pc[last] \in {"completed", "assemble", "packet_open",
                         "packet_write", "finish", "restamp_open",
                         "restamp_write"} =>
               record = [status |-> "whole", run |-> last,
                         result |-> result[last]]

FilesInv ==
    /\ \A r \in Runs : ResultAt(r)
    /\ CompletionStands
    /\ RejectionStays
    /\ OwnFiles
    /\ PacketBacked
    /\ LastRunOnDisk

LEMMA FilesInit == Init => FilesInv
BY RunNamesAssumption
   DEF Init, FilesInv, ResultAt, CompletionStands, RejectionStays, OwnFiles,
       PacketBacked, LastRunOnDisk, Executed, Absent

\* What a step of run r does to what the packet is built from.
LEMMA ResultStep ==
    ASSUME TypeOK, GateInv, AuditInv, NEW r \in Runs, ResultAt(r),
           Step(r) \/ Raise(r) \/ Crash(r)
    PROVE  ResultAt(r)'
<1> USE DEF memory, inputs, files
<1>1. /\ ControlAt(r)
      /\ \A e \in WorkflowStates, f \in WorkflowStates :
            Table!TransitionAllowed(e, f) /\ e \in Executed =>
               f \in Executed \cup {"FAILED"}
  BY DEF AuditInv, Table!TransitionAllowed, Table!AllowedNext, Executed
<1>2. /\ log \subseteq log'
      /\ state'[r] = state[r] \/ Table!TransitionAllowed(state[r], state'[r])
      /\ state[r] \in WorkflowStates /\ state'[r] \in WorkflowStates
  <2>1. \/ UNCHANGED <<log, lines, seq, state>>
        \/ \E dst \in WorkflowStates, event \in Events, detail \in Details :
              Appends(r, dst, event, detail)
    BY <1>1, StepShape
  <2>2. QED
    BY <2>1 DEF Appends, Audit, TypeOK
<1>3. result'[r] # "none" => state'[r] \in Executed \cup {"FAILED"}
  <2>1. CASE Execute(r)
    BY <2>1 DEF Execute, At, GateInv, GateInvAt, Executed
  <2>2. CASE ~Execute(r)
    <3>1. result' = result
      BY <2>2 DEF Step, DispatchIngestion, ReceiveManifest,
         RequestCandidate, ReceiveCandidate, EnterReview, AcceptProperty,
         FailGate, RetryCandidate, RejectProperty, RequestPartition,
         ReceivePartition, StartPlan, CreatePlan, SkipApproval, AwaitApproval,
         BlockMissingApproval, RecordDecision, DenyApproval, DispatchExecution,
         OpenRecord, WriteRecord, CompleteRun, AssembleEvidence,
         OpenPacket, WritePacket, FinishWorkflow, HandleException, Raise, Crash
    <3>2. CASE result[r] = "none"
      BY <3>1, <3>2
    <3>3. CASE state[r] = "FAILED" \/ state[r] \in Executed
      BY <1>1, <1>2, <3>3 DEF Table!TransitionAllowed, Table!TerminalStates
    <3>4. QED
      BY <3>1, <3>2, <3>3 DEF ResultAt
  <2>3. QED
    BY <2>1, <2>2
<1>4. state'[r] \in Executed => Approved(r)'
  <2>1. CASE CreatePlan(r) \/ RecordDecision(r)
    BY <2>1 DEF CreatePlan, RecordDecision, Note, At, GateInv, GateInvAt,
       Executed
  <2>2. CASE DispatchExecution(r)
    BY <2>2 DEF DispatchExecution, At, GateInv, GateInvAt, Cleared, Approved
  <2>3. CASE ~(CreatePlan(r) \/ RecordDecision(r) \/ DispatchExecution(r))
    <3>1. /\ plan' = plan /\ approval' = approval
          /\ state'[r] \in Executed => state[r] \in Executed
      BY <2>3 DEF Step, At, Go, Note, Executed, GateInv, GateInvAt, TypeOK,
         DispatchIngestion, ReceiveManifest,
         RequestCandidate, ReceiveCandidate, EnterReview, AcceptProperty,
         FailGate, RetryCandidate, RejectProperty, RequestPartition,
         ReceivePartition, StartPlan, SkipApproval, AwaitApproval,
         BlockMissingApproval, DenyApproval, Execute,
         OpenRecord, WriteRecord, CompleteRun, AssembleEvidence,
         OpenPacket, WritePacket, FinishWorkflow, HandleException, Raise, Crash
    <3>2. QED
      BY <3>1 DEF ResultAt, Approved
  <2>4. QED
    BY <2>1, <2>2, <2>3
<1>5. ASSUME pc'[r] \in {"assemble", "packet_open", "packet_write", "finish",
                         "restamp_open", "restamp_write"}
      PROVE  Reported(r, "run_completed", result[r])' /\ result' = result
  <2>1. CASE CompleteRun(r)
    BY <2>1, AuditReports DEF CompleteRun, Note
  <2>2. CASE ~CompleteRun(r)
    <3>1. /\ pc[r] \in {"assemble", "packet_open", "packet_write", "finish",
                        "restamp_open", "restamp_write"}
          /\ result' = result
      BY <1>5, <2>2 DEF Step, At, TypeOK, DispatchIngestion, ReceiveManifest,
         RequestCandidate, ReceiveCandidate, EnterReview, AcceptProperty,
         FailGate, RetryCandidate, RejectProperty, RequestPartition,
         ReceivePartition, StartPlan, CreatePlan, SkipApproval, AwaitApproval,
         BlockMissingApproval, RecordDecision, DenyApproval, DispatchExecution,
         Execute, OpenRecord, WriteRecord, AssembleEvidence,
         OpenPacket, WritePacket, FinishWorkflow, HandleException, Raise, Crash
    <3>2. QED
      BY <1>2, <3>1 DEF ResultAt, Reported
  <2>3. QED
    BY <2>1, <2>2
<1>6. QED
  BY <1>3, <1>4, <1>5 DEF ResultAt

\* Who changes the packet and the record, and from which location.
LEMMA FileWriters ==
    ASSUME NEW r \in Runs, Step(r) \/ Raise(r) \/ Crash(r)
    PROVE  /\ OpenPacket(r) \/ WritePacket(r) \/ packet' = packet
           /\ OpenRecord(r) \/ WriteRecord(r) \/ record' = record
BY DEF memory, inputs, files, Step, Go, Note, DispatchIngestion,
   ReceiveManifest, RequestCandidate, ReceiveCandidate, EnterReview,
   AcceptProperty, FailGate, RetryCandidate, RejectProperty, RequestPartition,
   ReceivePartition, StartPlan, CreatePlan, SkipApproval, AwaitApproval,
   BlockMissingApproval, RecordDecision, DenyApproval, DispatchExecution,
   Execute, OpenRecord, WriteRecord, CompleteRun, AssembleEvidence, OpenPacket,
   WritePacket, FinishWorkflow, HandleException, Raise, Crash

\* What is true of the packet a run is about to write.
LEMMA PacketOfRun ==
    ASSUME TypeOK, GateInv, AuditInv, FilesInv, NEW r \in Runs,
           NEW final \in {"DONE", "REJECTED"},
           final = "DONE" => pc[r] \in {"packet_write", "restamp_write"},
           final = "REJECTED" => pc[r] = "reject_write"
    PROVE  LET new == BuildPacket(r, final) IN
           /\ new.status = "whole" /\ new.run = r /\ new.final = final
           /\ new.result = result[r]
           /\ final = "DONE" =>
                 /\ Reported(r, "run_completed", result[r])
                 /\ new.findings = {}
                 /\ new.plan = "gated" => new.approval = "approved"
           /\ final = "REJECTED" =>
                 /\ state[r] = "REJECTED"
                 /\ result[r] = "none"
                 /\ \E e \in log : e.run = r /\ e.to = "REJECTED"
                 /\ \A e \in log : e.run = r => e.event # "run_completed"
           /\ new.next = "human_review" <=> new.result = "PASS"
<1> DEFINE new == BuildPacket(r, final)
<1>1. /\ new.status = "whole" /\ new.run = r /\ new.final = final
      /\ new.findings = findings[r] /\ new.plan = plan[r]
      /\ new.approval = approval[r] /\ new.result = result[r]
      /\ new.next = RecommendNext(state[r], result[r])
  BY DEF BuildPacket
<1>2. GateInvAt(r) /\ ControlAt(r) /\ ResultAt(r) /\ LastLine(r)
  BY DEF GateInv, AuditInv, FilesInv
<1>3. CASE final = "DONE"
  <2>1. state[r] \in {"EVIDENCE_ASSEMBLY", "DONE"}
    BY <1>2, <1>3 DEF GateInvAt, ControlAt
  <2>2. Eligible(r) /\ Approved(r)
    BY <1>2, <2>1 DEF GateInvAt, ResultAt, Executed
  <2>3. Reported(r, "run_completed", result[r])
    BY <1>2, <1>3 DEF ResultAt
  <2>4. RecommendNext(state[r], result[r]) = "human_review" <=> result[r] = "PASS"
    BY <2>1 DEF RecommendNext
  <2>5. QED
    BY <1>1, <1>3, <2>2, <2>3, <2>4 DEF Eligible, Approved
<1>4. CASE final = "REJECTED"
  <2>1. state[r] = "REJECTED"
    BY <1>2, <1>4 DEF ControlAt
  <2>2. result[r] = "none"
    BY <1>2, <2>1 DEF ResultAt, Executed
  <2>3. \E e \in log : e.run = r /\ e.to = "REJECTED"
    BY <1>2, <2>1 DEF LastLine
  <2>4. \A e \in log : e.run = r => e.event # "run_completed"
    BY <2>1 DEF FilesInv, CompletionStands, Executed
  <2>5. RecommendNext(state[r], result[r]) # "human_review"
    BY <2>1 DEF RecommendNext
  <2>6. QED
    BY <1>1, <1>4, <2>1, <2>2, <2>3, <2>4, <2>5
<1>5. QED
  BY <1>3, <1>4

\* A packet that is not rewritten stays true: what it rests on is never taken
\* back, and a rejected run logs no result.
LEMMA PacketStays ==
    ASSUME TypeOK, FilesInv, log \subseteq log', packet' = packet,
           \A e \in log' \ log : e.event = "run_completed" =>
               state[e.run] = "EXECUTION"
    PROVE  PacketBacked'
<1>1. CASE packet.status = "whole"
  <2>1. packet.final = "REJECTED" => state[packet.run] = "REJECTED"
    BY <1>1 DEF FilesInv, RejectionStays
  <2>2. QED
    BY <1>1, <2>1 DEF FilesInv, PacketBacked
<1>2. CASE packet.status # "whole"
  BY <1>2 DEF PacketBacked
<1>3. QED
  BY <1>1, <1>2

LEMMA BackedStep ==
    ASSUME TypeOK, GateInv, AuditInv, FilesInv, NEW r \in Runs,
           Step(r) \/ Raise(r) \/ Crash(r), log \subseteq log',
           \A q \in Runs : state[q] = "REJECTED" => state'[q] = "REJECTED",
           \A e \in log' \ log : e.event = "run_completed" =>
               state[e.run] = "EXECUTION"
    PROVE  PacketBacked' /\ RejectionStays'
<1> USE DEF memory, inputs, files
<1>1. CASE packet' = packet
  <2>1. packet.status = "whole" => packet.run \in Runs
    BY DEF TypeOK, Packets, Absent, Torn
  <2>2. QED
    BY <1>1, <2>1, PacketStays DEF FilesInv, RejectionStays
<1>2. CASE packet' = Torn
  BY <1>2 DEF PacketBacked, RejectionStays, Torn
<1>3. CASE WritePacket(r) /\ packet' # Torn
  <2>1. PICK final \in {"DONE", "REJECTED"} :
          /\ packet' \in Written(packet, BuildPacket(r, final))
          /\ final = "DONE" => pc[r] \in {"packet_write", "restamp_write"}
          /\ final = "REJECTED" => pc[r] = "reject_write"
          /\ UNCHANGED <<log, state>>
    BY <1>3 DEF WritePacket, At
  <2>2. packet' = BuildPacket(r, final)
    BY <1>3, <2>1 DEF Written
  <2>3. /\ packet'.status = "whole" /\ packet'.run = r /\ packet'.final = final
        /\ packet'.result = result[r]
        /\ final = "DONE" =>
              /\ Reported(r, "run_completed", result[r])
              /\ packet'.findings = {}
              /\ packet'.plan = "gated" => packet'.approval = "approved"
        /\ final = "REJECTED" =>
              /\ state[r] = "REJECTED"
              /\ \E e \in log : e.run = r /\ e.to = "REJECTED"
              /\ \A e \in log : e.run = r => e.event # "run_completed"
        /\ packet'.next = "human_review" <=> packet'.result = "PASS"
    BY <2>1, <2>2, PacketOfRun
  <2>4. QED
    BY <2>1, <2>3 DEF PacketBacked, RejectionStays, Reported
<1>4. QED
  BY <1>1, <1>2, <1>3, FileWriters DEF OpenPacket

\* Without an overlap nobody else touches the files the last run writes.
LEMMA OwnStep ==
    ASSUME TypeOK, GateInv, AuditInv, FilesInv, NEW r \in Runs,
           Step(r) \/ Raise(r) \/ Crash(r), last' = last, Alive(r),
           \A q \in Runs \ {r} : pc'[q] = pc[q]
    PROVE  OwnFiles' /\ LastRunOnDisk'
<1> USE DEF memory, inputs, files
<1> SUFFICES ASSUME last \in Runs PROVE OwnFiles' /\ LastRunOnDisk'
  BY DEF OwnFiles, LastRunOnDisk
<1>1. r = last
  BY RunNamesAssumption DEF AuditInv, Sequential
<1>2. last \in Runs \ {Mixed}
  BY RunNamesAssumption
<1>3. /\ pc[r] \in {"packet_write", "restamp_write", "reject_write"} => packet = Torn
      /\ pc[r] = "record_write" => record = Torn
      /\ pc[r] \in {"completed", "assemble", "packet_open", "packet_write",
                    "finish", "restamp_open", "restamp_write"} =>
             record = [status |-> "whole", run |-> r, result |-> result[r]]
  BY <1>1, <1>2 DEF FilesInv, OwnFiles
<1>4. OwnFiles'
  <2>1. pc'[r] \in {"packet_write", "restamp_write", "reject_write"} => packet' = Torn
    <3>1. CASE OpenPacket(r)
      BY <3>1 DEF OpenPacket
    <3>2. CASE ~OpenPacket(r)
      BY <3>2 DEF Step, At, TypeOK, DispatchIngestion, ReceiveManifest,
         RequestCandidate, ReceiveCandidate, EnterReview, AcceptProperty,
         FailGate, RetryCandidate, RejectProperty, RequestPartition,
         ReceivePartition, StartPlan, CreatePlan, SkipApproval, AwaitApproval,
         BlockMissingApproval, RecordDecision, DenyApproval, DispatchExecution,
         Execute, OpenRecord, WriteRecord, CompleteRun, AssembleEvidence,
         WritePacket, FinishWorkflow, HandleException, Raise, Crash
    <3>3. QED
      BY <3>1, <3>2
  <2>2. pc'[r] = "record_write" => record' = Torn
    <3>1. CASE OpenRecord(r)
      BY <3>1 DEF OpenRecord
    <3>2. CASE ~OpenRecord(r)
      BY <3>2 DEF Step, At, TypeOK, DispatchIngestion, ReceiveManifest,
         RequestCandidate, ReceiveCandidate, EnterReview, AcceptProperty,
         FailGate, RetryCandidate, RejectProperty, RequestPartition,
         ReceivePartition, StartPlan, CreatePlan, SkipApproval, AwaitApproval,
         BlockMissingApproval, RecordDecision, DenyApproval, DispatchExecution,
         Execute, OpenPacket, WriteRecord, CompleteRun, AssembleEvidence,
         WritePacket, FinishWorkflow, HandleException, Raise, Crash
    <3>3. QED
      BY <3>1, <3>2
  <2>3. pc'[r] \in {"completed", "assemble", "packet_open", "packet_write",
                    "finish", "restamp_open", "restamp_write"} =>
            record' = [status |-> "whole", run |-> r, result |-> result'[r]]
    <3>1. CASE WriteRecord(r)
      <4>1. pc[r] = "record_write" /\ result' = result
        BY <3>1 DEF WriteRecord, At
      <4>2. QED
        BY <1>3, <3>1, <4>1 DEF WriteRecord, Written
    <3>2. CASE ~WriteRecord(r)
      <4>1. pc'[r] \in {"completed", "assemble", "packet_open", "packet_write",
                        "finish", "restamp_open", "restamp_write"} =>
              /\ pc[r] \in {"completed", "assemble", "packet_open",
                            "packet_write", "finish", "restamp_open",
                            "restamp_write"}
              /\ result' = result /\ record' = record
        BY <3>2 DEF Step, At, Go, Note, TypeOK, DispatchIngestion,
         ReceiveManifest, RequestCandidate, ReceiveCandidate, EnterReview,
         AcceptProperty, FailGate, RetryCandidate, RejectProperty,
         RequestPartition, ReceivePartition, StartPlan, CreatePlan,
         SkipApproval, AwaitApproval, BlockMissingApproval, RecordDecision,
         DenyApproval, DispatchExecution, Execute, OpenRecord, OpenPacket,
         CompleteRun, AssembleEvidence, WritePacket, FinishWorkflow,
         HandleException, Raise, Crash
      <4>2. QED
        BY <1>3, <4>1
    <3>3. QED
      BY <3>1, <3>2
  <2>4. QED
    BY <1>1, <2>1, <2>2, <2>3 DEF OwnFiles
<1>5. LastRunOnDisk'
  <2> SUFFICES ASSUME pc'[r] = "returned" PROVE LastRunOnDisk'
    BY <1>1 DEF LastRunOnDisk
  <2>1. WritePacket(r)
    BY DEF Alive, Ended, Step, At, TypeOK, DispatchIngestion,
         ReceiveManifest, RequestCandidate, ReceiveCandidate, EnterReview,
         AcceptProperty, FailGate, RetryCandidate, RejectProperty,
         RequestPartition, ReceivePartition, StartPlan, CreatePlan,
         SkipApproval, AwaitApproval, BlockMissingApproval, RecordDecision,
         DenyApproval, DispatchExecution, Execute, OpenRecord, OpenPacket,
         WriteRecord, CompleteRun, AssembleEvidence, FinishWorkflow,
         HandleException, Raise, Crash
  <2>2. PICK final \in {"DONE", "REJECTED"} :
          /\ packet' \in Written(packet, BuildPacket(r, final))
          /\ final = "DONE" => pc[r] = "restamp_write"
          /\ final = "REJECTED" => pc[r] = "reject_write"
          /\ UNCHANGED <<state, record>>
    BY <2>1 DEF WritePacket, At, TypeOK
  <2>3. packet' = BuildPacket(r, final)
    BY <1>3, <2>2 DEF Written
  <2>4. /\ packet'.status = "whole" /\ packet'.run = r /\ packet'.final = final
        /\ packet'.result = result[r]
        /\ final = "REJECTED" => result[r] = "none"
    BY <2>2, <2>3, PacketOfRun
  <2>5. state[r] = final
    BY <2>2 DEF AuditInv, ControlAt
  <2>6. packet'.result # "none" =>
           record = [status |-> "whole", run |-> r, result |-> result[r]]
    BY <1>3, <2>2, <2>4
  <2>7. QED
    BY <1>1, <2>2, <2>4, <2>5, <2>6 DEF LastRunOnDisk
<1>6. QED
  BY <1>4, <1>5

LEMMA FilesStep ==
    TypeOK /\ GateInv /\ AuditInv /\ FilesInv /\ [Next]_vars => FilesInv'
<1> SUFFICES ASSUME TypeOK, GateInv, AuditInv, FilesInv, [Next]_vars
             PROVE  FilesInv'
  OBVIOUS
<1>1. CASE UNCHANGED vars
  BY <1>1 DEF vars, memory, inputs, files, FilesInv, ResultAt, Reported,
     Approved, CompletionStands, RejectionStays, OwnFiles, PacketBacked,
     LastRunOnDisk
<1>2. ASSUME NEW r \in Runs, Construct(r) PROVE FilesInv'
  <2>1. /\ pc[r] = "new" /\ pc' = [pc EXCEPT ![r] = "ingest"]
        /\ UNCHANGED <<state, plan, approval, result, log, packet, record>>
        /\ last' \in {r, Mixed}
    BY <1>2 DEF Construct, At, files, Newest
  <2>2. \A q \in Runs : ResultAt(q)'
    BY <2>1 DEF FilesInv, ResultAt, Reported, Approved, TypeOK
  <2>3. OwnFiles' /\ LastRunOnDisk'
    BY <2>1, RunNamesAssumption DEF OwnFiles, LastRunOnDisk, TypeOK
  <2>4. QED
    BY <2>1, <2>2, <2>3 DEF FilesInv, CompletionStands, RejectionStays,
       PacketBacked
<1>3. ASSUME NEW r \in Runs, Step(r) \/ Raise(r) \/ Crash(r) PROVE FilesInv'
  <2>1. ControlAt(r)
    BY DEF AuditInv
  <2>2. /\ Alive(r)
        /\ last' = last
        /\ \E to \in Locations \ {"new"} : pc' = [pc EXCEPT ![r] = to]
        /\ \/ UNCHANGED <<log, lines, seq, state>>
           \/ \E dst \in WorkflowStates, event \in Events, detail \in Details :
                 Appends(r, dst, event, detail)
    BY <1>3, <2>1, StepShape
  <2>3. /\ log \subseteq log'
        /\ \A q \in Runs \ {r} : state'[q] = state[q] /\ pc'[q] = pc[q]
        /\ state' # state => state[r] \notin Table!TerminalStates
        /\ \A e \in log' \ log : e.run = r /\ (e.event = "run_completed" =>
               state[r] = "EXECUTION")
        /\ state'[r] = state[r] \/ Table!TransitionAllowed(state[r], state'[r])
    BY <2>2 DEF Appends, Audit, TypeOK
  <2>4. \A q \in Runs : state[q] = "REJECTED" => state'[q] = "REJECTED"
    BY <2>3 DEF Table!TerminalStates
  <2>5. PacketBacked' /\ RejectionStays'
    BY <1>3, <2>3, <2>4, BackedStep
  <2>6. OwnFiles' /\ LastRunOnDisk'
    BY <1>3, <2>2, <2>3, OwnStep
  <2>7. ASSUME NEW q \in Runs PROVE ResultAt(q)'
    <3>1. CASE q = r
      BY <1>3, <3>1, ResultStep DEF FilesInv
    <3>2. CASE q # r
      <4>1. /\ plan'[q] = plan[q] /\ approval'[q] = approval[q]
            /\ result'[q] = result[q]
        BY <1>3, <3>2 DEF memory, inputs, files, Step, TypeOK,
         DispatchIngestion, ReceiveManifest, RequestCandidate,
         ReceiveCandidate, EnterReview, AcceptProperty, FailGate,
         RetryCandidate, RejectProperty, RequestPartition, ReceivePartition,
         StartPlan, CreatePlan, SkipApproval, AwaitApproval,
         BlockMissingApproval, RecordDecision, DenyApproval,
         DispatchExecution, Execute, OpenRecord, WriteRecord, CompleteRun,
         AssembleEvidence, OpenPacket, WritePacket, FinishWorkflow,
         HandleException, Raise, Crash
      <4>2. QED
        BY <2>3, <3>2, <4>1 DEF FilesInv, ResultAt, Reported, Approved
    <3>3. QED
      BY <3>1, <3>2
  <2>8. CompletionStands'
    <3> SUFFICES ASSUME NEW e \in log', e.event = "run_completed"
                 PROVE  state'[e.run] \in Executed \cup {"FAILED"}
      BY DEF CompletionStands
    <3>1. e.run \in Runs /\ state[e.run] \in Executed \cup {"FAILED"}
      BY <2>3 DEF FilesInv, CompletionStands, TypeOK, AuditEvents, Executed
    <3>2. CASE state'[e.run] = state[e.run]
      BY <3>1, <3>2
    <3>3. CASE Table!TransitionAllowed(state[e.run], state'[e.run])
      BY <3>1, <3>3 DEF Table!TransitionAllowed, Table!AllowedNext,
         Table!TerminalStates, Executed
    <3>4. QED
      BY <2>3, <3>1, <3>2, <3>3
  <2>9. QED
    BY <2>5, <2>6, <2>7, <2>8 DEF FilesInv
<1>4. QED
  BY <1>1, <1>2, <1>3 DEF Next

\* Whatever overlaps and whatever dies, a readable evidence packet says no more
\* than audit.jsonl does; and when the runs follow each other, the packet and
\* the run record on disk are whole and are those of the last run that returned.
THEOREM PacketTrueAlways == Spec => []PacketTrue
<1>1. FilesInv => PacketTrue
  BY DEF FilesInv, PacketTrue
<1>2. QED
  BY <1>1, FilesInit, FilesStep, AuditInvariant, GateInit, GateStep,
     SupervisorTypeCorrect, PTL DEF Spec

=============================================================================
