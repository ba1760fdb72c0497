---------------------------- MODULE WorkflowTable ----------------------------
(***************************************************************************)
(* What state_machine.py of the Multi-Agent Verification Supervisor        *)
(* promises about one workflow, whatever drives it: the state moves only   *)
(* along ALLOWED_TRANSITIONS, a terminal state is final, and EXECUTION is  *)
(* entered only by a workflow that has been cleared, which happens while   *)
(* its experiment is planned or awaits a human and is never taken back.    *)
(* Supervisor.tla, the translation of the driver, is shown to implement    *)
(* this specification.                                                     *)
(***************************************************************************)

CONSTANT Runs          \* the workflows, one per Supervisor object

VARIABLES
    wf,                \* wf[r]: the WorkflowState of workflow r
    cleared            \* cleared[r]: r may enter EXECUTION

tableVars == <<wf, cleared>>

WorkflowStates ==
    {"CREATED", "RTL_INGESTION", "SVA_PROPOSAL", "PROPERTY_REVIEW",
     "PARTITION_ANALYSIS", "PLAN_EXPERIMENT", "AWAITING_HUMAN_APPROVAL",
     "EXECUTION", "EVIDENCE_ASSEMBLY", "DONE", "REJECTED", "FAILED"}

TerminalStates == {"DONE", "REJECTED", "FAILED"}

\* ALLOWED_TRANSITIONS, one line per entry of the dictionary.  The entry of
\* every state that is not terminal holds FAILED.
AllowedNext(src, dst) ==
    \/ src = "CREATED"            /\ dst \in {"RTL_INGESTION", "FAILED",
                                              "REJECTED"}
    \/ src = "RTL_INGESTION"      /\ dst \in {"SVA_PROPOSAL", "FAILED",
                                              "REJECTED"}
    \/ src = "SVA_PROPOSAL"       /\ dst \in {"PROPERTY_REVIEW", "FAILED",
                                              "REJECTED"}
    \/ src = "PROPERTY_REVIEW"    /\ dst \in {"PARTITION_ANALYSIS",
                                              "SVA_PROPOSAL", "REJECTED",
                                              "FAILED"}
    \/ src = "PARTITION_ANALYSIS" /\ dst \in {"PLAN_EXPERIMENT", "FAILED",
                                              "REJECTED"}
    \/ src = "PLAN_EXPERIMENT"    /\ dst \in {"AWAITING_HUMAN_APPROVAL",
                                              "EXECUTION", "FAILED",
                                              "REJECTED"}
    \/ src = "AWAITING_HUMAN_APPROVAL" /\ dst \in {"EXECUTION", "REJECTED",
                                                   "FAILED"}
    \/ src = "EXECUTION"          /\ dst \in {"EVIDENCE_ASSEMBLY", "FAILED"}
    \/ src = "EVIDENCE_ASSEMBLY"  /\ dst \in {"DONE", "FAILED"}

\* assert_transition raises ProhibitedTransition exactly when this is false.
TransitionAllowed(src, dst) ==
    /\ src \notin TerminalStates
    /\ AllowedNext(src, dst)

-----------------------------------------------------------------------------

TableInit ==
    /\ wf = [r \in Runs |-> "CREATED"]
    /\ cleared = [r \in Runs |-> FALSE]

\* A workflow takes one allowed transition.
Move(r) ==
    /\ \E dst \in WorkflowStates :
          /\ TransitionAllowed(wf[r], dst)
          /\ dst = "EXECUTION" => cleared[r]
          /\ wf' = [wf EXCEPT ![r] = dst]
    /\ UNCHANGED cleared

\* A workflow that is being planned, or waits for a human, is cleared.
Clear(r) ==
    /\ wf[r] \in {"PLAN_EXPERIMENT", "AWAITING_HUMAN_APPROVAL"}
    /\ cleared' = [cleared EXCEPT ![r] = TRUE]
    /\ UNCHANGED wf

TableNext == \E r \in Runs : Move(r) \/ Clear(r)

TableSpec == TableInit /\ [][TableNext]_tableVars

=============================================================================
