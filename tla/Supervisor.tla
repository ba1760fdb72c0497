------------------------------ MODULE Supervisor ------------------------------
(***************************************************************************)
(* The Multi-Agent Verification Supervisor: Supervisor.run() driven step   *)
(* by step, with the files it keeps under <artifact root>/<task id>.  A    *)
(* member of Runs is one Supervisor object: constructed, run once, ended   *)
(* by a return, by an exception, or by the death of its process.  All runs *)
(* here work on the same task id, so they share audit.jsonl,               *)
(* evidence_packet.json and run_record.json; runs on other tasks share     *)
(* nothing with them.                                                      *)
(*                                                                         *)
(* One step is one audit line, one truncation of a file or one write of    *)
(* its content: what another process, or a crash, can come between.  A     *)
(* backend's answer and the audit line that follows it are one step, since *)
(* backends touch no state of the supervisor.                              *)
(***************************************************************************)
EXTENDS Naturals, FiniteSets

CONSTANTS
    Runs,                 \* Supervisor objects
    Arguments,            \* what run() is called for: see ArgumentSpace
    Proposals,            \* candidates the SVA backend may answer with
    Results,              \* results the orchestrator backend may classify to
    MaxPropertyRetries    \* max_property_retries

\* FormalResult without COMPILED, which the RunRecord validator refuses.
EXECUTION_RESULTS == {"PASS", "FAIL", "TIMEOUT", "ERROR", "UNKNOWN"}

ReviewStates == {"UNREVIEWED", "REVIEWED_OK", "REVIEWED_REJECTED"}
Decisions    == {"none", "approved", "denied"}

\* gates: do the syntax, grounding, clock and reset gates find nothing?
CandidateSpace == [gates : BOOLEAN, review : ReviewStates]

\* flagged: task.requires_human_approval(); given: the approval passed to run().
ArgumentSpace == [flagged : BOOLEAN, given : Decisions]

ASSUME SupervisorAssumption ==
    /\ Arguments \subseteq ArgumentSpace
    /\ Proposals \subseteq CandidateSpace
    /\ Results \subseteq EXECUTION_RESULTS
    /\ MaxPropertyRetries \in Nat

VARIABLES
    pc,          \* pc[r]: the next step of r inside run()
    \* attributes of the Supervisor object, lost with its process
    state,       \* self.state
    seq,         \* self.audit._seq
    attempt,     \* the loop variable of _propose_and_review
    candidate,   \* self.candidate: do the gates other than review find nothing?
    findings,    \* self.validation_findings, by gate
    cuts,        \* self.partition and whether it has cut_assumptions
    plan,        \* self.plan and its needs_human_approval
    approval,    \* self.approval
    result,      \* self.run_record.result
    \* arguments
    flagged,     \* task.requires_human_approval()
    given,       \* the approval passed to run()
    verdict,     \* the review state the proposed candidate arrived with
    \* files of the task
    log,         \* the events of audit.jsonl
    lines,       \* how many lines it has
    packet,      \* evidence_packet.json
    record,      \* run_record.json
    last         \* history: the run constructed last, Mixed once two were alive

memory == <<state, seq, attempt, candidate, findings, cuts, plan, approval,
            result>>
inputs == <<flagged, given, verdict>>
files  == <<log, lines, packet, record>>
vars   == <<pc, memory, inputs, files, last>>

\* Table!TransitionAllowed is assert_transition; Table!TableSpec is what the
\* state machine promises, of which state and Cleared are the image.
Cleared(r) ==
    /\ plan[r] = "free" \/ (plan[r] = "gated" /\ approval[r] = "approved")
    /\ candidate[r].gates
    /\ findings[r] = {}

Table == INSTANCE WorkflowTable
            WITH wf <- state, cleared <- [r \in Runs |-> Cleared(r)]

WorkflowStates == Table!WorkflowStates
Gates          == {"GATE", "REVIEW"}

NoRun  == "nobody"
Mixed  == "several at once"

\* The two words name no run.
ASSUME RunNamesAssumption == NoRun \notin Runs /\ Mixed \notin Runs

Absent == [status |-> "absent"]
Torn   == [status |-> "torn"]

Ended      == {"returned", "raised", "crashed"}
Alive(r)   == pc[r] \notin Ended \cup {"new"}
Newest(r)  == IF last = Mixed THEN Mixed ELSE r

-----------------------------------------------------------------------------
(***************************************************************************)
(* Helpers                                                                 *)
(***************************************************************************)

\* AuditLog.append: one more line, numbered by this process's own counter.
Audit(r, dst, event, detail) ==
    /\ log' = log \cup {[run |-> r, seq |-> seq[r], from |-> state[r],
                         to |-> dst, event |-> event, detail |-> detail]}
    /\ lines' = lines + 1
    /\ seq' = [seq EXCEPT ![r] = @ + 1]

\* An audit line that reports something without a transition.
Note(r, event, detail) ==
    /\ Audit(r, state[r], event, detail)
    /\ UNCHANGED <<state, packet, record>>

\* _go: assert_transition, then the audit line, then the assignment.
Go(r, dst, event) ==
    /\ Table!TransitionAllowed(state[r], dst)
    /\ Audit(r, dst, event, "-")
    /\ state' = [state EXCEPT ![r] = dst]
    /\ UNCHANGED <<packet, record>>

At(r, from, to) ==
    /\ pc[r] = from
    /\ pc' = [pc EXCEPT ![r] = to]

\* validate_property: check_syntax, check_grounding and check_clock_reset are
\* the one gate "GATE" here, check_review is "REVIEW".
ValidateProperty(c) ==
    (IF c.gates THEN {} ELSE {"GATE"})
        \cup (IF c.review = "REVIEWED_OK" THEN {} ELSE {"REVIEW"})

\* The mock review: a candidate with no finding but REVIEW becomes REVIEWED_OK,
\* whatever review state it came with.
Reviewed(c) ==
    IF ValidateProperty(c) \subseteq {"REVIEW"}
    THEN [gates |-> c.gates, review |-> "REVIEWED_OK"]
    ELSE c

\* Mutation: the gate looks at the task's flags and forgets the partition cuts.
NeedsApprovalByFlagOnly(r) == flagged[r]

\* _needs_human_approval
NeedsHumanApproval(r) == flagged[r] \/ cuts[r] = "obligations"

\* _recommend_next
RecommendNext(st, res) ==
    IF st = "REJECTED" THEN "resubmit"
    ELSE IF res = "none" THEN "review_workflow"
    ELSE IF res = "PASS" THEN "human_review"
    ELSE IF res = "FAIL" THEN "triage"
    ELSE IF res \in {"TIMEOUT", "UNKNOWN"} THEN "escalate"
    ELSE "investigate"

\* _build_packet
BuildPacket(r, final) ==
    [status |-> "whole", run |-> r, final |-> final, findings |-> findings[r],
     plan |-> plan[r], approval |-> approval[r], result |-> result[r],
     next |-> RecommendNext(state[r], result[r])]

\* What write_json leaves of a file: its content, unless another process wrote
\* the file after this one truncated it, when the two texts may be mixed.
Written(file, content) == IF file = Torn THEN {content} ELSE {content, Torn}

-----------------------------------------------------------------------------

Init ==
    /\ pc = [r \in Runs |-> "new"]
    /\ state = [r \in Runs |-> "CREATED"]
    /\ seq = [r \in Runs |-> 0]
    /\ attempt = [r \in Runs |-> 0]
    /\ candidate = [r \in Runs |-> [gates |-> FALSE, review |-> "UNREVIEWED"]]
    /\ findings = [r \in Runs |-> {}]
    /\ cuts = [r \in Runs |-> "none"]
    /\ plan = [r \in Runs |-> "none"]
    /\ approval = [r \in Runs |-> "none"]
    /\ result = [r \in Runs |-> "none"]
    /\ flagged = [r \in Runs |-> FALSE]
    /\ given = [r \in Runs |-> "none"]
    /\ verdict = [r \in Runs |-> "UNREVIEWED"]
    /\ log = {}
    /\ lines = 0
    /\ packet = Absent
    /\ record = Absent
    /\ last = NoRun

\* Mutation: the numbering starts from 0 although the file has lines.
ConstructWithoutResume(r) ==
    /\ At(r, "new", "ingest")
    /\ \E a \in Arguments : /\ flagged' = [flagged EXCEPT ![r] = a.flagged]
                            /\ given' = [given EXCEPT ![r] = a.given]
    /\ last' = IF \E q \in Runs : Alive(q) THEN Mixed ELSE Newest(r)
    /\ UNCHANGED <<memory, verdict, files>>

\* __init__: the audit log resumes its numbering from the lines it finds.
Construct(r) ==
    /\ At(r, "new", "ingest")
    /\ seq' = [seq EXCEPT ![r] = lines]
    /\ \E a \in Arguments : /\ flagged' = [flagged EXCEPT ![r] = a.flagged]
                            /\ given' = [given EXCEPT ![r] = a.given]
    /\ last' = IF \E q \in Runs : Alive(q) THEN Mixed ELSE Newest(r)
    /\ UNCHANGED <<state, attempt, candidate, findings, cuts, plan, approval,
                   result, verdict, files>>

\* _ingest dispatches the ingestor ...
DispatchIngestion(r) ==
    /\ At(r, "ingest", "ingesting")
    /\ Go(r, "RTL_INGESTION", "dispatch_rtl_ingestion")
    /\ UNCHANGED <<attempt, candidate, findings, cuts, plan, approval, result,
                   inputs, last>>

\* ... and takes its manifest.
ReceiveManifest(r) ==
    /\ At(r, "ingesting", "propose")
    /\ Note(r, "rtl_manifest_received", "-")
    /\ UNCHANGED <<attempt, candidate, findings, cuts, plan, approval, result,
                   inputs, last>>

\* _propose_and_review asks for a candidate.
RequestCandidate(r) ==
    /\ At(r, "propose", "proposing")
    /\ Go(r, "SVA_PROPOSAL", "request_sva_candidate")
    /\ UNCHANGED <<attempt, candidate, findings, cuts, plan, approval, result,
                   inputs, last>>

\* The SVA backend answers with a candidate of any quality and review state.
ReceiveCandidate(r) ==
    /\ At(r, "proposing", "review")
    /\ \E c \in Proposals :
          /\ candidate' = [candidate EXCEPT ![r] = c]
          /\ verdict' = [verdict EXCEPT ![r] = c.review]
    /\ Note(r, "sva_candidate_received", "-")
    /\ UNCHANGED <<attempt, findings, cuts, plan, approval, result, flagged,
                   given, last>>

EnterReview(r) ==
    /\ At(r, "review", "gating")
    /\ Go(r, "PROPERTY_REVIEW", "enter_property_review")
    /\ UNCHANGED <<attempt, candidate, findings, cuts, plan, approval, result,
                   inputs, last>>

\* The gates and the mock review; a clean candidate is accepted.
AcceptProperty(r) ==
    /\ At(r, "gating", "partition")
    /\ ValidateProperty(Reviewed(candidate[r])) = {}
    /\ candidate' = [candidate EXCEPT ![r] = Reviewed(@)]
    /\ findings' = [findings EXCEPT ![r] = {}]
    /\ Note(r, "property_accepted", "-")
    /\ UNCHANGED <<attempt, cuts, plan, approval, result, inputs, last>>

\* A finding is left: the candidate fails this attempt.
FailGate(r) ==
    /\ At(r, "gating", "retry")
    /\ ValidateProperty(Reviewed(candidate[r])) # {}
    /\ candidate' = [candidate EXCEPT ![r] = Reviewed(@)]
    /\ findings' = [findings EXCEPT ![r] = ValidateProperty(candidate'[r])]
    /\ Note(r, "property_gate_failed", "-")
    /\ UNCHANGED <<attempt, cuts, plan, approval, result, inputs, last>>

\* The loop goes on while attempt < max_property_retries.
RetryCandidate(r) ==
    /\ At(r, "retry", "proposing")
    /\ attempt[r] < MaxPropertyRetries
    /\ attempt' = [attempt EXCEPT ![r] = @ + 1]
    /\ Go(r, "SVA_PROPOSAL", "retry_sva_candidate")
    /\ UNCHANGED <<candidate, findings, cuts, plan, approval, result, inputs,
                   last>>

\* Mutation: run() returns without _finish_rejected.
RejectWithoutPacket(r) ==
    /\ At(r, "retry", "returned")
    /\ attempt[r] >= MaxPropertyRetries
    /\ Go(r, "REJECTED", "reject_property")
    /\ UNCHANGED <<attempt, candidate, findings, cuts, plan, approval, result,
                   inputs, last>>

\* The loop is exhausted.
RejectProperty(r) ==
    /\ At(r, "retry", "reject_open")
    /\ attempt[r] >= MaxPropertyRetries
    /\ Go(r, "REJECTED", "reject_property")
    /\ UNCHANGED <<attempt, candidate, findings, cuts, plan, approval, result,
                   inputs, last>>

RequestPartition(r) ==
    /\ At(r, "partition", "partitioning")
    /\ Go(r, "PARTITION_ANALYSIS", "request_partition_analysis")
    /\ UNCHANGED <<attempt, candidate, findings, cuts, plan, approval, result,
                   inputs, last>>

\* The partition backend answers, with unproven cut obligations or without.
ReceivePartition(r) ==
    /\ At(r, "partitioning", "plan")
    /\ \E c \in {"empty", "obligations"} : cuts' = [cuts EXCEPT ![r] = c]
    /\ Note(r, "partition_report_received", "-")
    /\ UNCHANGED <<attempt, candidate, findings, plan, approval, result,
                   inputs, last>>

StartPlan(r) ==
    /\ At(r, "plan", "planning")
    /\ Go(r, "PLAN_EXPERIMENT", "create_experiment_plan")
    /\ UNCHANGED <<attempt, candidate, findings, cuts, plan, approval, result,
                   inputs, last>>

\* The plan records whether a human has to approve it.
CreatePlan(r) ==
    /\ At(r, "planning", "gate")
    /\ LET p == IF NeedsHumanApproval(r) THEN "gated" ELSE "free" IN
          /\ plan' = [plan EXCEPT ![r] = p]
          /\ Note(r, "experiment_plan_created", p)
    /\ UNCHANGED <<attempt, candidate, findings, cuts, approval, result,
                   inputs, last>>

\* Mutation: the gate lets every plan through.
SkipApprovalAlways(r) ==
    /\ At(r, "gate", "execute")
    /\ UNCHANGED <<memory, inputs, files, last>>

\* _approval_gate: a plan no human has to approve goes straight to execution.
SkipApproval(r) ==
    /\ At(r, "gate", "execute")
    /\ plan[r] # "gated"
    /\ UNCHANGED <<memory, inputs, files, last>>

AwaitApproval(r) ==
    /\ At(r, "gate", "decide")
    /\ plan[r] = "gated"
    /\ Go(r, "AWAITING_HUMAN_APPROVAL", "await_human_approval")
    /\ UNCHANGED <<attempt, candidate, findings, cuts, plan, approval, result,
                   inputs, last>>

\* Mutation: only a flagged task is blocked; one gated by its partition waits.
BlockFlaggedOnly(r) ==
    /\ At(r, "decide", "reject_open")
    /\ given[r] = "none" /\ flagged[r]
    /\ Go(r, "REJECTED", "blocked_missing_approval")
    /\ UNCHANGED <<attempt, candidate, findings, cuts, plan, approval, result,
                   inputs, last>>

\* A plan that needs an approval and has none is rejected.
BlockMissingApproval(r) ==
    /\ At(r, "decide", "reject_open")
    /\ given[r] = "none"
    /\ Go(r, "REJECTED", "blocked_missing_approval")
    /\ UNCHANGED <<attempt, candidate, findings, cuts, plan, approval, result,
                   inputs, last>>

\* Mutation: a decision is taken for an approval.
RecordDecisionUnread(r) ==
    /\ At(r, "decide", "execute")
    /\ given[r] # "none"
    /\ approval' = [approval EXCEPT ![r] = given[r]]
    /\ Note(r, "human_decision", given[r])
    /\ UNCHANGED <<attempt, candidate, findings, cuts, plan, result, inputs,
                   last>>

RecordDecision(r) ==
    /\ At(r, "decide", IF given[r] = "approved" THEN "execute" ELSE "deny")
    /\ given[r] # "none"
    /\ approval' = [approval EXCEPT ![r] = given[r]]
    /\ Note(r, "human_decision", given[r])
    /\ UNCHANGED <<attempt, candidate, findings, cuts, plan, result, inputs,
                   last>>

DenyApproval(r) ==
    /\ At(r, "deny", "reject_open")
    /\ Go(r, "REJECTED", "approval_denied")
    /\ UNCHANGED <<attempt, candidate, findings, cuts, plan, approval, result,
                   inputs, last>>

DispatchExecution(r) ==
    /\ At(r, "execute", "executing")
    /\ Go(r, "EXECUTION", "dispatch_execution")
    /\ UNCHANGED <<attempt, candidate, findings, cuts, plan, approval, result,
                   inputs, last>>

\* The orchestrator backend runs an approved request; it raises PermissionError
\* on one that is not (Raise covers it).
Approved(r) == plan[r] # "gated" \/ approval[r] = "approved"

\* Mutation: the RunRecord validator lets COMPILED pass for an outcome.
ExecuteUnvalidated(r) ==
    /\ At(r, "executing", "record_open")
    /\ Approved(r)
    /\ \E res \in Results \cup {"COMPILED"} :
          result' = [result EXCEPT ![r] = res]
    /\ UNCHANGED <<state, seq, attempt, candidate, findings, cuts, plan,
                   approval, inputs, files, last>>

Execute(r) ==
    /\ At(r, "executing", "record_open")
    /\ Approved(r)
    /\ \E res \in Results : result' = [result EXCEPT ![r] = res]
    /\ UNCHANGED <<state, seq, attempt, candidate, findings, cuts, plan,
                   approval, inputs, files, last>>

\* write_json(run_record.json): write_text truncates the file, then fills it.
OpenRecord(r) ==
    /\ At(r, "record_open", "record_write")
    /\ record' = Torn
    /\ UNCHANGED <<memory, inputs, log, lines, packet, last>>

WriteRecord(r) ==
    /\ At(r, "record_write", "completed")
    /\ record' \in Written(record, [status |-> "whole", run |-> r,
                                    result |-> result[r]])
    /\ UNCHANGED <<memory, inputs, log, lines, packet, last>>

CompleteRun(r) ==
    /\ At(r, "completed", "assemble")
    /\ Note(r, "run_completed", result[r])
    /\ UNCHANGED <<attempt, candidate, findings, cuts, plan, approval, result,
                   inputs, last>>

AssembleEvidence(r) ==
    /\ At(r, "assemble", "packet_open")
    /\ Go(r, "EVIDENCE_ASSEMBLY", "assemble_evidence")
    /\ UNCHANGED <<attempt, candidate, findings, cuts, plan, approval, result,
                   inputs, last>>

\* write_json(evidence_packet.json), here before the workflow is DONE, at
\* "restamp" once more after it, at "reject" for a rejected workflow.
OpenPacket(r) ==
    /\ \/ At(r, "packet_open", "packet_write")
       \/ At(r, "restamp_open", "restamp_write")
       \/ At(r, "reject_open", "reject_write")
    /\ packet' = Torn
    /\ UNCHANGED <<memory, inputs, log, lines, record, last>>

WritePacket(r) ==
    /\ \/ /\ \/ At(r, "packet_write", "finish")
             \/ At(r, "restamp_write", "returned")
          /\ packet' \in Written(packet, BuildPacket(r, "DONE"))
       \/ /\ At(r, "reject_write", "returned")
          /\ packet' \in Written(packet, BuildPacket(r, "REJECTED"))
    /\ UNCHANGED <<memory, inputs, log, lines, record, last>>

FinishWorkflow(r) ==
    /\ At(r, "finish", "restamp_open")
    /\ Go(r, "DONE", "workflow_done")
    /\ UNCHANGED <<attempt, candidate, findings, cuts, plan, approval, result,
                   inputs, last>>

\* An exception out of a backend, a validator or a file operation.
Raise(r) ==
    /\ Alive(r)
    /\ At(r, pc[r], "handling")
    /\ pc[r] # "handling"
    /\ UNCHANGED <<memory, inputs, files, last>>

\* The handler of run(): FAILED is recorded, unless the workflow has ended or
\* the audit line cannot be written either, and the exception goes on.
HandleException(r) ==
    /\ At(r, "handling", "raised")
    /\ \/ /\ state[r] \notin Table!TerminalStates
          /\ Audit(r, "FAILED", "workflow_exception", "-")
          /\ state' = [state EXCEPT ![r] = "FAILED"]
       \/ UNCHANGED <<log, lines, seq, state>>
    /\ UNCHANGED <<attempt, candidate, findings, cuts, plan, approval, result,
                   inputs, packet, record, last>>

\* The process dies: its object is gone, its files stay as they are.
Crash(r) ==
    /\ Alive(r)
    /\ At(r, pc[r], "crashed")
    /\ UNCHANGED <<memory, inputs, files, last>>

-----------------------------------------------------------------------------

\* A step of run() itself, in the order of its calls.
Step(r) ==
    \/ DispatchIngestion(r)  \/ ReceiveManifest(r)
    \/ RequestCandidate(r)   \/ ReceiveCandidate(r) \/ EnterReview(r)
    \/ AcceptProperty(r)     \/ FailGate(r)
    \/ RetryCandidate(r)     \/ RejectProperty(r)
    \/ RequestPartition(r)   \/ ReceivePartition(r)
    \/ StartPlan(r)          \/ CreatePlan(r)
    \/ SkipApproval(r)       \/ AwaitApproval(r)    \/ BlockMissingApproval(r)
    \/ RecordDecision(r)     \/ DenyApproval(r)
    \/ DispatchExecution(r)  \/ Execute(r)
    \/ OpenRecord(r)         \/ WriteRecord(r)      \/ CompleteRun(r)
    \/ AssembleEvidence(r)   \/ OpenPacket(r)       \/ WritePacket(r)
    \/ FinishWorkflow(r)     \/ HandleException(r)

Next == \E r \in Runs : Construct(r) \/ Step(r) \/ Raise(r) \/ Crash(r)

Spec == Init /\ [][Next]_vars

\* run() is straight-line code between blocking calls that return or raise, so
\* a run that is not killed keeps taking its next step.
FairSpec == Spec /\ \A r \in Runs : WF_vars(Step(r))

-----------------------------------------------------------------------------
(***************************************************************************)
(* Properties                                                              *)
(***************************************************************************)

Locations ==
    {"new", "ingest", "ingesting", "propose", "proposing", "review", "gating",
     "retry", "partition", "partitioning", "plan", "planning", "gate",
     "decide", "deny", "execute", "executing", "record_open", "record_write",
     "completed", "assemble", "packet_open", "packet_write", "finish",
     "restamp_open", "restamp_write", "reject_open", "reject_write",
     "handling"} \cup Ended

Events ==
    {"dispatch_rtl_ingestion", "rtl_manifest_received",
     "request_sva_candidate", "sva_candidate_received",
     "enter_property_review", "property_accepted", "property_gate_failed",
     "retry_sva_candidate", "reject_property", "request_partition_analysis",
     "partition_report_received", "create_experiment_plan",
     "experiment_plan_created", "await_human_approval",
     "blocked_missing_approval", "human_decision", "approval_denied",
     "dispatch_execution", "run_completed", "assemble_evidence",
     "workflow_done", "workflow_exception"}

OptResults == EXECUTION_RESULTS \cup {"none"}

Details == {"-", "free", "gated", "approved", "denied"} \cup OptResults

AuditEvents ==
    [run : Runs, seq : Nat, from : WorkflowStates, to : WorkflowStates,
     event : Events, detail : Details]

Packets ==
    [status : {"whole"}, run : Runs, final : {"DONE", "REJECTED"},
     findings : SUBSET Gates, plan : {"none", "free", "gated"},
     approval : Decisions, result : OptResults,
     next : {"resubmit", "review_workflow", "human_review", "triage",
             "escalate", "investigate"}]

Records == [status : {"whole"}, run : Runs, result : OptResults]

\* Every variable has its type; in particular no run record, log line or packet
\* ever holds COMPILED, the front end's verdict, as the result of a run.
TypeOK ==
    /\ pc \in [Runs -> Locations]
    /\ state \in [Runs -> WorkflowStates]
    /\ seq \in [Runs -> Nat]
    /\ attempt \in [Runs -> Nat]
    /\ candidate \in [Runs -> CandidateSpace]
    /\ findings \in [Runs -> SUBSET Gates]
    /\ cuts \in [Runs -> {"none", "empty", "obligations"}]
    /\ plan \in [Runs -> {"none", "free", "gated"}]
    /\ approval \in [Runs -> Decisions]
    /\ result \in [Runs -> OptResults]
    /\ flagged \in [Runs -> BOOLEAN]
    /\ given \in [Runs -> Decisions]
    /\ verdict \in [Runs -> ReviewStates]
    /\ log \subseteq AuditEvents
    /\ lines \in Nat
    /\ packet \in Packets \cup {Absent, Torn}
    /\ record \in Records \cup {Absent, Torn}
    /\ last \in Runs \cup {NoRun, Mixed}

\* A workflow that has reached EXECUTION had a candidate the gates find nothing
\* about, and, when its task affects assumptions, abstraction, budget or proof
\* scope or its partition has cut obligations, an approving human decision:
\* the rejection gates and the approval checkpoint of the README.
ExecutionCleared ==
    \A r \in Runs :
        state[r] \in {"EXECUTION", "EVIDENCE_ASSEMBLY", "DONE"} =>
            /\ candidate[r].gates
            /\ candidate[r].review = "REVIEWED_OK"
            /\ flagged[r] \/ cuts[r] = "obligations" => given[r] = "approved"

\* The audit log alone shows why an execution was dispatched: an earlier line of
\* the same run reports a plan that needs no approval, or the approval.
AuditJustifiesExecution ==
    \A e \in log : e.event = "dispatch_execution" =>
        \E f \in log :
            /\ f.run = e.run
            /\ f.seq < e.seq
            /\ \/ f.event = "experiment_plan_created" /\ f.detail = "free"
               \/ f.event = "human_decision" /\ f.detail = "approved"

\* No two lines of a task's audit log have the same seq, over crashes and
\* reruns, as long as the task's runs follow each other.
SeqUnique ==
    last # Mixed => \A e, f \in log : e.seq = f.seq => e = f

\* The lines one run wrote form one path through ALLOWED_TRANSITIONS: each line
\* starts in the state the run's previous line ended in, the first in CREATED,
\* and nothing follows a terminal state, the failure lines included.
LinesChained ==
    \A e \in log :
        /\ e.from # e.to => Table!TransitionAllowed(e.from, e.to)
        /\ e.from \notin Table!TerminalStates
        /\ \/ \E f \in log :
                 f.run = e.run /\ f.seq + 1 = e.seq /\ f.to = e.from
           \/ /\ e.from = "CREATED"
              /\ \A f \in log : f.run = e.run => f.seq >= e.seq

\* The audit log is a history: its numbers tell its lines apart, and the lines of each
\* run are one path of the workflow.
AuditChained == SeqUnique /\ LinesChained

\* A readable evidence packet says what the audit log says: DONE with a result
\* only if that run logged the very result of an execution that was approved
\* when it had to be, REJECTED only if it logged a rejection and no result; and
\* only a PASS is passed on for a signoff review.
PacketBacked ==
    packet.status = "whole" =>
        /\ packet.final = "DONE" =>
              /\ \E e \in log : /\ e.run = packet.run
                                /\ e.event = "run_completed"
                                /\ e.detail = packet.result
              /\ packet.findings = {}
              /\ packet.plan = "gated" => packet.approval = "approved"
        /\ packet.final = "REJECTED" =>
              /\ \E e \in log : e.run = packet.run /\ e.to = "REJECTED"
              /\ \A e \in log : e.run = packet.run => e.event # "run_completed"
        /\ packet.next = "human_review" <=> packet.result = "PASS"

\* When runs follow each other, what a run that returned leaves in the task's
\* directory is its own: the packet names its final state, and, if it executed,
\* run_record.json is the provenance of the result in the packet.
LastRunOnDisk ==
    last \in Runs /\ pc[last] = "returned" =>
        /\ packet.status = "whole"
        /\ packet.run = last
        /\ packet.final = state[last]
        /\ packet.result # "none" =>
              /\ record.status = "whole"
              /\ record.run = last
              /\ record.result = packet.result

\* The files a run leaves are true: a packet of whichever run says no more than the log,
\* and without an overlap it is the whole and the last run's.
PacketTrue == PacketBacked /\ LastRunOnDisk

\* Supervisor.run drives the state only as state_machine.py allows.
ImplementsTable == Table!TableSpec

\* A run that is not killed ends: with a packet or with an exception.  It waits
\* for nobody, retries a bounded number of times and attempts no transition
\* that assert_transition would refuse.
RunEnds == \A r \in Runs : (pc[r] = "ingest") ~> (pc[r] \in Ended)

-----------------------------------------------------------------------------
(***************************************************************************)
(* Why ExecutionCleared and ImplementsTable hold: the inductive invariant  *)
(***************************************************************************)

BeforeExecution ==
    {"new", "ingest", "ingesting", "propose", "proposing", "review", "gating",
     "retry", "partition", "partitioning", "plan", "planning", "gate",
     "decide", "deny", "execute"}

Unplanned ==
    {"new", "ingest", "ingesting", "propose", "proposing", "review", "gating",
     "retry", "partition", "partitioning", "plan", "planning"}

PastReview ==
    {"partition", "partitioning", "plan", "planning", "gate", "decide", "deny",
     "execute"}

Executed == {"EXECUTION", "EVIDENCE_ASSEMBLY", "DONE"}

\* An approval obligation of the workflow's inputs has been met.
ObligationMet(r) ==
    flagged[r] \/ cuts[r] = "obligations" => given[r] = "approved"

Eligible(r) ==
    /\ candidate[r].gates
    /\ candidate[r].review = "REVIEWED_OK"
    /\ findings[r] = {}

\* What control at each location of run() implies about the object.
GateInvAt(r) ==
    /\ pc[r] \in BeforeExecution => state[r] \notin Executed
    /\ pc[r] \in Unplanned => plan[r] = "none"
    /\ pc[r] \in PastReview => Eligible(r)
    /\ pc[r] = "planning" => state[r] = "PLAN_EXPERIMENT"
    /\ pc[r] \in {"executing", "record_open", "record_write", "completed",
                  "assemble"} => state[r] = "EXECUTION"
    /\ pc[r] \in {"packet_open", "packet_write", "finish"} =>
           state[r] = "EVIDENCE_ASSEMBLY"
    /\ pc[r] = "decide" => /\ state[r] = "AWAITING_HUMAN_APPROVAL"
                           /\ plan[r] = "gated"
    /\ pc[r] = "gate" => plan[r] # "none"
    /\ pc[r] \in {"gate", "execute"} /\ plan[r] = "free" => ObligationMet(r)
    /\ pc[r] \in Unplanned \cup {"gate", "decide"} => approval[r] = "none"
    /\ pc[r] = "execute" => Cleared(r)
    /\ state[r] \in Executed => Eligible(r) /\ ObligationMet(r)
    /\ approval[r] \in {"none", given[r]}

GateInv == \A r \in Runs : GateInvAt(r)

-----------------------------------------------------------------------------
(***************************************************************************)
(* What the documentation says and the code does not do: see the README    *)
(***************************************************************************)

\* evidence_packet.json is "the final evidence packet", and every transition is
\* in the audit log: a packet that says DONE is of a run that logged DONE.
DonePacketAudited ==
    packet.status = "whole" /\ packet.final = "DONE" =>
        \E e \in log : e.run = packet.run /\ e.to = "DONE"

\* The README's gate table: a candidate whose review state is REVIEWED_REJECTED
\* is never executed.
RejectionStands ==
    \A r \in Runs : state[r] = "EXECUTION" => verdict[r] # "REVIEWED_REJECTED"

=============================================================================
