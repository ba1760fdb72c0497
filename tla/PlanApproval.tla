----------------------------- MODULE PlanApproval -----------------------------
(***************************************************************************)
(* The plan file of verification-plan-agent: `vplan plan` drafts it from   *)
(* the requirements, reviewers hand decisions files to `vplan approve`,    *)
(* and both, like `vplan report`, may leave a Markdown report.  Several    *)
(* commands run at once on the one file, which each reads as a whole and   *)
(* later writes as a whole, and any of them may die on the way.            *)
(*                                                                         *)
(* A draft is kept as the approval state of its items.  What is written    *)
(* about an item (names, risk, sketches, the matrix) never changes after   *)
(* the draft.  The text of a file reaches it in one step unless the        *)
(* command dies in it, which leaves a torn file no command can read.  The  *)
(* file is approved in place; a plan written elsewhere is another plan.    *)
(***************************************************************************)
EXTENDS Integers, Sequences, FiniteSetsExt

CONSTANTS
    Vplan,           \* the vplan processes that may run at once
    Specs,           \* the specs: per requirement, its category
    DecisionFiles,   \* what reviewers write: sequences of decisions
    MaxApprovals,    \* how many decisions files one plan is given
    NoFile, TornFile \* a file that is not there; one cut off in the middle

VARIABLES
    spec,         \* the categories of the requirements, in their order
    planFile,     \* the plan JSON
    reportFile,   \* the plan the Markdown report was rendered from
    vplan         \* per process: where it is, the plan it holds and was given

planVars == <<spec, planFile, reportFile, vplan>>

-----------------------------------------------------------------------------
\* _CATEGORY_TECHNIQUES: what is recommended for a requirement of a category.
CategoryTechniques ==
  [functional     |-> <<"directed_sim", "constrained_random", "sva", "cover">>,
   performance    |-> <<"constrained_random", "emulation", "cover", "post_silicon">>,
   reset          |-> <<"directed_sim", "formal", "sva">>,
   error_handling |-> <<"directed_sim", "constrained_random", "sva", "formal">>,
   security       |-> <<"formal", "sva", "directed_sim">>,
   low_power      |-> <<"directed_sim", "formal", "emulation">>,
   cdc_rdc        |-> <<"formal", "sva", "cover">>,
   integration    |-> <<"constrained_random", "emulation", "directed_sim", "post_silicon">>]

\* The ids of what build_children derives from the feature of requirement n: a
\* scenario per technique, and one assertion and one coverage target when a
\* technique asks for it.
Children(n, category) ==
    LET techniques == CategoryTechniques[category]
        uses(ts) == \E j \in DOMAIN techniques : techniques[j] \in ts
    IN  {<<"SCN", n, j>> : j \in DOMAIN techniques}
        \cup (IF uses({"sva", "formal"}) THEN {<<"ASRT", n, 1>>} ELSE {})
        \cup (IF uses({"cover", "constrained_random"}) THEN {<<"COV", n, 1>>} ELSE {})

\* All items of the plan: one feature and one plan item per requirement.
ItemsOf(categories) ==
    UNION {{<<"FEAT", n, 1>>, <<"PLAN", n, 1>>} \cup Children(n, categories[n]) :
              n \in DOMAIN categories}

PlanItems == ItemsOf(spec)

ApprovalStates == {"proposed", "approved", "rejected"}

\* A plan is the approval states of its items; given keeps, for the properties
\* only, the decisions files it was given so far.
Plans(categories) ==
    [approval : [ItemsOf(categories) -> ApprovalStates], given : Seq(DecisionFiles)]

\* A decisions file is a list of decisions, and no plan is a missing or torn file.
ASSUME PlanAssumption ==
    /\ \A decisions \in DecisionFiles :
          /\ decisions \in Seq({decisions[k] : k \in DOMAIN decisions})
          /\ \A k \in DOMAIN decisions : decisions[k].decision \in ApprovalStates
    /\ \A categories \in Specs :
          NoFile \notin Plans(categories) /\ TornFile \notin Plans(categories)

BuildPlan == [approval |-> [id \in PlanItems |-> "proposed"], given |-> <<>>]

\* Mutation: an earlier entry for an item is kept.
DecisionsByIdFirst(decisions) ==
    [id \in {decisions[k].item_id : k \in DOMAIN decisions} |->
        decisions[Min({k \in DOMAIN decisions : decisions[k].item_id = id})].decision]

\* The dictionary of decisions: a later entry for an item replaces an earlier.
DecisionsById(decisions) ==
    [id \in {decisions[k].item_id : k \in DOMAIN decisions} |->
        decisions[Max({k \in DOMAIN decisions : decisions[k].item_id = id})].decision]

\* Mutation: decisions are applied to items already decided.
ApplyDecisionsAgain(plan, decisions) ==
    LET byId == DecisionsById(decisions)
    IN  [approval |-> [id \in DOMAIN plan.approval |->
                         IF id \in DOMAIN byId THEN byId[id] ELSE plan.approval[id]],
         given |-> Append(plan.given, decisions)]

\* apply_decisions: the items still proposed take the state decided for them.
ApplyDecisions(plan, decisions) ==
    LET byId == DecisionsById(decisions)
    IN  [approval |-> [id \in DOMAIN plan.approval |->
                         IF id \in DOMAIN byId /\ plan.approval[id] = "proposed"
                         THEN byId[id] ELSE plan.approval[id]],
         given |-> Append(plan.given, decisions)]

-----------------------------------------------------------------------------
Idle == [at |-> "idle", base |-> NoFile, plan |-> NoFile, markdown |-> FALSE]

PlanInit ==
    /\ spec \in Specs
    /\ planFile = NoFile /\ reportFile = NoFile
    /\ vplan = [p \in Vplan |-> Idle]

Readable == planFile \notin {NoFile, TornFile}

\* What plan and approve end with: the plan in hand is to be written (--out), to
\* be rendered (--markdown), or both; a command with neither only prints.
Emit(p, base, plan) ==
    \E out, markdown \in BOOLEAN :
       /\ out \/ markdown
       /\ vplan' = [vplan EXCEPT ![p] =
                      [at |-> IF out THEN "emit" ELSE "render",
                       base |-> base, plan |-> plan, markdown |-> markdown]]

\* vplan plan: drafts the plan anew, whatever is on file.
Draft(p) ==
    /\ vplan[p] = Idle
    /\ Emit(p, NoFile, BuildPlan)
    /\ UNCHANGED <<spec, planFile, reportFile>>

\* vplan approve: reads the plan and the decisions, and applies them to its copy.
Approve(p, decisions) ==
    /\ vplan[p] = Idle /\ Readable
    /\ Len(planFile.given) < MaxApprovals
    /\ Emit(p, planFile, ApplyDecisions(planFile, decisions))
    /\ UNCHANGED <<spec, planFile, reportFile>>

\* vplan report: reads the plan to render it.
Render(p) ==
    /\ vplan[p] = Idle /\ Readable
    /\ vplan' = [vplan EXCEPT ![p] = [at |-> "render", base |-> planFile,
                                      plan |-> planFile, markdown |-> TRUE]]
    /\ UNCHANGED <<spec, planFile, reportFile>>

\* _emit: the JSON replaces the file, whatever it holds by now ...
EmitPlan(p) ==
    /\ vplan[p].at = "emit"
    /\ planFile' = vplan[p].plan
    /\ vplan' = [vplan EXCEPT ![p] =
                   IF vplan[p].markdown THEN [vplan[p] EXCEPT !.at = "render"] ELSE Idle]
    /\ UNCHANGED <<spec, reportFile>>

\* ... and the report, when one was asked for, follows in a write of its own.
EmitReport(p) ==
    /\ vplan[p].at = "render"
    /\ reportFile' = vplan[p].plan
    /\ vplan' = [vplan EXCEPT ![p] = Idle]
    /\ UNCHANGED <<spec, planFile>>

\* The command dies: before a write, or in it, after the file was opened for
\* writing, which cut it off.
Die(p) ==
    /\ vplan[p] # Idle
    /\ \/ UNCHANGED <<planFile, reportFile>>
       \/ vplan[p].at = "emit" /\ planFile' = TornFile /\ UNCHANGED reportFile
       \/ vplan[p].at = "render" /\ reportFile' = TornFile /\ UNCHANGED planFile
    /\ vplan' = [vplan EXCEPT ![p] = Idle]
    /\ UNCHANGED spec

PlanNext ==
    \E p \in Vplan :
       \/ \E decisions \in DecisionFiles : Approve(p, decisions)
       \/ Draft(p) \/ Render(p) \/ EmitPlan(p) \/ EmitReport(p) \/ Die(p)

PlanSpec == PlanInit /\ [][PlanNext]_planVars

-----------------------------------------------------------------------------
\* What one decisions file says of an item: the word no later entry of the file
\* replaces, or nothing.
Verdict(decisions, id) ==
    LET said == {k \in DOMAIN decisions : decisions[k].item_id = id}
        last == {k \in said : \A j \in said : j <= k}
    IN  IF said = {} THEN "proposed"
        ELSE (CHOOSE d \in {decisions[k] : k \in last} : TRUE).decision

\* The word that stands for an item: of the first file that decides it.
Standing(given, id) ==
    LET deciding == {n \in DOMAIN given : Verdict(given[n], id) # "proposed"}
    IN  IF deciding = {} THEN "proposed" ELSE Verdict(given[Min(deciding)], id)

\* Humans decide, and the first decision stands ("nothing is APPROVED unless a
\* human decision file says so", models.py; "the human decision stands",
\* test_approval.py): in the plan file, in the report and in every command's
\* hands an item is in the state the first decisions file to decide it says,
\* over commands that overlap, redraft the plan and die.
FirstDecisionStands ==
    \A plan \in ({planFile, reportFile} \cup {vplan[p].plan : p \in Vplan})
                   \ {NoFile, TornFile} :
       /\ DOMAIN plan.approval = PlanItems
       /\ \A id \in PlanItems : plan.approval[id] = Standing(plan.given, id)

Decided(plan) ==
    IF plan \in {NoFile, TornFile} THEN {}
    ELSE {id \in PlanItems : plan.approval[id] # "proposed"}

\* A decision that is on file is withdrawn by no approval that read it: what
\* takes it off the file is a redraft, a death in the write, or an approval
\* that had read the file before the decision was on it (cli.py reads the plan,
\* applies the decisions and writes without a lock).
DecisionsWithdrawnBySlip ==
    [][\A id \in Decided(planFile) :
          \/ id \in Decided(planFile') /\ planFile'.approval[id] = planFile.approval[id]
          \/ planFile' = TornFile
          \/ \E p \in Vplan : /\ vplan[p].at = "emit" /\ vplan'[p].at # "emit"
                              /\ vplan[p].base # planFile]_planVars

=============================================================================
