---------------------------- MODULE AgentProofs -----------------------------
(***************************************************************************)
(* Proofs about agents that go through many steps: the decisions on a plan *)
(* of verification-plan-agent for any spec, any decisions files and any    *)
(* number of commands that overlap and die; the mutation scoring of        *)
(* assertion-mutation-agent for any number of mutants; the scaffold of     *)
(* verification-agent-factory for any manifests and any number of runs;    *)
(* the imports of the verification knowledge graph for any artifacts,      *)
(* versions and importers; and what testbench-recovery-agent reports of    *)
(* any checkout.                                                           *)
(***************************************************************************)
EXTENDS PlanApproval, MutationScoring, Scaffold, KnowledgeGraph, TestbenchRecovery, DataLemmas,
    SequenceTheorems

-----------------------------------------------------------------------------
(***************************************************************************)
(* The decisions on a verification plan                                    *)
(***************************************************************************)

\* The dictionary of decisions holds of each item the word that no later entry of
\* the file replaces.
LEMMA ByIdIsVerdict ==
    ASSUME NEW d \in DecisionFiles, NEW id
    PROVE  /\ Verdict(d, id) \in ApprovalStates
           /\ id \in DOMAIN DecisionsById(d) => DecisionsById(d)[id] = Verdict(d, id)
           /\ id \notin DOMAIN DecisionsById(d) => Verdict(d, id) = "proposed"
<1> DEFINE said == {k \in DOMAIN d : d[k].item_id = id}
           last == {k \in said : \A j \in said : j <= k}
<1>1. Len(d) \in Nat /\ DOMAIN d = 1 .. Len(d)
    BY PlanAssumption DEF PlanAssumption
<1>2. \A k \in DOMAIN d : d[k].decision \in ApprovalStates
    BY PlanAssumption DEF PlanAssumption
<1>3. Verdict(d, id) = IF said = {} THEN "proposed"
                       ELSE (CHOOSE e \in {d[k] : k \in last} : TRUE).decision
    BY DEF Verdict
<1>4. DOMAIN DecisionsById(d) = {d[k].item_id : k \in DOMAIN d}
    BY DEF DecisionsById
<1>5. CASE said = {}
    BY <1>3, <1>4, <1>5 DEF ApprovalStates
<1>6. CASE said # {}
    <2>1. Max(said) \in said /\ \A y \in said : y <= Max(said)
        BY <1>1, <1>6, LastPosition
    <2>2. last = {Max(said)}
        <3>1. \A k \in said : k \in Nat
            BY <1>1
        <3>2. \A k \in said : (\A j \in said : j <= k) => k = Max(said)
            BY <2>1, <3>1
        <3> QED BY <2>1, <3>2
    <2>3. Verdict(d, id) = d[Max(said)].decision
        BY <1>3, <1>6, <2>2
    <2>4. id \in DOMAIN DecisionsById(d)
        BY <1>4, <1>6
    <2>5. DecisionsById(d)[id] = d[Max(said)].decision
        BY <1>4, <2>4 DEF DecisionsById
    <2> QED BY <1>2, <2>1, <2>3, <2>4, <2>5
<1> QED BY <1>5, <1>6

\* One more decisions file decides the items nobody decided before, and no other.
LEMMA StandingAppend ==
    ASSUME NEW given \in Seq(DecisionFiles), NEW d \in DecisionFiles, NEW id
    PROVE  Standing(Append(given, d), id) =
             IF Standing(given, id) # "proposed" THEN Standing(given, id)
             ELSE Verdict(d, id)
<1> DEFINE more == Append(given, d)
           decided == {n \in DOMAIN given : Verdict(given[n], id) # "proposed"}
           after == {n \in DOMAIN more : Verdict(more[n], id) # "proposed"}
           len == Len(given)
<1>1. len \in Nat /\ DOMAIN given = 1 .. len
    OBVIOUS
<1>2. /\ DOMAIN more = 1 .. len + 1
      /\ \A n \in 1 .. len : more[n] = given[n]
      /\ more[len + 1] = d
    BY AppendProperties
<1>3. Standing(given, id) = IF decided = {} THEN "proposed"
                            ELSE Verdict(given[Min(decided)], id)
    BY DEF Standing
<1>4. Standing(more, id) = IF after = {} THEN "proposed"
                           ELSE Verdict(more[Min(after)], id)
    BY DEF Standing
<1>5. after = decided \cup {n \in {len + 1} : Verdict(d, id) # "proposed"}
    BY <1>1, <1>2
<1>6. decided \in SUBSET (1 .. len) /\ after \in SUBSET Nat
    BY <1>1, <1>2
<1> HIDE DEF decided, after, more
<1>7. CASE decided = {}
    <2>1. CASE Verdict(d, id) = "proposed"
        <3>1. after = {}
            BY <1>5, <1>7, <2>1
        <3> QED BY <1>3, <1>4, <1>7, <2>1, <3>1 DEF more
    <2>2. CASE Verdict(d, id) # "proposed"
        <3>1. after = {len + 1}
            BY <1>5, <1>7, <2>2
        <3>2. Min(after) = len + 1
            BY <1>6, <3>1, MinOfSome
        <3> QED BY <1>2, <1>3, <1>4, <1>7, <3>1, <3>2 DEF more
    <2> QED BY <2>1, <2>2
<1>8. CASE decided # {}
    <2>1. Min(decided) \in decided /\ \A y \in decided : Min(decided) <= y
        BY <1>1, <1>6, <1>8, MinOfSome
    <2>2. Min(after) \in after /\ \A y \in after : Min(after) <= y
        BY <1>5, <1>6, <1>8, MinOfSome
    <2>3. Min(after) = Min(decided)
        <3>1. Min(decided) \in 1 .. len /\ Min(decided) \in after
            BY <1>5, <1>6, <2>1
        <3>2. Min(after) <= Min(decided) /\ Min(after) \in Nat
            BY <1>6, <2>2, <3>1
        <3>3. Min(after) \in decided
            BY <1>1, <1>5, <2>2, <3>1, <3>2
        <3> QED BY <2>1, <3>1, <3>2, <3>3
    <2>4. Verdict(given[Min(decided)], id) # "proposed"
        BY <2>1 DEF decided
    <2> QED BY <1>2, <1>3, <1>4, <1>5, <1>6, <1>8, <2>1, <2>3, <2>4 DEF more
<1> QED BY <1>7, <1>8

-----------------------------------------------------------------------------
\* A plan for a spec whose items are in the states its decisions files say.
Faithful(categories, plan) ==
    /\ plan \in Plans(categories)
    /\ \A id \in ItemsOf(categories) : plan.approval[id] = Standing(plan.given, id)

\* What a process may hold: nothing, or a faithful plan that is a draft, a copy of
\* the plan it read, or that plan after one decisions file.
Hand(categories, h) ==
    \/ h = Idle
    \/ /\ h = [at |-> h.at, base |-> h.base, plan |-> h.plan, markdown |-> h.markdown]
       /\ h.at \in {"emit", "render"}
       /\ Faithful(categories, h.plan)
       /\ h.at = "emit" =>
            \/ h.base = NoFile
            \/ h.base \in Plans(categories)
               /\ \E d \in DecisionFiles : h.plan = ApplyDecisions(h.base, d)

PlanInv ==
    /\ spec \in Specs
    /\ planFile \notin {NoFile, TornFile} => Faithful(spec, planFile)
    /\ reportFile \notin {NoFile, TornFile} => Faithful(spec, reportFile)
    /\ vplan = [p \in Vplan |-> vplan[p]]
    /\ \A p \in Vplan : Hand(spec, vplan[p])

\* A new draft is faithful: nobody decided anything.
LEMMA DraftFaithful == Faithful(spec, BuildPlan)
<1>1. BuildPlan.given = <<>> /\ BuildPlan.approval = [id \in PlanItems |-> "proposed"]
    BY DEF BuildPlan
<1>2. BuildPlan \in Plans(spec)
    BY DEF BuildPlan, Plans, PlanItems, ApprovalStates
<1>3. ASSUME NEW id PROVE Standing(<<>>, id) = "proposed"
    BY DEF Standing
<1> QED BY <1>1, <1>2, <1>3 DEF Faithful, PlanItems

\* apply_decisions keeps a plan faithful: it changes the items still proposed, which
\* are those nobody decided, and to what the new file says.
LEMMA ApplyKeepsFaithful ==
    ASSUME NEW categories, NEW plan, Faithful(categories, plan), NEW d \in DecisionFiles
    PROVE  Faithful(categories, ApplyDecisions(plan, d))
<1> DEFINE new == ApplyDecisions(plan, d)
<1>1. /\ plan.given \in Seq(DecisionFiles)
      /\ plan.approval \in [ItemsOf(categories) -> ApprovalStates]
    BY DEF Faithful, Plans
<1>2. new.given = Append(plan.given, d)
    BY DEF ApplyDecisions
<1>3. new.given \in Seq(DecisionFiles)
    BY <1>1, <1>2
<1>4. ASSUME NEW id \in ItemsOf(categories)
      PROVE  /\ new.approval[id] \in ApprovalStates
             /\ new.approval[id] = Standing(new.given, id)
    <2>1. new.approval[id] = IF id \in DOMAIN DecisionsById(d)
                                /\ plan.approval[id] = "proposed"
                             THEN DecisionsById(d)[id] ELSE plan.approval[id]
        BY <1>1 DEF ApplyDecisions
    <2>2. plan.approval[id] = Standing(plan.given, id)
        BY DEF Faithful
    <2>3. Standing(new.given, id) =
             IF plan.approval[id] # "proposed" THEN plan.approval[id] ELSE Verdict(d, id)
        BY <1>1, <1>2, <2>2, StandingAppend
    <2>4. plan.approval[id] \in ApprovalStates
        BY <1>1
    <2> QED BY <2>1, <2>3, <2>4, ByIdIsVerdict
<1>5. new.approval \in [ItemsOf(categories) -> ApprovalStates]
    <2>1. new.approval = [id \in ItemsOf(categories) |-> new.approval[id]]
        BY <1>1 DEF ApplyDecisions
    <2> QED BY <1>4, <2>1
<1>6. new = [approval |-> new.approval, given |-> new.given]
    BY DEF ApplyDecisions
<1>7. new \in Plans(categories)
    BY <1>3, <1>5, <1>6 DEF Plans
<1> QED BY <1>4, <1>7 DEF Faithful

\* Nothing is on file and no command runs at the start.
LEMMA PlanInvInit == PlanInit => PlanInv
BY DEF PlanInit, PlanInv, Hand

\* A process of a step: what it holds afterwards is what Hand allows, and the
\* other processes hold what they held.
LEMMA OneHandMoves ==
    ASSUME PlanInv, NEW p \in Vplan, NEW h, Hand(spec, h),
           vplan' = [vplan EXCEPT ![p] = h]
    PROVE  /\ vplan' = [q \in Vplan |-> vplan'[q]]
           /\ \A q \in Vplan : Hand(spec, vplan'[q])
<1>1. \A q \in Vplan : vplan'[q] = IF q = p THEN h ELSE vplan[q]
    BY DEF PlanInv
<1>2. \A q \in Vplan : Hand(spec, vplan[q])
    BY DEF PlanInv
<1>3. DOMAIN vplan' = Vplan
    BY DEF PlanInv
<1>4. vplan' = [q \in Vplan |-> vplan'[q]]
    BY <1>3 DEF PlanInv
<1> QED BY <1>1, <1>2, <1>4

\* What plan and approve end with is what a process may hold.
LEMMA EmitHolds ==
    ASSUME PlanInv, NEW p \in Vplan, NEW base, NEW plan, Faithful(spec, plan),
           \/ base = NoFile
           \/ base \in Plans(spec) /\ \E d \in DecisionFiles : plan = ApplyDecisions(base, d),
           Emit(p, base, plan)
    PROVE  /\ vplan' = [q \in Vplan |-> vplan'[q]]
           /\ \A q \in Vplan : Hand(spec, vplan'[q])
<1>1. PICK out, markdown \in BOOLEAN :
        vplan' = [vplan EXCEPT ![p] =
                    [at |-> IF out THEN "emit" ELSE "render",
                     base |-> base, plan |-> plan, markdown |-> markdown]]
    BY DEF Emit
<1> DEFINE h == [at |-> IF out THEN "emit" ELSE "render",
                 base |-> base, plan |-> plan, markdown |-> markdown]
<1>2. /\ h.at \in {"emit", "render"} /\ h.base = base /\ h.plan = plan
      /\ h = [at |-> h.at, base |-> h.base, plan |-> h.plan, markdown |-> h.markdown]
    OBVIOUS
<1> HIDE DEF h
<1>3. Hand(spec, h)
    BY <1>2 DEF Hand
<1>4. vplan' = [vplan EXCEPT ![p] = h]
    BY <1>1 DEF h
<1> QED BY <1>3, <1>4, OneHandMoves

\* Each step of a command keeps what is on file and in hands faithful.
LEMMA PlanInvStep == PlanInv /\ [PlanNext]_planVars => PlanInv'
<1> SUFFICES ASSUME PlanInv, [PlanNext]_planVars PROVE PlanInv'
    OBVIOUS
<1>1. CASE UNCHANGED planVars
    BY <1>1 DEF PlanInv, planVars
<1>2. ASSUME NEW p \in Vplan, Draft(p) PROVE PlanInv'
    <2>1. UNCHANGED <<spec, planFile, reportFile>> /\ Emit(p, NoFile, BuildPlan)
        BY <1>2 DEF Draft
    <2>2. /\ vplan' = [q \in Vplan |-> vplan'[q]]
          /\ \A q \in Vplan : Hand(spec, vplan'[q])
        BY <2>1, DraftFaithful, EmitHolds
    <2> QED BY <2>1, <2>2 DEF PlanInv
<1>3. ASSUME NEW p \in Vplan, NEW d \in DecisionFiles, Approve(p, d) PROVE PlanInv'
    <2>1. /\ UNCHANGED <<spec, planFile, reportFile>>
          /\ Emit(p, planFile, ApplyDecisions(planFile, d))
          /\ planFile \notin {NoFile, TornFile}
        BY <1>3 DEF Approve, Readable
    <2>2. Faithful(spec, planFile)
        BY <2>1 DEF PlanInv
    <2>3. planFile \in Plans(spec)
        BY <2>2 DEF Faithful
    <2>4. /\ vplan' = [q \in Vplan |-> vplan'[q]]
          /\ \A q \in Vplan : Hand(spec, vplan'[q])
        BY <2>1, <2>2, <2>3, ApplyKeepsFaithful, EmitHolds
    <2> QED BY <2>1, <2>4 DEF PlanInv
<1>4. ASSUME NEW p \in Vplan, Render(p) PROVE PlanInv'
    <2> DEFINE h == [at |-> "render", base |-> planFile, plan |-> planFile,
                     markdown |-> TRUE]
    <2>1. /\ UNCHANGED <<spec, planFile, reportFile>>
          /\ vplan' = [vplan EXCEPT ![p] = h]
          /\ planFile \notin {NoFile, TornFile}
        BY <1>4 DEF Render, Readable
    <2>2. /\ h.at = "render" /\ h.plan = planFile
          /\ h = [at |-> h.at, base |-> h.base, plan |-> h.plan, markdown |-> h.markdown]
        OBVIOUS
    <2> HIDE DEF h
    <2>3. Hand(spec, h)
        BY <2>1, <2>2 DEF Hand, PlanInv
    <2>4. /\ vplan' = [q \in Vplan |-> vplan'[q]]
          /\ \A q \in Vplan : Hand(spec, vplan'[q])
        BY <2>1, <2>3, OneHandMoves
    <2> QED BY <2>1, <2>4 DEF PlanInv
<1>5. ASSUME NEW p \in Vplan, EmitPlan(p) PROVE PlanInv'
    <2> DEFINE h == IF vplan[p].markdown THEN [vplan[p] EXCEPT !.at = "render"] ELSE Idle
    <2>1. /\ UNCHANGED <<spec, reportFile>>
          /\ vplan[p].at = "emit" /\ planFile' = vplan[p].plan
          /\ vplan' = [vplan EXCEPT ![p] = h]
        BY <1>5 DEF EmitPlan
    <2>2. Faithful(spec, vplan[p].plan)
        BY <2>1 DEF PlanInv, Hand, Idle
    <2>3. Hand(spec, h)
        <3>1. CASE ~ vplan[p].markdown
            BY <3>1 DEF Hand
        <3>2. CASE vplan[p].markdown
            <4>1. vplan[p] = [at |-> vplan[p].at, base |-> vplan[p].base,
                              plan |-> vplan[p].plan, markdown |-> vplan[p].markdown]
                BY <2>1 DEF PlanInv, Hand, Idle
            <4>2. h = [at |-> "render", base |-> vplan[p].base,
                       plan |-> vplan[p].plan, markdown |-> vplan[p].markdown]
                BY <3>2, <4>1
            <4> HIDE DEF h
            <4>3. /\ h.at = "render" /\ h.plan = vplan[p].plan
                  /\ h = [at |-> h.at, base |-> h.base, plan |-> h.plan,
                          markdown |-> h.markdown]
                BY <4>2
            <4> QED BY <2>2, <4>3 DEF Hand
        <3> QED BY <3>1, <3>2
    <2> HIDE DEF h
    <2>4. /\ vplan' = [q \in Vplan |-> vplan'[q]]
          /\ \A q \in Vplan : Hand(spec, vplan'[q])
        BY <2>1, <2>3, OneHandMoves
    <2> QED BY <2>1, <2>2, <2>4 DEF PlanInv
<1>6. ASSUME NEW p \in Vplan, EmitReport(p) PROVE PlanInv'
    <2>1. /\ UNCHANGED <<spec, planFile>>
          /\ vplan[p].at = "render" /\ reportFile' = vplan[p].plan
          /\ vplan' = [vplan EXCEPT ![p] = Idle]
        BY <1>6 DEF EmitReport
    <2>2. Faithful(spec, vplan[p].plan)
        BY <2>1 DEF PlanInv, Hand, Idle
    <2>3. /\ vplan' = [q \in Vplan |-> vplan'[q]]
          /\ \A q \in Vplan : Hand(spec, vplan'[q])
        BY <2>1, OneHandMoves DEF Hand
    <2> QED BY <2>1, <2>2, <2>3 DEF PlanInv
<1>7. ASSUME NEW p \in Vplan, Die(p) PROVE PlanInv'
    <2>1. /\ spec' = spec
          /\ planFile' \in {planFile, TornFile} /\ reportFile' \in {reportFile, TornFile}
          /\ vplan' = [vplan EXCEPT ![p] = Idle]
        BY <1>7 DEF Die
    <2>2. /\ vplan' = [q \in Vplan |-> vplan'[q]]
          /\ \A q \in Vplan : Hand(spec, vplan'[q])
        BY <2>1, OneHandMoves DEF Hand
    <2> QED BY <2>1, <2>2 DEF PlanInv
<1> QED BY <1>1, <1>2, <1>3, <1>4, <1>5, <1>6, <1>7 DEF PlanNext

\* What is on file and in the hands of every command is what its decisions say.
THEOREM PlanInvariant == PlanSpec => []PlanInv
BY PlanInvInit, PlanInvStep, PTL DEF PlanSpec

\* Humans decide, and the first decision stands, for every spec, every set of
\* decisions files and any number of commands that overlap and die.
THEOREM FirstDecisionStandsAlways == PlanSpec => []FirstDecisionStands
<1>1. ASSUME PlanInv PROVE FirstDecisionStands
    <2>1. SUFFICES ASSUME NEW plan, Faithful(spec, plan)
                   PROVE  /\ DOMAIN plan.approval = PlanItems
                          /\ \A id \in PlanItems :
                                plan.approval[id] = Standing(plan.given, id)
        BY <1>1 DEF FirstDecisionStands, PlanInv, Hand, Idle
    <2>2. plan.approval \in [PlanItems -> ApprovalStates]
        BY <2>1 DEF Faithful, Plans, PlanItems
    <2> QED BY <2>1, <2>2 DEF Faithful, PlanItems
<1> QED BY <1>1, PlanInvariant, PTL

\* An approval that writes over the very plan it read takes no decision back.
LEMMA ApplyKeepsDecided ==
    ASSUME spec \in Specs, NEW plan \in Plans(spec), NEW d, NEW id \in Decided(plan),
           ApplyDecisions(plan, d) \in Plans(spec)
    PROVE  /\ id \in Decided(ApplyDecisions(plan, d))
           /\ ApplyDecisions(plan, d).approval[id] = plan.approval[id]
<1> DEFINE new == ApplyDecisions(plan, d)
<1>1. id \in PlanItems /\ plan.approval[id] # "proposed"
    BY DEF Decided
<1>2. DOMAIN plan.approval = PlanItems
    BY DEF Plans, PlanItems
<1>3. new.approval[id] = plan.approval[id]
    BY <1>1, <1>2 DEF ApplyDecisions
<1>4. new \notin {NoFile, TornFile}
    BY PlanAssumption DEF PlanAssumption
<1> HIDE DEF new
<1>5. id \in Decided(new)
    BY <1>1, <1>3, <1>4 DEF Decided
<1> QED BY <1>3, <1>5 DEF new

\* A decision leaves the file only by a redraft, a death in a write, or an approval
\* that had read the file before the decision was on it.
THEOREM DecisionsWithdrawnBySlipAlways == PlanSpec => DecisionsWithdrawnBySlip
<1> DEFINE A ==
        \A id \in Decided(planFile) :
          \/ id \in Decided(planFile') /\ planFile'.approval[id] = planFile.approval[id]
          \/ planFile' = TornFile
          \/ \E p \in Vplan : /\ vplan[p].at = "emit" /\ vplan'[p].at # "emit"
                              /\ vplan[p].base # planFile
<1>1. PlanInv /\ [PlanNext]_planVars => A
    <2> SUFFICES ASSUME PlanInv, [PlanNext]_planVars, NEW id \in Decided(planFile)
                 PROVE  \/ id \in Decided(planFile') /\ planFile'.approval[id] = planFile.approval[id]
                        \/ planFile' = TornFile
                        \/ \E p \in Vplan : /\ vplan[p].at = "emit" /\ vplan'[p].at # "emit"
                                            /\ vplan[p].base # planFile
        OBVIOUS
    <2>1. spec \in Specs /\ planFile \notin {NoFile, TornFile} /\ planFile \in Plans(spec)
        BY DEF Decided, PlanInv, Faithful
    <2>2. CASE planFile' = planFile
        BY <2>2
    <2>3. CASE planFile' = TornFile
        BY <2>3
    <2>4. ASSUME NEW p \in Vplan, EmitPlan(p), vplan[p].base = planFile
          PROVE  id \in Decided(planFile') /\ planFile'.approval[id] = planFile.approval[id]
        <3>1. vplan[p].at = "emit" /\ planFile' = vplan[p].plan
            BY <2>4 DEF EmitPlan
        <3>2. PICK d \in DecisionFiles : vplan[p].plan = ApplyDecisions(planFile, d)
            BY <2>1, <2>4, <3>1 DEF PlanInv, Hand, Idle
        <3>3. vplan[p].plan \in Plans(spec)
            BY <3>1 DEF PlanInv, Hand, Idle, Faithful
        <3> QED BY <2>1, <3>1, <3>2, <3>3, ApplyKeepsDecided
    <2>5. ASSUME NEW p \in Vplan, EmitPlan(p), vplan[p].base # planFile
          PROVE  vplan[p].at = "emit" /\ vplan'[p].at # "emit"
        <3>1. vplan[p].at = "emit"
            BY <2>5 DEF EmitPlan
        <3>2. CASE ~ vplan[p].markdown
            BY <2>5, <3>2 DEF EmitPlan, Idle, PlanInv
        <3>3. CASE vplan[p].markdown
            <4>1. vplan[p] = [at |-> vplan[p].at, base |-> vplan[p].base,
                              plan |-> vplan[p].plan, markdown |-> vplan[p].markdown]
                BY <3>1 DEF PlanInv, Hand, Idle
            <4>2. [vplan[p] EXCEPT !.at = "render"].at = "render"
                BY <4>1
            <4>3. vplan'[p] = [vplan[p] EXCEPT !.at = "render"]
                BY <2>5, <3>3 DEF EmitPlan, PlanInv
            <4> QED BY <3>1, <4>2, <4>3
        <3> QED BY <3>1, <3>2, <3>3
    <2>6. \/ planFile' = planFile \/ planFile' = TornFile \/ \E p \in Vplan : EmitPlan(p)
        BY DEF PlanNext, Draft, Approve, Render, EmitReport, Die, planVars
    <2> QED BY <2>2, <2>3, <2>4, <2>5, <2>6
<1>2. PlanSpec => [][A]_planVars
    BY <1>1, PlanInvariant, PTL DEF PlanSpec
<1> QED BY <1>2 DEF DecisionsWithdrawnBySlip

-----------------------------------------------------------------------------
(***************************************************************************)
(* Mutation scoring                                                        *)
(***************************************************************************)

\* The statuses that go without a run of the mutant.
NotRun == {"INVALID", "ERROR", "INCONCLUSIVE"}

\* What the result of one mutant says: its status is that of its run, a mutant
\* is scored only once the baseline was found good, and given up because of the
\* baseline only once that was found bad.
ResultOk(r) ==
    /\ r.status \in MutantStatus
    /\ \/ r.end = "none" /\ r.status \in NotRun
       \/ r.end \in Ends /\ r.status = ClassifyOutcome(r.end)
    /\ IsScored(r.status) => baselineOk = "ok"
    /\ available /\ suite /\ r.status = "INCONCLUSIVE" => baselineOk = "bad"

MutationInv ==
    /\ MutationTypeOK
    /\ \A i \in 1 .. Len(results) : ResultOk(results[i])

\* The ends that classify calls detected and survived.
LEMMA ClassifiedEnds ==
    ASSUME NEW end \in Ends
    PROVE  /\ ClassifyOutcome(end) \in MutantStatus \ {"INCONCLUSIVE"}
           /\ ClassifyOutcome(end) = "DETECTED" => end \in {"fired", "died"}
           /\ ClassifyOutcome(end) = "SURVIVED" => end = "clean"
BY DEF Ends, RunOutcome, Outcome, ClassifyOutcome, MutantStatus

\* The baseline that is used is remembered, and a remembered one stays.
LEMMA BaselineStays ==
    ASSUME MutationTypeOK, NEW ok \in BOOLEAN, WithBaseline(ok)
    PROVE  /\ baselineOk' = IF ok THEN "ok" ELSE "bad"
           /\ baselineOk # "unknown" => baselineOk' = baselineOk
           /\ baseline' \in Ends \cup {"none"}
           /\ available /\ suite
<1>1. sound \in BOOLEAN /\ EndsOf(sound) \subseteq Ends
  BY DEF MutationTypeOK, EndsOf, Ends, RunOutcome
<1> QED  BY <1>1 DEF WithBaseline, MutationTypeOK

\* A new result beside those that are there.
LEMMA AppendResult ==
    ASSUME MutationInv, NEW status, NEW end, Classified(status, end),
           baselineOk' \in {"unknown", "ok", "bad"},
           baseline' \in Ends \cup {"none"},
           baselineOk # "unknown" => baselineOk' = baselineOk,
           end \in Ends \cup {"none"},
           ResultOk([status |-> status, end |-> end])'
    PROVE  MutationInv'
<1> DEFINE r == [status |-> status, end |-> end]
<1>1. /\ results \in Seq([status : MutantStatus, end : Ends \cup {"none"}])
      /\ results' = Append(results, r)
      /\ available' = available /\ suite' = suite /\ sound' = sound
  BY DEF MutationInv, MutationTypeOK, Classified
<1>2. r \in [status : MutantStatus, end : Ends \cup {"none"}]
  BY DEF ResultOk
<1>3. MutationTypeOK'
  BY <1>1, <1>2 DEF MutationInv, MutationTypeOK
<1>4. \A i \in 1 .. Len(results') :
        \/ i \in 1 .. Len(results) /\ results'[i] = results[i]
        \/ results'[i] = r
  BY <1>1, <1>2
<1>5. ASSUME NEW i \in 1 .. Len(results) PROVE ResultOk(results[i]) /\ results[i].status \in MutantStatus
  BY <1>5 DEF MutationInv, ResultOk
<1>6. ASSUME NEW i \in 1 .. Len(results') PROVE ResultOk(results[i])'
  BY <1>1, <1>4, <1>5 DEF ResultOk
<1> QED  BY <1>3, <1>6 DEF MutationInv

LEMMA MutationInitInv == MutationInit => MutationInv
BY DEF MutationInit, MutationInv, MutationTypeOK

LEMMA MutationStep == MutationInv /\ [MutationNext]_mutationVars => MutationInv'
<1> SUFFICES ASSUME MutationInv, [MutationNext]_mutationVars
             PROVE  MutationInv'
  OBVIOUS
<1>1. MutationTypeOK
  BY DEF MutationInv
<1>2. CASE NoOpMutant \/ NoVerilator \/ NoPropertyText
  BY <1>1, <1>2, AppendResult
     DEF NoOpMutant, NoVerilator, NoPropertyText, Classified, ResultOk, NotRun,
         MutantStatus, IsScored, MutationTypeOK
<1>3. CASE NoBaseline
  BY <1>1, <1>3, AppendResult, BaselineStays
     DEF NoBaseline, Classified, ResultOk, NotRun, MutantStatus, IsScored
<1>4. CASE RunMutant
  <2>1. PICK end \in Ends : Classified(ClassifyOutcome(end), end)
    BY <1>4 DEF RunMutant
  <2>2. WithBaseline(TRUE)
    BY <1>4 DEF RunMutant
  <2>3. baselineOk' = "ok" /\ (baselineOk # "unknown" => baselineOk' = baselineOk)
        /\ baseline' \in Ends \cup {"none"}
    BY <1>1, <2>2, BaselineStays
  <2>4. ClassifyOutcome(end) \in MutantStatus \ {"INCONCLUSIVE"}
    BY ClassifiedEnds
  <2>5. ResultOk([status |-> ClassifyOutcome(end), end |-> end])'
    BY <2>3, <2>4 DEF ResultOk
  <2> QED  BY <2>1, <2>3, <2>5, AppendResult
<1>5. CASE UNCHANGED mutationVars
  BY <1>5 DEF mutationVars, MutationInv, MutationTypeOK, ResultOk
<1> QED  BY <1>2, <1>3, <1>4, <1>5 DEF MutationNext

\* The scores of an analysis can be compared, however many mutants there are and
\* however often the simulator fails in between: all are of runs that ended, and
\* no mutant is scored beside one that was given up because of the original.
THEOREM ScoresComparableAlways == MutationSpec => []ScoresComparable
<1>1. ASSUME MutationInv PROVE ScoresComparable
  <2>1. ASSUME NEW i \in 1 .. Len(results)
        PROVE  /\ results[i].status = "DETECTED" =>
                    results[i].end \in {"fired", "died"}
               /\ results[i].status = "SURVIVED" => results[i].end = "clean"
    BY <1>1, <2>1, ClassifiedEnds DEF MutationInv, ResultOk, NotRun
  <2>2. OneBaseline
    BY <1>1 DEF OneBaseline, MutationInv, ResultOk
  <2> QED  BY <2>1, <2>2 DEF ScoresComparable, ScoredRanToEnd
<1>2. MutationInv => ScoresComparable
  BY <1>1
<1> QED
  BY <1>2, MutationInitInv, MutationStep, PTL DEF MutationSpec
-----------------------------------------------------------------------------
(***************************************************************************)
(* The scaffold of an agent                                                *)
(***************************************************************************)

\* The names of the files an agent is rendered to.
FileNames ==
    {"README.md", "LICENSE", "ARCHITECTURE.md", "THREAT_MODEL.md", "EVIDENCE.md",
     "CONTRIBUTING.md", "SECURITY.md", "RELEASE_CHECKLIST.md", ".gitignore",
     "Dockerfile", "pyproject.toml", "ci.yml", "agent_manifest.json",
     "manifest.schema.json", "benchmark_manifest.json", "__init__.py", "models.py",
     "mock_llm.py", "agent.py", "validators.py", "cli.py", "requirement_handshake.json",
     "rtl_symbols.json", "tests/__init__.py", "test_agent.py", "test_models.py",
     "input_example.json", "index.md"}

LEMMA RenderedPaths ==
    ASSUME NEW m, NEW files \in Seq(FileNames)
    PROVE  /\ InPackage(m, files) \in Seq({PackageName(m), ""} \X FileNames)
           /\ AtTop(files) \in Seq({PackageName(m), ""} \X FileNames)
           /\ files # <<>> => AtTop(files) # <<>>
<1> DEFINE P == {PackageName(m), ""} \X FileNames
           n == Len(files)
<1>1. DOMAIN files = 1 .. n /\ n \in Nat /\ \A i \in 1 .. n : files[i] \in FileNames
  OBVIOUS
<1>2. \A i \in 1 .. n : <<PackageName(m), files[i]>> \in P /\ <<"", files[i]>> \in P
  BY <1>1
<1> HIDE DEF P
<1>3. /\ InPackage(m, files) \in [1 .. n -> P]
      /\ AtTop(files) \in [1 .. n -> P]
  BY <1>1, <1>2 DEF InPackage, AtTop
<1>4. InPackage(m, files) \in Seq(P) /\ AtTop(files) \in Seq(P)
  BY <1>1, <1>3, SeqDef
<1>5. ASSUME files # <<>> PROVE AtTop(files) # <<>>
  <2>1. n # 0
    BY <1>5
  <2>2. 1 \in DOMAIN AtTop(files)
    BY <1>1, <1>3, <2>1
  <2> QED  BY <2>2
<1> QED  BY <1>4, <1>5 DEF P

LEMMA FileLists ==
    /\ Docs \in Seq(FileNames) /\ Metadata \in Seq(FileNames)
    /\ <<"__init__.py", "models.py", "mock_llm.py">> \in Seq(FileNames)
    /\ <<"agent.py", "validators.py", "cli.py">> \in Seq(FileNames)
    /\ <<"requirement_handshake.json", "rtl_symbols.json",
         "tests/__init__.py", "test_agent.py", "test_models.py">> \in Seq(FileNames)
    /\ <<"input_example.json", "tests/__init__.py", "test_agent.py">> \in Seq(FileNames)
    /\ <<"index.md">> \in Seq(FileNames) /\ <<"index.md">> # <<>>
<1>1. Docs \in Seq(FileNames)
  BY DEF Docs, FileNames
<1>2. Metadata \in Seq(FileNames)
  BY DEF Metadata, FileNames
<1>3. /\ <<"__init__.py", "models.py", "mock_llm.py">> \in Seq(FileNames)
      /\ <<"agent.py", "validators.py", "cli.py">> \in Seq(FileNames)
  BY DEF FileNames
<1>4. <<"requirement_handshake.json", "rtl_symbols.json",
        "tests/__init__.py", "test_agent.py", "test_models.py">> \in Seq(FileNames)
  BY DEF FileNames
<1>5. <<"input_example.json", "tests/__init__.py", "test_agent.py">> \in Seq(FileNames)
  BY DEF FileNames
<1>6. <<"index.md">> \in Seq(FileNames) /\ <<"index.md">> # <<>>
  BY DEF FileNames
<1> QED  BY <1>1, <1>2, <1>3, <1>4, <1>5, <1>6

LEMMA FilesSequence ==
    ASSUME NEW m
    PROVE  FilesOf(m) \in Seq(Range(FilesOf(m))) /\ FilesOf(m) # <<>>
<1> DEFINE P == {PackageName(m), ""} \X FileNames
<1>1. ASSUME NEW files \in Seq(FileNames)
      PROVE  /\ InPackage(m, files) \in Seq(P)
             /\ AtTop(files) \in Seq(P)
             /\ files # <<>> => AtTop(files) # <<>>
  BY <1>1, RenderedPaths
<1> HIDE DEF P
<1>2. Docs \o Metadata \in Seq(FileNames)
  BY FileLists
<1>3. /\ AtTop(Docs \o Metadata) \in Seq(P)
      /\ InPackage(m, <<"__init__.py", "models.py", "mock_llm.py">>) \in Seq(P)
      /\ InPackage(m, <<"agent.py", "validators.py", "cli.py">>) \in Seq(P)
  BY <1>1, <1>2, FileLists
<1>4. /\ AtTop(<<"requirement_handshake.json", "rtl_symbols.json",
                 "tests/__init__.py", "test_agent.py", "test_models.py">>) \in Seq(P)
      /\ AtTop(<<"input_example.json", "tests/__init__.py", "test_agent.py">>) \in Seq(P)
      /\ AtTop(<<"index.md">>) \in Seq(P)
      /\ AtTop(<<"index.md">>) # <<>>
  BY <1>1, FileLists
<1>5. CategoryFiles(m) \in Seq(P)
  BY <1>3, <1>4 DEF CategoryFiles
<1>6. FilesOf(m) \in Seq(P) /\ FilesOf(m) # <<>>
  BY <1>2, <1>3, <1>4, <1>5 DEF FilesOf
<1> QED  BY <1>6, SequenceRange

\* A file once written stays as its run wrote it, the rest of the tree as it was.
WritingAgent(m) ==
    /\ m \in Manifests /\ ManifestErrors(m) = {}
    /\ job.m = {m} /\ job.todo # <<>>
    /\ job.todo \in Seq(Range(FilesOf(m)))
    /\ \A p \in Range(FilesOf(m)) :
          tree[p] = PackageName(m) \/ p \in Range(job.todo)
    /\ \A p \in Paths \ Range(FilesOf(m)) : tree[p] = before[p]

\* Without --overwrite a run starts on an empty tree, so the tree holds files of
\* one agent, whole or torn, until it is emptied.
UnaskedTree ==
    /\ \E agent : \A p \in Paths \ {Notes} : tree[p] \in {"absent", "torn", agent}
    /\ job # NoJob =>
          /\ Present(before) = {}
          /\ \A p \in Paths \ {Notes} : tree[p] \in {"absent", PackageName(Running)}

ScaffoldInv ==
    /\ DOMAIN tree = Paths /\ tree = [p \in Paths |-> tree[p]]
    /\ overwrote \in BOOLEAN
    /\ job = NoJob \/ \E m \in Manifests : WritingAgent(m)
    /\ exit = "ok" => CompleteWhenOk
    /\ ~overwrote => UnaskedTree

LEMMA ScaffoldInitInv == ScaffoldInit => ScaffoldInv
BY DEF ScaffoldInit, ScaffoldInv, UnaskedTree

LEMMA JobRunning ==
    ASSUME NEW m, WritingAgent(m)
    PROVE  Running = m /\ job # NoJob
BY DEF WritingAgent, Running, NoJob

LEMMA InitAgentKeeps ==
    ASSUME ScaffoldInv, NEW m \in Manifests, NEW overwrite \in BOOLEAN,
           InitAgent(m, overwrite)
    PROVE  ScaffoldInv'
<1>1. CASE ManifestErrors(m) # {} \/ Refused(overwrite)
  BY <1>1 DEF InitAgent, ScaffoldInv, UnaskedTree, CompleteWhenOk, NoJob
<1>2. CASE ManifestErrors(m) = {} /\ ~Refused(overwrite)
  <2>1. /\ job' = [m |-> {m}, todo |-> FilesOf(m)]
        /\ exit' = "none" /\ before' = tree /\ tree' = tree
        /\ overwrote' = (overwrote \/ overwrite)
    BY <1>2 DEF InitAgent
  <2>2. WritingAgent(m)'
    BY <1>2, <2>1, FilesSequence DEF WritingAgent
  <2>3. ASSUME ~overwrote' PROVE UnaskedTree'
    <3>1. Present(tree) = {}
      BY <1>2, <2>1, <2>3 DEF Refused
    <3> QED  BY <2>1, <3>1 DEF UnaskedTree, Present, Paths
  <2> QED  BY <2>1, <2>2, <2>3 DEF ScaffoldInv
<1> QED  BY <1>1, <1>2

LEMMA WriteFileKeeps ==
    ASSUME ScaffoldInv, WriteFile
    PROVE  ScaffoldInv'
<1>1. job # NoJob
  BY DEF WriteFile, NoJob
<1>2. PICK m \in Manifests : WritingAgent(m)
  BY <1>1 DEF ScaffoldInv
<1>3. Running = m
  BY <1>2, JobRunning
<1> DEFINE F == Range(FilesOf(m))
           left == job.todo
           agent == PackageName(m)
<1>4. /\ left \in Seq(F) /\ left # <<>> /\ F \subseteq Paths
      /\ Head(left) \in F /\ Tail(left) \in Seq(F)
      /\ \A p \in Range(left) : p = Head(left) \/ p \in Range(Tail(left))
      /\ Len(left) = 1 => Range(Tail(left)) = {}
      /\ Len(left) # 1 => Tail(left) # <<>>
  <2>1. left \in Seq(F) /\ left # <<>> /\ F \subseteq Paths
    BY <1>2 DEF WritingAgent, Paths
  <2> HIDE DEF left, F
  <2>2. /\ Head(left) \in F /\ Tail(left) \in Seq(F)
        /\ Len(Tail(left)) = Len(left) - 1 /\ Len(left) \in Nat \ {0}
        /\ \A i \in 1 .. Len(left) - 1 : Tail(left)[i] = left[i + 1]
    BY <2>1
  <2>3. ASSUME NEW p \in Range(left)
        PROVE  p = Head(left) \/ p \in Range(Tail(left))
    <3>1. PICK i \in 1 .. Len(left) : p = left[i]
      BY <2>1 DEF Range
    <3>2. CASE i = 1
      BY <2>1, <3>1, <3>2
    <3>3. CASE i # 1
      <4>1. i - 1 \in DOMAIN Tail(left) /\ Tail(left)[i - 1] = left[i]
        BY <2>2, <3>3
      <4> QED  BY <3>1, <4>1 DEF Range
    <3> QED  BY <3>2, <3>3
  <2>4. ASSUME Len(left) = 1 PROVE Range(Tail(left)) = {}
    <3>1. Len(Tail(left)) = 0
      BY <2>2, <2>4
    <3>2. Tail(left) = <<>>
      BY <2>2, <3>1, EmptySeq
    <3> QED  BY <3>2 DEF Range
  <2>5. Len(left) # 1 => Tail(left) # <<>>
    BY <2>2
  <2> QED  BY <2>1, <2>2, <2>3, <2>4, <2>5
<1>5. /\ tree' = [tree EXCEPT ![Head(left)] = agent]
      /\ UNCHANGED <<before, overwrote>>
      /\ job' = IF Len(left) = 1 THEN NoJob ELSE [job EXCEPT !.todo = Tail(@)]
      /\ exit' = IF Len(left) = 1 THEN "ok" ELSE "none"
  BY <1>3 DEF WriteFile
<1>6. /\ DOMAIN tree' = Paths /\ tree' = [p \in Paths |-> tree'[p]]
      /\ tree'[Head(left)] = agent
      /\ \A p \in Paths \ {Head(left)} : tree'[p] = tree[p]
  BY <1>4, <1>5 DEF ScaffoldInv
<1>7. /\ \A p \in F : tree'[p] = agent \/ p \in Range(Tail(left))
      /\ \A p \in Paths \ F : tree'[p] = before'[p]
  BY <1>2, <1>4, <1>5, <1>6 DEF WritingAgent
<1>8. ASSUME ~overwrote'
      PROVE  UnaskedTree'
  <2>1. \A p \in Paths \ {Notes} : tree'[p] \in {"absent", agent}
    BY <1>1, <1>3, <1>5, <1>6, <1>8 DEF ScaffoldInv, UnaskedTree
  <2>2. job' # NoJob => Running' = m
    BY <1>2, <1>5 DEF Running, WritingAgent, NoJob
  <2>3. Present(before) = {} /\ Present(before)' = Present(before')
    BY <1>1, <1>5, <1>8 DEF ScaffoldInv, UnaskedTree
  <2> QED  BY <1>5, <2>1, <2>2, <2>3 DEF UnaskedTree
<1>9. CASE Len(left) = 1
  <2>1. Range(Tail(left)) = {}
    BY <1>4, <1>9
  <2>2. CompleteWhenOk'
    BY <1>2, <1>7, <2>1 DEF CompleteWhenOk, WritingAgent
  <2> QED  BY <1>5, <1>6, <1>8, <1>9, <2>2 DEF ScaffoldInv
<1>10. CASE Len(left) # 1
  <2>1. job' = [job EXCEPT !.todo = Tail(left)] /\ exit' = "none"
    BY <1>5, <1>10
  <2>2. job'.m = {m} /\ job'.todo = Tail(left)
    BY <1>1, <1>2, <2>1 DEF WritingAgent
  <2>3. WritingAgent(m)'
    BY <1>2, <1>4, <1>7, <1>10, <2>2 DEF WritingAgent
  <2> QED  BY <1>5, <1>6, <1>8, <2>1, <2>3 DEF ScaffoldInv
<1> QED  BY <1>9, <1>10

LEMMA StopWritingKeeps ==
    ASSUME ScaffoldInv, StopWriting
    PROVE  ScaffoldInv'
<1>1. PICK m \in Manifests : WritingAgent(m)
  BY DEF ScaffoldInv, StopWriting, NoJob
<1>2. Running = m /\ job # NoJob
  BY <1>1, JobRunning
<1>3. job' = NoJob /\ exit' = "failed" /\ UNCHANGED <<before, overwrote>>
  BY DEF StopWriting
<1>4. /\ DOMAIN tree' = Paths /\ tree' = [p \in Paths |-> tree'[p]]
      /\ \A p \in Paths : tree'[p] \in {tree[p], "torn"}
  BY DEF StopWriting, ScaffoldInv
<1>5. ASSUME ~overwrote PROVE UnaskedTree'
  <2>1. \A p \in Paths \ {Notes} : tree'[p] \in {"absent", "torn", PackageName(m)}
    BY <1>2, <1>4, <1>5 DEF ScaffoldInv, UnaskedTree
  <2> QED  BY <1>3, <2>1 DEF UnaskedTree
<1> QED  BY <1>3, <1>4, <1>5 DEF ScaffoldInv

LEMMA EditTreeKeeps ==
    ASSUME ScaffoldInv, EditTree
    PROVE  ScaffoldInv'
<1>1. job = NoJob /\ job' = NoJob /\ exit' = "none"
  BY DEF EditTree
<1>2. /\ DOMAIN tree' = Paths /\ tree' = [p \in Paths |-> tree'[p]]
      /\ \/ tree' = [p \in Paths |-> "absent"]
         \/ /\ tree' = [tree EXCEPT ![Notes] = "user"]
            /\ \A p \in Paths \ {Notes} : tree'[p] = tree[p]
            /\ tree'[Notes] = "user"
  BY DEF EditTree, ScaffoldInv, Paths
<1>3. ASSUME ~overwrote' PROVE UnaskedTree'
  <2>1. CASE tree' = [p \in Paths |-> "absent"]
    BY <1>1, <2>1 DEF UnaskedTree
  <2>2. CASE /\ \A p \in Paths \ {Notes} : tree'[p] = tree[p]
             /\ tree'[Notes] = "user"
    <3>1. Notes \in Present(tree')
      BY <2>2 DEF Present, Paths
    <3>2. ~overwrote
      BY <1>3, <3>1 DEF EditTree
    <3> QED  BY <1>1, <2>2, <3>2 DEF ScaffoldInv, UnaskedTree
  <2> QED  BY <1>2, <2>1, <2>2
<1>4. overwrote' \in BOOLEAN
  BY DEF EditTree
<1> QED  BY <1>1, <1>2, <1>3, <1>4 DEF ScaffoldInv

LEMMA ScaffoldStep == ScaffoldInv /\ [ScaffoldNext]_scaffoldVars => ScaffoldInv'
<1> SUFFICES ASSUME ScaffoldInv, [ScaffoldNext]_scaffoldVars
             PROVE  ScaffoldInv'
  OBVIOUS
<1>1. CASE UNCHANGED scaffoldVars
  BY <1>1 DEF scaffoldVars, ScaffoldInv, WritingAgent, UnaskedTree, CompleteWhenOk,
              Running
<1> QED
  BY <1>1, InitAgentKeeps, WriteFileKeeps, StopWritingKeeps, EditTreeKeeps
     DEF ScaffoldNext

\* Whatever the manifests and however often init-agent is run, interrupted and run
\* again: a run that ends well leaves a whole agent and touches nothing else, and
\* nothing is mixed that --overwrite did not ask to mix.
THEOREM ScaffoldSoundAlways == ScaffoldSpec => []ScaffoldSound
<1>1. ASSUME ScaffoldInv PROVE ScaffoldSound
  <2>1. CompleteWhenOk
    BY <1>1 DEF ScaffoldInv, CompleteWhenOk
  <2>2. OneAgentUnlessOverwritten
    BY <1>1 DEF ScaffoldInv, UnaskedTree, OneAgentUnlessOverwritten, Present
  <2> QED  BY <2>1, <2>2 DEF ScaffoldSound
<1>2. ScaffoldInv => ScaffoldSound
  BY <1>1
<1> QED
  BY <1>2, ScaffoldInitInv, ScaffoldStep, PTL DEF ScaffoldSpec
-----------------------------------------------------------------------------
(***************************************************************************)
(* Imports into the knowledge graph                                        *)
(***************************************************************************)

\* What a list of lists has is what one of them has.
LEMMA FlattenedEach ==
    ASSUME NEW n \in Nat, NEW seqs, DOMAIN seqs = 1 .. n, seqs = [i \in 1 .. n |-> seqs[i]],
           \A i \in 1 .. n : seqs[i] \in Seq(Range(seqs[i]))
    PROVE  /\ FlattenSeq(seqs) \in Seq(Range(FlattenSeq(seqs)))
           /\ \A i \in 1 .. n : \A e \in Range(seqs[i]) : e \in Range(FlattenSeq(seqs))
           /\ \A e \in Range(FlattenSeq(seqs)) : \E i \in 1 .. n : e \in Range(seqs[i])
<1> DEFINE T == UNION {Range(seqs[i]) : i \in 1 .. n}
<1>1. \A i \in 1 .. n : seqs[i] \in Seq(T)
  <2> TAKE i \in 1 .. n
  <2>1. Range(seqs[i]) \subseteq T
    OBVIOUS
  <2> HIDE DEF T
  <2> QED  BY <2>1, WidenedSequence
<1>2. seqs \in Seq(Seq(T))
  <2> HIDE DEF T
  <2> QED  BY <1>1
<1>3. \A e : e \in T <=> \E i \in 1 .. n : e \in Range(seqs[i])
  OBVIOUS
<1> HIDE DEF T
<1>4. /\ FlattenSeq(seqs) \in Seq(T)
      /\ \A i \in DOMAIN seqs : Range(seqs[i]) \subseteq Range(FlattenSeq(seqs))
  BY <1>2, FlattenedSequence
<1>5. FlattenSeq(seqs) \in Seq(Range(FlattenSeq(seqs))) /\ Range(FlattenSeq(seqs)) \subseteq T
  BY <1>4, SequenceRange
<1> QED  BY <1>3, <1>4, <1>5

\* The IDs of a list of rows.
RowIds(rows) == {r.id : r \in ToSet(rows)}

LEMMA AList ==
    ASSUME NEW S, NEW s \in Seq(S)
    PROVE  IsList(s) /\ ToSet(s) \subseteq S
BY DEF IsList, ToSet

LEMMA ListOfOneOrTwo ==
    /\ IsList(<<>>) /\ \A id : id \notin RowIds(<<>>)
    /\ \A x : IsList(<<x>>) /\ \A id : id \in RowIds(<<x>>) <=> id = x.id
    /\ \A x, y : IsList(<<x, y>>) /\ \A id : id \in RowIds(<<x, y>>) <=> id = x.id \/ id = y.id
<1>1. IsList(<<>>) /\ \A id : id \notin RowIds(<<>>)
  <2>1. <<>> \in Seq({}) /\ ToSet(<<>>) = {}
    BY DEF ToSet
  <2> QED  BY <2>1, AList DEF RowIds
<1>2. ASSUME NEW x PROVE IsList(<<x>>) /\ \A id : id \in RowIds(<<x>>) <=> id = x.id
  <2>1. <<x>> \in Seq({x}) /\ ToSet(<<x>>) = {x}
    BY DEF ToSet
  <2> QED  BY <2>1, AList DEF RowIds
<1>3. ASSUME NEW x, NEW y
      PROVE  IsList(<<x, y>>) /\ \A id : id \in RowIds(<<x, y>>) <=> id = x.id \/ id = y.id
  <2>1. <<x, y>> \in Seq({x, y}) /\ ToSet(<<x, y>>) = {x, y}
    BY DEF ToSet
  <2> QED  BY <2>1, AList DEF RowIds
<1> QED  BY <1>1, <1>2, <1>3

LEMMA ListsJoined ==
    ASSUME NEW s, NEW t, IsList(s), IsList(t)
    PROVE  /\ IsList(s \o t)
           /\ \A id : id \in RowIds(s \o t) <=> id \in RowIds(s) \/ id \in RowIds(t)
<1> DEFINE S == ToSet(s) \cup ToSet(t)
<1>1. s \in Seq(S) /\ t \in Seq(S)
  BY SeqMonotonic DEF IsList
<1>2. \A w : ToSet(w) = Range(w)
  BY DEF ToSet, Range
<1> HIDE DEF S
<1>3. s \o t \in Seq(S) /\ ToSet(s \o t) = ToSet(s) \cup ToSet(t)
  BY <1>1, <1>2, RangeOfJoined
<1>4. IsList(s \o t)
  BY <1>3, AList
<1> QED  BY <1>3, <1>4 DEF RowIds

LEMMA WhenList ==
    ASSUME NEW condition \in BOOLEAN, NEW rows, IsList(rows)
    PROVE  /\ IsList(When(condition, rows))
           /\ \A id : id \in RowIds(When(condition, rows)) <=> condition /\ id \in RowIds(rows)
BY ListOfOneOrTwo DEF When

\* One list for each element of a list.
LEMMA ListForEach ==
    ASSUME NEW list, IsList(list),
           NEW g, g = [i \in DOMAIN list |-> g[i]],
           \A i \in DOMAIN list : IsList(g[i])
    PROVE  /\ IsList(FlattenSeq(g))
           /\ \A id : id \in RowIds(FlattenSeq(g)) <=> \E i \in DOMAIN list : id \in RowIds(g[i])
<1> DEFINE n == Len(list)
<1>1. DOMAIN list = 1 .. n /\ n \in Nat
  BY DEF IsList
<1>2. \A w : ToSet(w) = Range(w)
  BY DEF ToSet, Range
<1> HIDE DEF n
<1>3. DOMAIN g = 1 .. n /\ g = [i \in 1 .. n |-> g[i]] /\ \A i \in 1 .. n : g[i] \in Seq(Range(g[i]))
  BY <1>1, <1>2 DEF IsList
<1>4. /\ FlattenSeq(g) \in Seq(Range(FlattenSeq(g)))
      /\ \A i \in 1 .. n : \A e \in Range(g[i]) : e \in Range(FlattenSeq(g))
      /\ \A e \in Range(FlattenSeq(g)) : \E i \in 1 .. n : e \in Range(g[i])
  BY <1>1, <1>3, FlattenedEach
<1> QED  BY <1>1, <1>2, <1>4 DEF IsList, RowIds

\* The IDs of the rows of each thing.
ModuleGives(m, id) ==
    LET mid == NodeId("module", m.name) IN
    \/ id = mid
    \/ \E r \in ToSet(m.resets) :
          id = NodeId("reset_domain", r) \/ id = EdgeId("reset_of", NodeId("reset_domain", r), mid)
    \/ \E i \in ToSet(m.interfaces) :
          id = InterfaceId(m.name, i) \/ id = EdgeId("exposes", mid, InterfaceId(m.name, i))
    \/ \E s \in ToSet(m.signals) :
          LET sid == NodeId("signal", <<m.name, s.name>>) IN
          \/ id = sid \/ id = EdgeId("in_module", sid, mid)
          \/ s.interface # "" /\ id = EdgeId("on_interface", sid, InterfaceId(m.name, s.interface))
          \/ s.reset # "" /\ id = EdgeId("depends_on_reset", sid, NodeId("reset_domain", s.reset))

PropertyGives(p, id) ==
    LET aid == NodeId("assertion", p.id) IN
    \/ id = aid
    \/ p.module # "" /\ id = EdgeId("in_module", aid, NodeId("module", p.module))
    \/ \E r \in ToSet(p.requirements) :
          id = NodeId("requirement", r) \/ id = EdgeId("asserts", aid, NodeId("requirement", r))
    \/ \E r \in ToSet(p.resets) : id = EdgeId("depends_on_reset", aid, NodeId("reset_domain", r))
    \/ \E i \in ToSet(p.interfaces) : id = EdgeId("on_interface", aid, InterfaceId(p.module, i))

TestGives(t, id) ==
    LET tid == NodeId("test", t.id) IN
    \/ id = tid
    \/ \E r \in ToSet(t.requirements) :
          id = NodeId("requirement", r) \/ id = EdgeId("tests", tid, NodeId("requirement", r))
    \/ \E b \in ToSet(t.bins) : id = EdgeId("covers", tid, NodeId("coverage_bin", b))

PlanGives(plan, id) ==
    \/ \E r \in ToSet(plan.requirements) : id = NodeId("requirement", r)
    \/ \E t \in ToSet(plan.tests) : TestGives(t, id)

BinGives(b, id) ==
    LET bid == NodeId("coverage_bin", b.id) IN
    \/ id = bid
    \/ b.module # "" /\ id = EdgeId("coverage_of", bid, NodeId("module", b.module))
    \/ b.interface # "" /\ id = EdgeId("coverage_of", bid, InterfaceId(b.module, b.interface))

FailureGives(rid, f, id) ==
    LET fid == NodeId("failure", f.id) IN
    \/ id = fid \/ id = EdgeId("produced", rid, fid)
    \/ f.assertion # "" /\ id = EdgeId("failure_of", fid, NodeId("assertion", f.assertion))
    \/ f.test # "" /\ id = EdgeId("failure_of", fid, NodeId("test", f.test))
    \/ \E q \in ToSet(f.interfaces) : id = EdgeId("affects_interface", fid, InterfaceId(q[1], q[2]))
    \/ f.waiver # "" /\ (\/ id = NodeId("waiver", f.waiver)
                          \/ id = EdgeId("waives", NodeId("waiver", f.waiver), fid))
    \/ f.bug # "" /\ (id = NodeId("bug", f.bug) \/ id = EdgeId("filed_as", fid, NodeId("bug", f.bug)))

RunGives(run, id) ==
    LET rid == NodeId("regression", run.id) IN
    id = rid \/ \E f \in ToSet(run.failures) : FailureGives(rid, f, id)

ClaimGives(c, id) ==
    LET cid == NodeId("evidence_claim", c.id) IN
    \/ id = cid
    \/ \E b \in ToSet(c.benchmarks) :
          id = NodeId("benchmark", b) \/ id = EdgeId("supported_by", cid, NodeId("benchmark", b))

LEMMA IdsOfRows ==
    /\ \A id, attrs : Upsert(id, attrs).id = id
    /\ \A id : Stub(id).id = id
    /\ \A type, src, dst : Link(type, src, dst).id = EdgeId(type, src, dst)
BY DEF Upsert, Stub, Link

LEMMA ModuleRowsList ==
    ASSUME NEW m, IsList(m.resets), IsList(m.interfaces), IsList(m.signals)
    PROVE  /\ IsList(ModuleRows(m))
           /\ \A id : id \in RowIds(ModuleRows(m)) <=> ModuleGives(m, id)
<1> DEFINE mid == NodeId("module", m.name)
           OfReset(r) == <<Upsert(NodeId("reset_domain", r), "full"),
                           Link("reset_of", NodeId("reset_domain", r), mid)>>
           OfInterface(i) == <<Upsert(InterfaceId(m.name, i), "full"),
                               Link("exposes", mid, InterfaceId(m.name, i))>>
           sid(s) == NodeId("signal", <<m.name, s.name>>)
           onInterface(s) ==
               <<Link("on_interface", sid(s), InterfaceId(m.name, s.interface))>>
           onReset(s) ==
               <<Link("depends_on_reset", sid(s), NodeId("reset_domain", s.reset))>>
           OfSignal(s) ==
               <<Upsert(sid(s), "full"), Link("in_module", sid(s), mid)>>
               \o When(s.interface # "", onInterface(s))
               \o When(s.reset # "", onReset(s))
           resets == [i \in DOMAIN m.resets |-> OfReset(m.resets[i])]
           interfaces == [i \in DOMAIN m.interfaces |-> OfInterface(m.interfaces[i])]
           signals == [i \in DOMAIN m.signals |-> OfSignal(m.signals[i])]
           ResetIds(r, id) == \/ id = NodeId("reset_domain", r)
                              \/ id = EdgeId("reset_of", NodeId("reset_domain", r), mid)
           InterfaceIds(i, id) == \/ id = InterfaceId(m.name, i)
                                  \/ id = EdgeId("exposes", mid, InterfaceId(m.name, i))
           SignalIds(s, id) ==
               \/ id = sid(s) \/ id = EdgeId("in_module", sid(s), mid)
               \/ /\ s.interface # ""
                  /\ id = EdgeId("on_interface", sid(s), InterfaceId(m.name, s.interface))
               \/ /\ s.reset # ""
                  /\ id = EdgeId("depends_on_reset", sid(s), NodeId("reset_domain", s.reset))
<1>1. /\ IsList(FlattenSeq(resets))
      /\ \A id : id \in RowIds(FlattenSeq(resets)) <=> \E r \in ToSet(m.resets) : ResetIds(r, id)
  <2>1. \A r : IsList(OfReset(r)) /\ \A id : id \in RowIds(OfReset(r)) <=> ResetIds(r, id)
    BY ListOfOneOrTwo, IdsOfRows
  <2> HIDE DEF OfReset, ResetIds
  <2>2. /\ IsList(FlattenSeq(resets))
        /\ \A id : id \in RowIds(FlattenSeq(resets)) <=>
                       \E i \in DOMAIN m.resets : id \in RowIds(resets[i])
    BY <2>1, ListForEach
  <2> QED  BY <2>1, <2>2 DEF ToSet
<1>2. /\ IsList(FlattenSeq(interfaces))
      /\ \A id : id \in RowIds(FlattenSeq(interfaces)) <=>
                     \E i \in ToSet(m.interfaces) : InterfaceIds(i, id)
  <2>1. \A i : IsList(OfInterface(i)) /\ \A id : id \in RowIds(OfInterface(i)) <=> InterfaceIds(i, id)
    BY ListOfOneOrTwo, IdsOfRows
  <2> HIDE DEF OfInterface, InterfaceIds
  <2>2. /\ IsList(FlattenSeq(interfaces))
        /\ \A id : id \in RowIds(FlattenSeq(interfaces)) <=>
                       \E i \in DOMAIN m.interfaces : id \in RowIds(interfaces[i])
    BY <2>1, ListForEach
  <2> QED  BY <2>1, <2>2 DEF ToSet
<1>3. ASSUME NEW s
      PROVE  IsList(OfSignal(s)) /\ \A id : id \in RowIds(OfSignal(s)) <=> SignalIds(s, id)
  <2> DEFINE first == <<Upsert(sid(s), "full"), Link("in_module", sid(s), mid)>>
  <2>1. /\ IsList(first)
        /\ \A id : id \in RowIds(first) <=> id = sid(s) \/ id = EdgeId("in_module", sid(s), mid)
    BY ListOfOneOrTwo, IdsOfRows
  <2>2. /\ IsList(onInterface(s)) /\ IsList(onReset(s))
        /\ \A id : id \in RowIds(onInterface(s)) <=>
                       id = EdgeId("on_interface", sid(s), InterfaceId(m.name, s.interface))
        /\ \A id : id \in RowIds(onReset(s)) <=>
                       id = EdgeId("depends_on_reset", sid(s), NodeId("reset_domain", s.reset))
    BY ListOfOneOrTwo, IdsOfRows
  <2> HIDE DEF onInterface, onReset, sid, mid, first
  <2> DEFINE one == When(s.interface # "", onInterface(s))
             two == When(s.reset # "", onReset(s))
  <2>3. /\ IsList(one)
        /\ \A id : id \in RowIds(one) <=> s.interface # "" /\ id \in RowIds(onInterface(s))
    BY <2>2, WhenList
  <2>4. /\ IsList(two)
        /\ \A id : id \in RowIds(two) <=> s.reset # "" /\ id \in RowIds(onReset(s))
    BY <2>2, WhenList
  <2>5. OfSignal(s) = first \o one \o two
    BY DEF first
  <2>6. \A id : SignalIds(s, id) <=>
                 \/ id = sid(s) \/ id = EdgeId("in_module", sid(s), mid)
                 \/ s.interface # "" /\ id \in RowIds(onInterface(s))
                 \/ s.reset # "" /\ id \in RowIds(onReset(s))
    BY <2>2
  <2> HIDE DEF OfSignal, SignalIds, one, two
  <2>7. /\ IsList(OfSignal(s))
        /\ \A id : id \in RowIds(OfSignal(s)) <=>
                       id \in RowIds(first) \/ id \in RowIds(one) \/ id \in RowIds(two)
    BY <2>1, <2>3, <2>4, <2>5, ListsJoined
  <2> QED  BY <2>1, <2>3, <2>4, <2>6, <2>7
<1>4. /\ IsList(FlattenSeq(signals))
      /\ \A id : id \in RowIds(FlattenSeq(signals)) <=> \E s \in ToSet(m.signals) : SignalIds(s, id)
  <2> HIDE DEF OfSignal, SignalIds
  <2>1. /\ IsList(FlattenSeq(signals))
        /\ \A id : id \in RowIds(FlattenSeq(signals)) <=>
                       \E i \in DOMAIN m.signals : id \in RowIds(signals[i])
    BY <1>3, ListForEach
  <2> QED  BY <1>3, <2>1 DEF ToSet
<1>5. IsList(<<Upsert(mid, "full")>>) /\ \A id : id \in RowIds(<<Upsert(mid, "full")>>) <=> id = mid
  BY ListOfOneOrTwo, IdsOfRows
<1>6. ModuleRows(m) = <<Upsert(mid, "full")>> \o FlattenSeq(resets)
                      \o FlattenSeq(interfaces) \o FlattenSeq(signals)
  BY DEF ModuleRows, ForEach
<1>7. \A id : ModuleGives(m, id) <=>
                 \/ id = mid \/ \E r \in ToSet(m.resets) : ResetIds(r, id)
                 \/ \E i \in ToSet(m.interfaces) : InterfaceIds(i, id)
                 \/ \E s \in ToSet(m.signals) : SignalIds(s, id)
  BY DEF ModuleGives
<1> HIDE DEF mid, resets, interfaces, signals, ResetIds, InterfaceIds, SignalIds
<1>8. /\ IsList(ModuleRows(m))
      /\ \A id : id \in RowIds(ModuleRows(m)) <=>
                     \/ id \in RowIds(<<Upsert(mid, "full")>>) \/ id \in RowIds(FlattenSeq(resets))
                     \/ id \in RowIds(FlattenSeq(interfaces)) \/ id \in RowIds(FlattenSeq(signals))
  BY <1>1, <1>2, <1>4, <1>5, <1>6, ListsJoined
<1> QED  BY <1>1, <1>2, <1>4, <1>5, <1>7, <1>8

LEMMA PropertyRowsList ==
    ASSUME NEW p, IsList(p.requirements), IsList(p.resets), IsList(p.interfaces)
    PROVE  /\ IsList(PropertyRows(p))
           /\ \A id : id \in RowIds(PropertyRows(p)) <=> PropertyGives(p, id)
<1> DEFINE aid == NodeId("assertion", p.id)
           OfRequirement(r) == <<Stub(NodeId("requirement", r)),
                                 Link("asserts", aid, NodeId("requirement", r))>>
           OfReset(r) == <<Link("depends_on_reset", aid, NodeId("reset_domain", r))>>
           OfInterface(i) == <<Link("on_interface", aid, InterfaceId(p.module, i))>>
           inModule == <<Link("in_module", aid, NodeId("module", p.module))>>
           requirements ==
               [i \in DOMAIN p.requirements |-> OfRequirement(p.requirements[i])]
           resets == [i \in DOMAIN p.resets |-> OfReset(p.resets[i])]
           interfaces == [i \in DOMAIN p.interfaces |-> OfInterface(p.interfaces[i])]
           RequirementIds(r, id) == \/ id = NodeId("requirement", r)
                                    \/ id = EdgeId("asserts", aid, NodeId("requirement", r))
           one == <<Upsert(aid, "full")>>
           two == When(p.module # "", inModule)
<1>1. /\ IsList(FlattenSeq(requirements))
      /\ \A id : id \in RowIds(FlattenSeq(requirements)) <=>
                     \E r \in ToSet(p.requirements) : RequirementIds(r, id)
  <2>1. \A r : IsList(OfRequirement(r)) /\ \A id : id \in RowIds(OfRequirement(r)) <=> RequirementIds(r, id)
    BY ListOfOneOrTwo, IdsOfRows
  <2> HIDE DEF OfRequirement, RequirementIds
  <2>2. /\ IsList(FlattenSeq(requirements))
        /\ \A id : id \in RowIds(FlattenSeq(requirements)) <=>
                       \E i \in DOMAIN p.requirements : id \in RowIds(requirements[i])
    BY <2>1, ListForEach
  <2> QED  BY <2>1, <2>2 DEF ToSet
<1>2. /\ IsList(FlattenSeq(resets))
      /\ \A id : id \in RowIds(FlattenSeq(resets)) <=>
                     \E r \in ToSet(p.resets) : id = EdgeId("depends_on_reset", aid, NodeId("reset_domain", r))
  <2>1. \A r : /\ IsList(OfReset(r))
               /\ \A id : id \in RowIds(OfReset(r)) <=>
                              id = EdgeId("depends_on_reset", aid, NodeId("reset_domain", r))
    BY ListOfOneOrTwo, IdsOfRows
  <2> HIDE DEF OfReset
  <2>2. /\ IsList(FlattenSeq(resets))
        /\ \A id : id \in RowIds(FlattenSeq(resets)) <=>
                       \E i \in DOMAIN p.resets : id \in RowIds(resets[i])
    BY <2>1, ListForEach
  <2> QED  BY <2>1, <2>2 DEF ToSet
<1>3. /\ IsList(FlattenSeq(interfaces))
      /\ \A id : id \in RowIds(FlattenSeq(interfaces)) <=>
                     \E i \in ToSet(p.interfaces) : id = EdgeId("on_interface", aid, InterfaceId(p.module, i))
  <2>1. \A i : /\ IsList(OfInterface(i))
               /\ \A id : id \in RowIds(OfInterface(i)) <=>
                              id = EdgeId("on_interface", aid, InterfaceId(p.module, i))
    BY ListOfOneOrTwo, IdsOfRows
  <2> HIDE DEF OfInterface
  <2>2. /\ IsList(FlattenSeq(interfaces))
        /\ \A id : id \in RowIds(FlattenSeq(interfaces)) <=>
                       \E i \in DOMAIN p.interfaces : id \in RowIds(interfaces[i])
    BY <2>1, ListForEach
  <2> QED  BY <2>1, <2>2 DEF ToSet
<1>4. IsList(one) /\ \A id : id \in RowIds(one) <=> id = aid
  BY ListOfOneOrTwo, IdsOfRows
<1>5. /\ IsList(two)
      /\ \A id : id \in RowIds(two) <=>
                     p.module # "" /\ id = EdgeId("in_module", aid, NodeId("module", p.module))
  <2>1. /\ IsList(inModule)
        /\ \A id : id \in RowIds(inModule) <=> id = EdgeId("in_module", aid, NodeId("module", p.module))
    BY ListOfOneOrTwo, IdsOfRows
  <2> HIDE DEF inModule
  <2> QED  BY <2>1, WhenList
<1>6. PropertyRows(p) = one \o two \o FlattenSeq(requirements) \o FlattenSeq(resets)
                        \o FlattenSeq(interfaces)
  BY DEF PropertyRows, ForEach
<1>7. \A id : PropertyGives(p, id) <=>
                 \/ id = aid
                 \/ p.module # "" /\ id = EdgeId("in_module", aid, NodeId("module", p.module))
                 \/ \E r \in ToSet(p.requirements) : RequirementIds(r, id)
                 \/ \E r \in ToSet(p.resets) : id = EdgeId("depends_on_reset", aid, NodeId("reset_domain", r))
                 \/ \E i \in ToSet(p.interfaces) : id = EdgeId("on_interface", aid, InterfaceId(p.module, i))
  BY DEF PropertyGives
<1> HIDE DEF aid, one, two, requirements, resets, interfaces, RequirementIds
<1>8. /\ IsList(PropertyRows(p))
      /\ \A id : id \in RowIds(PropertyRows(p)) <=>
                     \/ id \in RowIds(one) \/ id \in RowIds(two)
                     \/ id \in RowIds(FlattenSeq(requirements)) \/ id \in RowIds(FlattenSeq(resets))
                     \/ id \in RowIds(FlattenSeq(interfaces))
  <2> DEFINE front == one \o two \o FlattenSeq(requirements)
  <2>1. /\ IsList(front)
        /\ \A id : id \in RowIds(front) <=>
                       id \in RowIds(one) \/ id \in RowIds(two) \/ id \in RowIds(FlattenSeq(requirements))
    BY <1>1, <1>4, <1>5, ListsJoined
  <2>2. PropertyRows(p) = front \o FlattenSeq(resets) \o FlattenSeq(interfaces)
    BY <1>6
  <2> HIDE DEF front
  <2> QED  BY <1>2, <1>3, <2>1, <2>2, ListsJoined
<1> QED  BY <1>1, <1>2, <1>3, <1>4, <1>5, <1>7, <1>8

LEMMA TestRowsList ==
    ASSUME NEW t, IsList(t.requirements), IsList(t.bins)
    PROVE  /\ IsList(TestRows(t))
           /\ \A id : id \in RowIds(TestRows(t)) <=> TestGives(t, id)
<1> DEFINE tid == NodeId("test", t.id)
           OfRequirement(r) == <<Stub(NodeId("requirement", r)),
                                 Link("tests", tid, NodeId("requirement", r))>>
           OfBin(b) == <<Link("covers", tid, NodeId("coverage_bin", b))>>
           requirements ==
               [i \in DOMAIN t.requirements |-> OfRequirement(t.requirements[i])]
           bins == [i \in DOMAIN t.bins |-> OfBin(t.bins[i])]
           RequirementIds(r, id) == \/ id = NodeId("requirement", r)
                                    \/ id = EdgeId("tests", tid, NodeId("requirement", r))
           one == <<Upsert(tid, "full")>>
<1>1. /\ IsList(FlattenSeq(requirements))
      /\ \A id : id \in RowIds(FlattenSeq(requirements)) <=>
                     \E r \in ToSet(t.requirements) : RequirementIds(r, id)
  <2>1. \A r : IsList(OfRequirement(r)) /\ \A id : id \in RowIds(OfRequirement(r)) <=> RequirementIds(r, id)
    BY ListOfOneOrTwo, IdsOfRows
  <2> HIDE DEF OfRequirement, RequirementIds
  <2>2. /\ IsList(FlattenSeq(requirements))
        /\ \A id : id \in RowIds(FlattenSeq(requirements)) <=>
                       \E i \in DOMAIN t.requirements : id \in RowIds(requirements[i])
    BY <2>1, ListForEach
  <2> QED  BY <2>1, <2>2 DEF ToSet
<1>2. /\ IsList(FlattenSeq(bins))
      /\ \A id : id \in RowIds(FlattenSeq(bins)) <=>
                     \E b \in ToSet(t.bins) : id = EdgeId("covers", tid, NodeId("coverage_bin", b))
  <2>1. \A b : /\ IsList(OfBin(b))
               /\ \A id : id \in RowIds(OfBin(b)) <=> id = EdgeId("covers", tid, NodeId("coverage_bin", b))
    BY ListOfOneOrTwo, IdsOfRows
  <2> HIDE DEF OfBin
  <2>2. /\ IsList(FlattenSeq(bins))
        /\ \A id : id \in RowIds(FlattenSeq(bins)) <=> \E i \in DOMAIN t.bins : id \in RowIds(bins[i])
    BY <2>1, ListForEach
  <2> QED  BY <2>1, <2>2 DEF ToSet
<1>3. IsList(one) /\ \A id : id \in RowIds(one) <=> id = tid
  BY ListOfOneOrTwo, IdsOfRows
<1>4. TestRows(t) = one \o FlattenSeq(requirements) \o FlattenSeq(bins)
  BY DEF TestRows, ForEach
<1>5. \A id : TestGives(t, id) <=>
                 \/ id = tid \/ \E r \in ToSet(t.requirements) : RequirementIds(r, id)
                 \/ \E b \in ToSet(t.bins) : id = EdgeId("covers", tid, NodeId("coverage_bin", b))
  BY DEF TestGives
<1> HIDE DEF tid, one, requirements, bins, RequirementIds
<1>6. /\ IsList(TestRows(t))
      /\ \A id : id \in RowIds(TestRows(t)) <=>
                     \/ id \in RowIds(one) \/ id \in RowIds(FlattenSeq(requirements))
                     \/ id \in RowIds(FlattenSeq(bins))
  BY <1>1, <1>2, <1>3, <1>4, ListsJoined
<1> QED  BY <1>1, <1>2, <1>3, <1>5, <1>6

\* A bin row tells whether the bin is a hole.
LEMMA BinRowsList ==
    ASSUME NEW b
    PROVE  /\ IsList(BinRows(b))
           /\ \A id : id \in RowIds(BinRows(b)) <=> BinGives(b, id)
           /\ \A r \in ToSet(BinRows(b)) : r.id[1] = "coverage_bin" =>
                 r = Upsert(NodeId("coverage_bin", b.id), IF b.hits < b.goal THEN "hole" ELSE "full")
<1> DEFINE bid == NodeId("coverage_bin", b.id)
           row == Upsert(bid, IF b.hits < b.goal THEN "hole" ELSE "full")
           inModule == <<Link("coverage_of", bid, NodeId("module", b.module))>>
           ofInterface ==
               <<Link("coverage_of", bid, InterfaceId(b.module, b.interface))>>
           one == <<row>>
           two == When(b.module # "", inModule)
           three == When(b.interface # "", ofInterface)
<1>1. IsList(one) /\ ToSet(one) = {row} /\ \A id : id \in RowIds(one) <=> id = bid
  <2>1. row.id = bid
    BY IdsOfRows
  <2>2. ToSet(one) = {row}
    BY DEF ToSet
  <2> HIDE DEF row
  <2> QED  BY <2>1, <2>2, ListOfOneOrTwo
<1>2. /\ IsList(two)
      /\ \A id : id \in RowIds(two) <=>
                     b.module # "" /\ id = EdgeId("coverage_of", bid, NodeId("module", b.module))
  <2>1. /\ IsList(inModule)
        /\ \A id : id \in RowIds(inModule) <=> id = EdgeId("coverage_of", bid, NodeId("module", b.module))
    BY ListOfOneOrTwo, IdsOfRows
  <2> HIDE DEF inModule
  <2> QED  BY <2>1, WhenList
<1>3. /\ IsList(three)
      /\ \A id : id \in RowIds(three) <=>
                     b.interface # "" /\ id = EdgeId("coverage_of", bid, InterfaceId(b.module, b.interface))
  <2>1. /\ IsList(ofInterface)
        /\ \A id : id \in RowIds(ofInterface) <=>
                       id = EdgeId("coverage_of", bid, InterfaceId(b.module, b.interface))
    BY ListOfOneOrTwo, IdsOfRows
  <2> HIDE DEF ofInterface
  <2> QED  BY <2>1, WhenList
<1>4. BinRows(b) = one \o two \o three
  BY DEF BinRows
<1>5. \A id : BinGives(b, id) <=>
                 \/ id = bid
                 \/ b.module # "" /\ id = EdgeId("coverage_of", bid, NodeId("module", b.module))
                 \/ b.interface # "" /\ id = EdgeId("coverage_of", bid, InterfaceId(b.module, b.interface))
  BY DEF BinGives
<1>6. \A type, src, dst : EdgeId(type, src, dst)[1] # "coverage_bin"
  BY DEF EdgeId
<1> HIDE DEF row, bid, one, two, three
<1>7. /\ IsList(BinRows(b))
      /\ \A id : id \in RowIds(BinRows(b)) <=>
                     id \in RowIds(one) \/ id \in RowIds(two) \/ id \in RowIds(three)
  BY <1>1, <1>2, <1>3, <1>4, ListsJoined
<1>8. \A id : id \in RowIds(BinRows(b)) <=> BinGives(b, id)
  BY <1>1, <1>2, <1>3, <1>5, <1>7
<1>9. \A r \in ToSet(BinRows(b)) : r \in ToSet(one) \/ r \in ToSet(two) \/ r \in ToSet(three)
  <2>1. \A w : ToSet(w) = Range(w)
    BY DEF ToSet, Range
  <2> DEFINE S == ToSet(one) \cup ToSet(two) \cup ToSet(three)
  <2>2. one \in Seq(S) /\ two \in Seq(S) /\ three \in Seq(S)
    BY <1>1, <1>2, <1>3, SeqMonotonic DEF IsList
  <2>3. \A r : r \in S <=> r \in ToSet(one) \/ r \in ToSet(two) \/ r \in ToSet(three)
    OBVIOUS
  <2> HIDE DEF S
  <2>4. /\ one \o two \in Seq(S) /\ ToSet(one \o two) = ToSet(one) \cup ToSet(two)
    BY <2>1, <2>2, RangeOfJoined
  <2>5. ToSet(BinRows(b)) = ToSet(one \o two) \cup ToSet(three)
    BY <1>4, <2>1, <2>2, <2>4, RangeOfJoined
  <2> QED  BY <2>4, <2>5
<1>10. ASSUME NEW r \in ToSet(BinRows(b)), r.id[1] = "coverage_bin" PROVE r = row
  <2>1. r \in ToSet(two) => r.id \in RowIds(two)
    BY DEF RowIds
  <2>2. r \in ToSet(three) => r.id \in RowIds(three)
    BY DEF RowIds
  <2> QED  BY <1>1, <1>2, <1>3, <1>6, <1>9, <1>10, <2>1, <2>2
<1>11. row = Upsert(NodeId("coverage_bin", b.id), IF b.hits < b.goal THEN "hole" ELSE "full")
  BY DEF row, bid
<1> QED  BY <1>7, <1>8, <1>10, <1>11

\* The rows of a failure of a regression.
FailureRows(rid, f) ==
    LET fid == NodeId("failure", f.id)
        OfInterface(q) == <<Link("affects_interface", fid, InterfaceId(q[1], q[2]))>>
    IN <<Upsert(fid, f.status), Link("produced", rid, fid)>>
       \o When(f.assertion # "", <<Link("failure_of", fid, NodeId("assertion", f.assertion))>>)
       \o When(f.test # "", <<Link("failure_of", fid, NodeId("test", f.test))>>)
       \o ForEach(f.interfaces, OfInterface)
       \o When(f.waiver # "", <<Upsert(NodeId("waiver", f.waiver), "full"),
                                Link("waives", NodeId("waiver", f.waiver), fid)>>)
       \o When(f.bug # "", <<Upsert(NodeId("bug", f.bug), "full"),
                             Link("filed_as", fid, NodeId("bug", f.bug))>>)

LEMMA FailureRowsList ==
    ASSUME NEW rid, NEW f, IsList(f.interfaces)
    PROVE  /\ IsList(FailureRows(rid, f))
           /\ \A id : id \in RowIds(FailureRows(rid, f)) <=> FailureGives(rid, f, id)
<1> DEFINE fid == NodeId("failure", f.id)
           ofAssertion == <<Link("failure_of", fid, NodeId("assertion", f.assertion))>>
           ofTest == <<Link("failure_of", fid, NodeId("test", f.test))>>
           OfInterface(q) == <<Link("affects_interface", fid, InterfaceId(q[1], q[2]))>>
           waived == <<Upsert(NodeId("waiver", f.waiver), "full"),
                       Link("waives", NodeId("waiver", f.waiver), fid)>>
           filed == <<Upsert(NodeId("bug", f.bug), "full"),
                      Link("filed_as", fid, NodeId("bug", f.bug))>>
           interfaces == [i \in DOMAIN f.interfaces |-> OfInterface(f.interfaces[i])]
           one == <<Upsert(fid, f.status), Link("produced", rid, fid)>>
           two == When(f.assertion # "", ofAssertion)
           three == When(f.test # "", ofTest)
           four == FlattenSeq(interfaces)
           five == When(f.waiver # "", waived)
           six == When(f.bug # "", filed)
<1>1. IsList(one) /\ \A id : id \in RowIds(one) <=> id = fid \/ id = EdgeId("produced", rid, fid)
  BY ListOfOneOrTwo, IdsOfRows
<1>2. /\ IsList(two)
      /\ \A id : id \in RowIds(two) <=>
                     f.assertion # "" /\ id = EdgeId("failure_of", fid, NodeId("assertion", f.assertion))
  <2>1. /\ IsList(ofAssertion)
        /\ \A id : id \in RowIds(ofAssertion) <=>
                       id = EdgeId("failure_of", fid, NodeId("assertion", f.assertion))
    BY ListOfOneOrTwo, IdsOfRows
  <2> HIDE DEF ofAssertion
  <2> QED  BY <2>1, WhenList
<1>3. /\ IsList(three)
      /\ \A id : id \in RowIds(three) <=>
                     f.test # "" /\ id = EdgeId("failure_of", fid, NodeId("test", f.test))
  <2>1. /\ IsList(ofTest)
        /\ \A id : id \in RowIds(ofTest) <=> id = EdgeId("failure_of", fid, NodeId("test", f.test))
    BY ListOfOneOrTwo, IdsOfRows
  <2> HIDE DEF ofTest
  <2> QED  BY <2>1, WhenList
<1>4. /\ IsList(four)
      /\ \A id : id \in RowIds(four) <=>
                     \E q \in ToSet(f.interfaces) :
                        id = EdgeId("affects_interface", fid, InterfaceId(q[1], q[2]))
  <2>1. \A q : /\ IsList(OfInterface(q))
               /\ \A id : id \in RowIds(OfInterface(q)) <=>
                              id = EdgeId("affects_interface", fid, InterfaceId(q[1], q[2]))
    BY ListOfOneOrTwo, IdsOfRows
  <2> HIDE DEF OfInterface
  <2>2. /\ IsList(FlattenSeq(interfaces))
        /\ \A id : id \in RowIds(FlattenSeq(interfaces)) <=>
                       \E i \in DOMAIN f.interfaces : id \in RowIds(interfaces[i])
    BY <2>1, ListForEach
  <2> QED  BY <2>1, <2>2 DEF ToSet
<1>5. /\ IsList(five)
      /\ \A id : id \in RowIds(five) <=>
                     f.waiver # "" /\ (\/ id = NodeId("waiver", f.waiver)
                                       \/ id = EdgeId("waives", NodeId("waiver", f.waiver), fid))
  <2>1. /\ IsList(waived)
        /\ \A id : id \in RowIds(waived) <=>
                       id = NodeId("waiver", f.waiver) \/ id = EdgeId("waives", NodeId("waiver", f.waiver), fid)
    BY ListOfOneOrTwo, IdsOfRows
  <2> HIDE DEF waived
  <2> QED  BY <2>1, WhenList
<1>6. /\ IsList(six)
      /\ \A id : id \in RowIds(six) <=>
                     f.bug # "" /\ (id = NodeId("bug", f.bug) \/ id = EdgeId("filed_as", fid, NodeId("bug", f.bug)))
  <2>1. /\ IsList(filed)
        /\ \A id : id \in RowIds(filed) <=>
                       id = NodeId("bug", f.bug) \/ id = EdgeId("filed_as", fid, NodeId("bug", f.bug))
    BY ListOfOneOrTwo, IdsOfRows
  <2> HIDE DEF filed
  <2> QED  BY <2>1, WhenList
<1>7. FailureRows(rid, f) = one \o two \o three \o four \o five \o six
  BY DEF FailureRows, ForEach
<1>8. \A id : FailureGives(rid, f, id) <=>
                 \/ id = fid \/ id = EdgeId("produced", rid, fid)
                 \/ f.assertion # "" /\ id = EdgeId("failure_of", fid, NodeId("assertion", f.assertion))
                 \/ f.test # "" /\ id = EdgeId("failure_of", fid, NodeId("test", f.test))
                 \/ \E q \in ToSet(f.interfaces) :
                       id = EdgeId("affects_interface", fid, InterfaceId(q[1], q[2]))
                 \/ f.waiver # "" /\ (\/ id = NodeId("waiver", f.waiver)
                                      \/ id = EdgeId("waives", NodeId("waiver", f.waiver), fid))
                 \/ f.bug # "" /\ (id = NodeId("bug", f.bug) \/ id = EdgeId("filed_as", fid, NodeId("bug", f.bug)))
  BY DEF FailureGives
<1> HIDE DEF fid, one, two, three, four, five, six
<1>9. /\ IsList(FailureRows(rid, f))
      /\ \A id : id \in RowIds(FailureRows(rid, f)) <=>
                     \/ id \in RowIds(one) \/ id \in RowIds(two) \/ id \in RowIds(three)
                     \/ id \in RowIds(four) \/ id \in RowIds(five) \/ id \in RowIds(six)
  <2> DEFINE front == one \o two \o three
  <2>1. /\ IsList(front)
        /\ \A id : id \in RowIds(front) <=> id \in RowIds(one) \/ id \in RowIds(two) \/ id \in RowIds(three)
    BY <1>1, <1>2, <1>3, ListsJoined
  <2>2. FailureRows(rid, f) = front \o four \o five \o six
    BY <1>7
  <2> HIDE DEF front
  <2> DEFINE half == front \o four
             back == half \o five
  <2>3. IsList(half) /\ \A id : id \in RowIds(half) <=> id \in RowIds(front) \/ id \in RowIds(four)
    BY <1>4, <2>1, ListsJoined
  <2> HIDE DEF half
  <2>4. IsList(back) /\ \A id : id \in RowIds(back) <=> id \in RowIds(half) \/ id \in RowIds(five)
    BY <1>5, <2>3, ListsJoined
  <2>5. FailureRows(rid, f) = back \o six
    BY <2>2 DEF half
  <2> HIDE DEF back
  <2>6. /\ IsList(back \o six)
        /\ \A id : id \in RowIds(back \o six) <=> id \in RowIds(back) \/ id \in RowIds(six)
    BY <1>6, <2>4, ListsJoined
  <2> QED  BY <2>1, <2>3, <2>4, <2>5, <2>6
<1> QED  BY <1>1, <1>2, <1>3, <1>4, <1>5, <1>6, <1>8, <1>9

LEMMA RunRowsList ==
    ASSUME NEW run, IsList(run.failures),
           \A f \in ToSet(run.failures) : IsList(f.interfaces)
    PROVE  /\ IsList(RunRows(run))
           /\ \A id : id \in RowIds(RunRows(run)) <=> RunGives(run, id)
<1> DEFINE rid == NodeId("regression", run.id)
           failures == [i \in DOMAIN run.failures |-> FailureRows(rid, run.failures[i])]
           one == <<Upsert(rid, "full")>>
<1>1. \A f \in ToSet(run.failures) :
         /\ IsList(FailureRows(rid, f))
         /\ \A id : id \in RowIds(FailureRows(rid, f)) <=> FailureGives(rid, f, id)
  <2> HIDE DEF rid
  <2> QED  BY FailureRowsList
<1>2. /\ IsList(FlattenSeq(failures))
      /\ \A id : id \in RowIds(FlattenSeq(failures)) <=>
                     \E f \in ToSet(run.failures) : FailureGives(rid, f, id)
  <2> HIDE DEF rid
  <2>1. \A i \in DOMAIN run.failures : run.failures[i] \in ToSet(run.failures)
    BY DEF ToSet
  <2>2. /\ IsList(FlattenSeq(failures))
        /\ \A id : id \in RowIds(FlattenSeq(failures)) <=>
                       \E i \in DOMAIN run.failures : id \in RowIds(failures[i])
    BY <1>1, <2>1, ListForEach
  <2> QED  BY <1>1, <2>1, <2>2 DEF ToSet
<1>3. IsList(one) /\ \A id : id \in RowIds(one) <=> id = rid
  BY ListOfOneOrTwo, IdsOfRows
<1>4. RunRows(run) = one \o FlattenSeq(failures)
  BY DEF RunRows, FailureRows, ForEach
<1>5. \A id : RunGives(run, id) <=> id = rid \/ \E f \in ToSet(run.failures) : FailureGives(rid, f, id)
  BY DEF RunGives
<1> HIDE DEF rid, one, failures
<1> QED  BY <1>2, <1>3, <1>4, <1>5, ListsJoined

LEMMA ClaimRowsList ==
    ASSUME NEW c, IsList(c.benchmarks)
    PROVE  /\ IsList(ClaimRows(c))
           /\ \A id : id \in RowIds(ClaimRows(c)) <=> ClaimGives(c, id)
<1> DEFINE cid == NodeId("evidence_claim", c.id)
           OfBenchmark(b) == <<Upsert(NodeId("benchmark", b), "full"),
                               Link("supported_by", cid, NodeId("benchmark", b))>>
           benchmarks == [i \in DOMAIN c.benchmarks |-> OfBenchmark(c.benchmarks[i])]
           BenchmarkIds(b, id) == \/ id = NodeId("benchmark", b)
                                  \/ id = EdgeId("supported_by", cid, NodeId("benchmark", b))
           one == <<Upsert(cid, "full")>>
<1>1. /\ IsList(FlattenSeq(benchmarks))
      /\ \A id : id \in RowIds(FlattenSeq(benchmarks)) <=>
                     \E b \in ToSet(c.benchmarks) : BenchmarkIds(b, id)
  <2>1. \A b : IsList(OfBenchmark(b)) /\ \A id : id \in RowIds(OfBenchmark(b)) <=> BenchmarkIds(b, id)
    BY ListOfOneOrTwo, IdsOfRows
  <2> HIDE DEF OfBenchmark, BenchmarkIds
  <2>2. /\ IsList(FlattenSeq(benchmarks))
        /\ \A id : id \in RowIds(FlattenSeq(benchmarks)) <=>
                       \E i \in DOMAIN c.benchmarks : id \in RowIds(benchmarks[i])
    BY <2>1, ListForEach
  <2> QED  BY <2>1, <2>2 DEF ToSet
<1>2. IsList(one) /\ \A id : id \in RowIds(one) <=> id = cid
  BY ListOfOneOrTwo, IdsOfRows
<1>3. ClaimRows(c) = one \o FlattenSeq(benchmarks)
  BY DEF ClaimRows, ForEach
<1>4. \A id : ClaimGives(c, id) <=> id = cid \/ \E b \in ToSet(c.benchmarks) : BenchmarkIds(b, id)
  BY DEF ClaimGives
<1> HIDE DEF cid, one, benchmarks, BenchmarkIds
<1> QED  BY <1>1, <1>2, <1>3, <1>4, ListsJoined

\* The IDs of the rows of an artifact.
ArtifactGives(a, id) ==
    \/ a.kind = "rtl"       /\ \E m \in ToSet(a.content) : ModuleGives(m, id)
    \/ a.kind = "sva"       /\ \E p \in ToSet(a.content) : PropertyGives(p, id)
    \/ a.kind = "testplan"  /\ PlanGives(a.content, id)
    \/ a.kind = "coverage"  /\ \E b \in ToSet(a.content) : BinGives(b, id)
    \/ a.kind = "runledger" /\ \E run \in ToSet(a.content) : RunGives(run, id)
    \/ a.kind = "evidence"  /\ \E c \in ToSet(a.content) : ClaimGives(c, id)

LEMMA RtlRowsList ==
    ASSUME NEW modules, RtlContent(modules)
    PROVE  /\ IsList(RtlRows(modules))
           /\ \A id : id \in RowIds(RtlRows(modules)) <=> \E m \in ToSet(modules) : ModuleGives(m, id)
<1> DEFINE g == [i \in DOMAIN modules |-> ModuleRows(modules[i])]
<1>1. \A i \in DOMAIN modules :
         /\ modules[i] \in ToSet(modules) /\ IsList(ModuleRows(modules[i]))
         /\ \A id : id \in RowIds(ModuleRows(modules[i])) <=> ModuleGives(modules[i], id)
  BY ModuleRowsList DEF RtlContent, ToSet
<1>2. RtlRows(modules) = FlattenSeq(g) /\ IsList(modules)
  BY DEF RtlRows, ForEach, RtlContent
<1>3. /\ IsList(FlattenSeq(g))
      /\ \A id : id \in RowIds(FlattenSeq(g)) <=> \E i \in DOMAIN modules : id \in RowIds(g[i])
  BY <1>1, <1>2, ListForEach
<1> QED  BY <1>1, <1>2, <1>3 DEF ToSet

LEMMA SvaRowsList ==
    ASSUME NEW properties, SvaContent(properties)
    PROVE  /\ IsList(SvaRows(properties))
           /\ \A id : id \in RowIds(SvaRows(properties)) <=>
                          \E p \in ToSet(properties) : PropertyGives(p, id)
<1> DEFINE g == [i \in DOMAIN properties |-> PropertyRows(properties[i])]
<1>1. \A i \in DOMAIN properties :
         /\ properties[i] \in ToSet(properties) /\ IsList(PropertyRows(properties[i]))
         /\ \A id : id \in RowIds(PropertyRows(properties[i])) <=> PropertyGives(properties[i], id)
  BY PropertyRowsList DEF SvaContent, ToSet
<1>2. SvaRows(properties) = FlattenSeq(g) /\ IsList(properties)
  BY DEF SvaRows, ForEach, SvaContent
<1>3. /\ IsList(FlattenSeq(g))
      /\ \A id : id \in RowIds(FlattenSeq(g)) <=> \E i \in DOMAIN properties : id \in RowIds(g[i])
  BY <1>1, <1>2, ListForEach
<1> QED  BY <1>1, <1>2, <1>3 DEF ToSet

LEMMA TestPlanRowsList ==
    ASSUME NEW plan, TestPlanContent(plan)
    PROVE  /\ IsList(TestPlanRows(plan))
           /\ \A id : id \in RowIds(TestPlanRows(plan)) <=> PlanGives(plan, id)
<1> DEFINE planned == [i \in DOMAIN plan.requirements |-> PlannedRows(plan.requirements[i])]
           tests == [i \in DOMAIN plan.tests |-> TestRows(plan.tests[i])]
<1>1. \A i \in DOMAIN plan.tests :
         /\ plan.tests[i] \in ToSet(plan.tests) /\ IsList(TestRows(plan.tests[i]))
         /\ \A id : id \in RowIds(TestRows(plan.tests[i])) <=> TestGives(plan.tests[i], id)
  BY TestRowsList DEF TestPlanContent, ToSet
<1>2. \A r : IsList(PlannedRows(r)) /\ \A id : id \in RowIds(PlannedRows(r)) <=> id = NodeId("requirement", r)
  BY ListOfOneOrTwo, IdsOfRows DEF PlannedRows
<1>3. /\ IsList(FlattenSeq(tests))
      /\ \A id : id \in RowIds(FlattenSeq(tests)) <=> \E t \in ToSet(plan.tests) : TestGives(t, id)
  <2>1. /\ IsList(FlattenSeq(tests))
        /\ \A id : id \in RowIds(FlattenSeq(tests)) <=> \E i \in DOMAIN plan.tests : id \in RowIds(tests[i])
    BY <1>1, ListForEach DEF TestPlanContent
  <2> QED  BY <1>1, <2>1 DEF ToSet
<1>4. /\ IsList(FlattenSeq(planned))
      /\ \A id : id \in RowIds(FlattenSeq(planned)) <=>
                     \E r \in ToSet(plan.requirements) : id = NodeId("requirement", r)
  <2>1. /\ IsList(FlattenSeq(planned))
        /\ \A id : id \in RowIds(FlattenSeq(planned)) <=>
                       \E i \in DOMAIN plan.requirements : id \in RowIds(planned[i])
    BY <1>2, ListForEach DEF TestPlanContent
  <2> QED  BY <1>2, <2>1 DEF ToSet
<1>5. TestPlanRows(plan) = FlattenSeq(planned) \o FlattenSeq(tests)
  BY DEF TestPlanRows, ForEach
<1> HIDE DEF planned, tests
<1> QED  BY <1>3, <1>4, <1>5, ListsJoined DEF PlanGives

LEMMA CoverageRowsList ==
    ASSUME NEW bins, IsList(bins)
    PROVE  /\ IsList(CoverageRows(bins))
           /\ \A id : id \in RowIds(CoverageRows(bins)) <=> \E b \in ToSet(bins) : BinGives(b, id)
           /\ \A r \in ToSet(CoverageRows(bins)) : r.id[1] = "coverage_bin" =>
                 \E b \in ToSet(bins) :
                    r = Upsert(NodeId("coverage_bin", b.id), IF b.hits < b.goal THEN "hole" ELSE "full")
<1> DEFINE g == [i \in DOMAIN bins |-> BinRows(bins[i])]
<1>1. CoverageRows(bins) = FlattenSeq(g)
  BY DEF CoverageRows, ForEach
<1>2. /\ IsList(FlattenSeq(g))
      /\ \A id : id \in RowIds(FlattenSeq(g)) <=> \E i \in DOMAIN bins : id \in RowIds(g[i])
  BY BinRowsList, ListForEach
<1>3. \A r \in ToSet(FlattenSeq(g)) : \E i \in DOMAIN bins : r \in ToSet(BinRows(bins[i]))
  <2> DEFINE n == Len(bins)
  <2>1. DOMAIN bins = 1 .. n /\ n \in Nat /\ \A i \in DOMAIN bins : g[i] = BinRows(bins[i])
    BY DEF IsList
  <2>2. \A w : ToSet(w) = Range(w)
    BY DEF ToSet, Range
  <2>3. \A i \in DOMAIN bins : IsList(BinRows(bins[i]))
    BY BinRowsList
  <2>4. DOMAIN g = DOMAIN bins /\ g = [i \in DOMAIN bins |-> g[i]]
    OBVIOUS
  <2> HIDE DEF n, g
  <2>5. DOMAIN g = 1 .. n /\ g = [i \in 1 .. n |-> g[i]] /\ \A i \in 1 .. n : g[i] \in Seq(Range(g[i]))
    BY <2>1, <2>2, <2>3, <2>4 DEF IsList
  <2>6. \A e \in Range(FlattenSeq(g)) : \E i \in 1 .. n : e \in Range(g[i])
    BY <2>1, <2>5, FlattenedEach
  <2> QED  BY <2>1, <2>2, <2>6
<1>4. \A id : (\E i \in DOMAIN bins : id \in RowIds(g[i])) <=> \E b \in ToSet(bins) : BinGives(b, id)
  BY BinRowsList DEF ToSet
<1>5. ASSUME NEW r \in ToSet(FlattenSeq(g)), r.id[1] = "coverage_bin"
      PROVE  \E b \in ToSet(bins) :
                r = Upsert(NodeId("coverage_bin", b.id), IF b.hits < b.goal THEN "hole" ELSE "full")
  <2>1. PICK i \in DOMAIN bins : r \in ToSet(BinRows(bins[i]))
    BY <1>3
  <2> DEFINE b == bins[i]
  <2>2. b \in ToSet(bins)
    BY DEF ToSet
  <2>3. r \in ToSet(BinRows(b))
    BY <2>1
  <2> HIDE DEF b
  <2>4. r = Upsert(NodeId("coverage_bin", b.id), IF b.hits < b.goal THEN "hole" ELSE "full")
    BY <1>5, <2>3, BinRowsList
  <2> QED  BY <2>2, <2>4
<1> HIDE DEF g
<1> QED  BY <1>1, <1>2, <1>4, <1>5

LEMMA LedgerRowsList ==
    ASSUME NEW runs, LedgerContent(runs)
    PROVE  /\ IsList(LedgerRows(runs))
           /\ \A id : id \in RowIds(LedgerRows(runs)) <=> \E run \in ToSet(runs) : RunGives(run, id)
<1> DEFINE g == [i \in DOMAIN runs |-> RunRows(runs[i])]
<1>1. \A i \in DOMAIN runs :
         /\ runs[i] \in ToSet(runs) /\ IsList(RunRows(runs[i]))
         /\ \A id : id \in RowIds(RunRows(runs[i])) <=> RunGives(runs[i], id)
  BY RunRowsList DEF LedgerContent, ToSet
<1>2. LedgerRows(runs) = FlattenSeq(g) /\ IsList(runs)
  BY DEF LedgerRows, ForEach, LedgerContent
<1>3. /\ IsList(FlattenSeq(g))
      /\ \A id : id \in RowIds(FlattenSeq(g)) <=> \E i \in DOMAIN runs : id \in RowIds(g[i])
  BY <1>1, <1>2, ListForEach
<1> QED  BY <1>1, <1>2, <1>3 DEF ToSet

LEMMA EvidenceRowsList ==
    ASSUME NEW claims, EvidenceContent(claims)
    PROVE  /\ IsList(EvidenceRows(claims))
           /\ \A id : id \in RowIds(EvidenceRows(claims)) <=> \E c \in ToSet(claims) : ClaimGives(c, id)
<1> DEFINE g == [i \in DOMAIN claims |-> ClaimRows(claims[i])]
<1>1. \A i \in DOMAIN claims :
         /\ claims[i] \in ToSet(claims) /\ IsList(ClaimRows(claims[i]))
         /\ \A id : id \in RowIds(ClaimRows(claims[i])) <=> ClaimGives(claims[i], id)
  BY ClaimRowsList DEF EvidenceContent, ToSet
<1>2. EvidenceRows(claims) = FlattenSeq(g) /\ IsList(claims)
  BY DEF EvidenceRows, ForEach, EvidenceContent
<1>3. /\ IsList(FlattenSeq(g))
      /\ \A id : id \in RowIds(FlattenSeq(g)) <=> \E i \in DOMAIN claims : id \in RowIds(g[i])
  BY <1>1, <1>2, ListForEach
<1> QED  BY <1>1, <1>2, <1>3 DEF ToSet

\* Every artifact gives a finite list of rows, with the IDs of what it tells.
LEMMA RowsAreAList ==
    ASSUME NEW f \in Files, NEW v \in DOMAIN Artifact[f]
    PROVE  /\ IsList(Rows(<<f, v>>))
           /\ \A id : id \in RowIds(Rows(<<f, v>>)) <=> ArtifactGives(Artifact[f][v], id)
           /\ \A r \in ToSet(Rows(<<f, v>>)) :
                 r.id[1] = "coverage_bin" /\ Artifact[f][v].kind = "coverage" =>
                    \E b \in ToSet(Artifact[f][v].content) :
                       r = Upsert(NodeId("coverage_bin", b.id), IF b.hits < b.goal THEN "hole" ELSE "full")
<1> DEFINE a == Artifact[f][v]
           rows == Rows(<<f, v>>)
<1>1. a \in ToSet(Artifact[f])
  BY DEF ToSet
<1>2. \/ a.kind = "rtl"       /\ RtlContent(a.content)
      \/ a.kind = "sva"       /\ SvaContent(a.content)
      \/ a.kind = "testplan"  /\ TestPlanContent(a.content)
      \/ a.kind = "coverage"  /\ IsList(a.content)
      \/ a.kind = "runledger" /\ LedgerContent(a.content)
      \/ a.kind = "evidence"  /\ EvidenceContent(a.content)
  BY <1>1, ArtifactsAssumption DEF ArtifactsAssumption
<1>3. rows =
        CASE a.kind = "rtl"       -> RtlRows(a.content)
          [] a.kind = "sva"       -> SvaRows(a.content)
          [] a.kind = "testplan"  -> TestPlanRows(a.content)
          [] a.kind = "coverage"  -> CoverageRows(a.content)
          [] a.kind = "runledger" -> LedgerRows(a.content)
          [] a.kind = "evidence"  -> EvidenceRows(a.content)
  BY DEF Rows
<1> HIDE DEF a, rows
<1>4. IsList(rows) /\ \A id : id \in RowIds(rows) <=> ArtifactGives(a, id)
  <2>1. CASE a.kind = "rtl" /\ RtlContent(a.content)
    BY <1>3, <2>1, RtlRowsList DEF ArtifactGives
  <2>2. CASE a.kind = "sva" /\ SvaContent(a.content)
    BY <1>3, <2>2, SvaRowsList DEF ArtifactGives
  <2>3. CASE a.kind = "testplan" /\ TestPlanContent(a.content)
    BY <1>3, <2>3, TestPlanRowsList DEF ArtifactGives
  <2>4. CASE a.kind = "coverage" /\ IsList(a.content)
    BY <1>3, <2>4, CoverageRowsList DEF ArtifactGives
  <2>5. CASE a.kind = "runledger" /\ LedgerContent(a.content)
    BY <1>3, <2>5, LedgerRowsList DEF ArtifactGives
  <2>6. CASE a.kind = "evidence" /\ EvidenceContent(a.content)
    BY <1>3, <2>6, EvidenceRowsList DEF ArtifactGives
  <2> QED  BY <1>2, <2>1, <2>2, <2>3, <2>4, <2>5, <2>6
<1>5. ASSUME NEW r \in ToSet(rows), r.id[1] = "coverage_bin", a.kind = "coverage"
      PROVE  \E b \in ToSet(a.content) :
                r = Upsert(NodeId("coverage_bin", b.id), IF b.hits < b.goal THEN "hole" ELSE "full")
  <2>1. rows = CoverageRows(a.content) /\ IsList(a.content)
    BY <1>2, <1>3, <1>5
  <2> QED  BY <1>5, <2>1, CoverageRowsList
<1> QED  BY <1>4, <1>5 DEF a, rows

LEMMA ListSteps ==
    ASSUME NEW s, IsList(s), s # <<>>
    PROVE  /\ Head(s) \in ToSet(s) /\ IsList(Tail(s))
           /\ ToSet(s) = {Head(s)} \cup ToSet(Tail(s))
<1> DEFINE S == ToSet(s)
<1>1. s \in Seq(S) /\ Head(s) \in S /\ Tail(s) \in Seq(S)
      /\ Len(s) \in Nat \ {0} /\ DOMAIN s = 1 .. Len(s)
      /\ DOMAIN Tail(s) = 1 .. Len(s) - 1
      /\ \A i \in 1 .. Len(s) - 1 : Tail(s)[i] = s[i + 1]
  <2>1. s \in Seq(S)
    BY DEF IsList
  <2> HIDE DEF S
  <2> QED  BY <2>1
<1>2. ToSet(Tail(s)) \subseteq S
  BY <1>1 DEF ToSet
<1>3. ASSUME NEW x \in S PROVE x = Head(s) \/ x \in ToSet(Tail(s))
  <2>1. PICK i \in 1 .. Len(s) : x = s[i]
    BY <1>1 DEF ToSet
  <2>2. CASE i = 1
    BY <1>1, <2>1, <2>2
  <2>3. CASE i # 1
    <3>1. i - 1 \in DOMAIN Tail(s) /\ Tail(s)[i - 1] = s[i]
      BY <1>1, <2>3
    <3> QED  BY <2>1, <3>1 DEF ToSet
  <2> QED  BY <2>2, <2>3
<1>4. Tail(s) \in Seq(ToSet(Tail(s)))
  <2>1. Tail(s) \in Seq(S)
    BY <1>1
  <2> QED  BY <2>1, AList DEF IsList
<1> QED  BY <1>1, <1>2, <1>3, <1>4 DEF IsList

LEMMA EmptyListSet == ToSet(<<>>) = {}
BY DEF ToSet

\* Some row of W describes the thing itself.
Described(W, id) == \E r \in W : r.id = id /\ r.always

\* A table with the rows W of the file fv written over those of base.
Overlaid(table, base, W, fv) ==
    /\ DOMAIN table = DOMAIN base \cup {r.id : r \in W}
    /\ \A id \in DOMAIN table :
          \/ \E r \in W : r.id = id /\ r.always
                          /\ table[id] = [attrs |-> r.attrs, source |-> fv]
          \/ ~Described(W, id) /\ id \in DOMAIN base /\ table[id] = base[id]
          \/ /\ ~Described(W, id) /\ id \notin DOMAIN base
             /\ \E r \in W : r.id = id
                             /\ table[id] = [attrs |-> r.attrs, source |-> fv]

LEMMA OverlaidRow ==
    ASSUME NEW table, NEW base, NEW W, NEW fv, Overlaid(table, base, W, fv),
           NEW r
    PROVE  Overlaid(WithRow(table, r, fv), base, W \cup {r}, fv)
<1> DEFINE after == WithRow(table, r, fv)
           V == W \cup {r}
<1> SUFFICES Overlaid(after, base, V, fv)
  OBVIOUS
<1>1. \A id : Described(V, id) <=> Described(W, id) \/ (r.id = id /\ r.always)
  BY DEF Described
<1>2. CASE ~r.always /\ r.id \in DOMAIN table
  <2>1. after = table
    BY <1>2 DEF WithRow
  <2>2. \A id : Described(V, id) <=> Described(W, id)
    BY <1>1, <1>2
  <2>3. DOMAIN table = DOMAIN base \cup {s.id : s \in V}
    BY <1>2 DEF Overlaid
  <2> HIDE DEF after
  <2> QED  BY <2>1, <2>2, <2>3 DEF Overlaid
<1>3. CASE r.always \/ r.id \notin DOMAIN table
  <2>1. /\ DOMAIN after = DOMAIN table \cup {r.id}
        /\ after[r.id] = [attrs |-> r.attrs, source |-> fv]
        /\ \A id \in DOMAIN table \ {r.id} : after[id] = table[id]
    BY <1>3 DEF WithRow
  <2> HIDE DEF after
  <2>2. DOMAIN after = DOMAIN base \cup {s.id : s \in V}
    BY <2>1 DEF Overlaid
  <2>3. r.id \notin DOMAIN table => ~Described(W, r.id) /\ r.id \notin DOMAIN base
    BY DEF Overlaid, Described
  <2>4. ASSUME NEW id \in DOMAIN after
        PROVE  \/ \E s \in V : s.id = id /\ s.always
                               /\ after[id] = [attrs |-> s.attrs, source |-> fv]
               \/ ~Described(V, id) /\ id \in DOMAIN base /\ after[id] = base[id]
               \/ /\ ~Described(V, id) /\ id \notin DOMAIN base
                  /\ \E s \in V : s.id = id
                                  /\ after[id] = [attrs |-> s.attrs, source |-> fv]
    <3>1. CASE id = r.id
      BY <1>1, <1>3, <2>1, <2>3, <3>1
    <3>2. CASE id # r.id
      <4>1. id \in DOMAIN table /\ after[id] = table[id]
        BY <2>1, <3>2
      <4>2. Described(V, id) <=> Described(W, id)
        BY <1>1, <3>2
      <4> QED  BY <4>1, <4>2 DEF Overlaid
    <3> QED  BY <3>1, <3>2
  <2> QED  BY <2>2, <2>4 DEF Overlaid
<1> QED  BY <1>2, <1>3

\* The graph is that of the imports.
GraphOf(table, imports, last) ==
    /\ DOMAIN table = UNION {{r.id : r \in ToSet(Rows(fv))} : fv \in imports}
    /\ \A id \in DOMAIN table : \E fv \in imports : \E r \in ToSet(Rows(fv)) :
          /\ r.id = id
          /\ table[id] = [attrs |-> r.attrs, source |-> fv]
          /\ r.always => \/ fv[2] = last[fv[1]]
                         \/ ~Described(ToSet(Rows(<<fv[1], last[fv[1]]>>)), id)
          /\ ~r.always => \A gv \in imports : ~Described(ToSet(Rows(gv)), id)

LEMMA GraphOfMeans == GraphOf(db, imported, latest) => GraphOfImports
<1> SUFFICES ASSUME GraphOf(db, imported, latest) PROVE GraphOfImports
  OBVIOUS
<1> DEFINE Written(fv, id) == {r \in ToSet(Rows(fv)) : r.id = id}
           Describes(fv, id) == \E r \in Written(fv, id) : r.always
           Newest(fv, id) == \/ fv[2] = latest[fv[1]]
                             \/ ~Describes(<<fv[1], latest[fv[1]]>>, id)
<1>1. \A fv, id : Describes(fv, id) <=> Described(ToSet(Rows(fv)), id)
  BY DEF Described
<1>2. ASSUME NEW id \in DOMAIN db
      PROVE  \E fv \in imported : \E r \in Written(fv, id) :
                /\ db[id] = [attrs |-> r.attrs, source |-> fv]
                /\ IF r.always THEN Newest(fv, id)
                   ELSE \A gv \in imported : ~Describes(gv, id)
  <2>1. PICK fv \in imported : \E r \in ToSet(Rows(fv)) :
          /\ r.id = id
          /\ db[id] = [attrs |-> r.attrs, source |-> fv]
          /\ r.always => \/ fv[2] = latest[fv[1]]
                         \/ ~Described(ToSet(Rows(<<fv[1], latest[fv[1]]>>)), id)
          /\ ~r.always => \A gv \in imported : ~Described(ToSet(Rows(gv)), id)
    BY DEF GraphOf
  <2>2. PICK r \in ToSet(Rows(fv)) :
          /\ r.id = id
          /\ db[id] = [attrs |-> r.attrs, source |-> fv]
          /\ r.always => \/ fv[2] = latest[fv[1]]
                         \/ ~Described(ToSet(Rows(<<fv[1], latest[fv[1]]>>)), id)
          /\ ~r.always => \A gv \in imported : ~Described(ToSet(Rows(gv)), id)
    BY <2>1
  <2>3. r \in Written(fv, id)
    BY <2>2
  <2>4. r.always => Newest(fv, id)
    <3> HIDE DEF Describes
    <3> QED  BY <1>1, <2>2
  <2>5. ~r.always => \A gv \in imported : ~Describes(gv, id)
    <3> HIDE DEF Describes
    <3> QED  BY <1>1, <2>2
  <2> HIDE DEF Written, Newest, Describes
  <2> QED  BY <2>2, <2>3, <2>4, <2>5
<1>3. DOMAIN db = UNION {{r.id : r \in ToSet(Rows(fv))} : fv \in imported}
  BY DEF GraphOf
<1> QED  BY <1>2, <1>3 DEF GraphOfImports

\* Committing all rows of a file over the graph of the imports so far.
LEMMA CommitRows ==
    ASSUME NEW base, NEW imports \in SUBSET (Files \X Nat), NEW last \in [Files -> Nat],
           GraphOf(base, imports, last),
           NEW table, NEW f \in Files, NEW v \in Nat,
           Overlaid(table, base, ToSet(Rows(<<f, v>>)), <<f, v>>)
    PROVE  GraphOf(table, imports \cup {<<f, v>>}, [last EXCEPT ![f] = v])
<1> DEFINE fv == <<f, v>>
           W == ToSet(Rows(fv))
           now == [last EXCEPT ![f] = v]
           after == imports \cup {fv}
<1> SUFFICES GraphOf(table, after, now)
  OBVIOUS
<1>1. now[f] = v /\ \A g \in Files \ {f} : now[g] = last[g]
  OBVIOUS
<1>2. DOMAIN table = UNION {{r.id : r \in ToSet(Rows(gv))} : gv \in after}
  BY DEF GraphOf, Overlaid
<1>3. ASSUME NEW id \in DOMAIN table
      PROVE  \E gv \in after : \E r \in ToSet(Rows(gv)) :
                /\ r.id = id
                /\ table[id] = [attrs |-> r.attrs, source |-> gv]
                /\ r.always => \/ gv[2] = now[gv[1]]
                               \/ ~Described(ToSet(Rows(<<gv[1], now[gv[1]]>>)), id)
                /\ ~r.always => \A hv \in after : ~Described(ToSet(Rows(hv)), id)
  <2>1. CASE \E r \in W : r.id = id /\ r.always
                          /\ table[id] = [attrs |-> r.attrs, source |-> fv]
    <3>1. fv \in after /\ fv[2] = now[fv[1]]
      BY <1>1
    <3> HIDE DEF fv, now, after
    <3> QED  BY <2>1, <3>1
  <2>2. CASE ~Described(W, id) /\ id \in DOMAIN base /\ table[id] = base[id]
    <3>1. PICK gv \in imports : \E r \in ToSet(Rows(gv)) :
            /\ r.id = id
            /\ base[id] = [attrs |-> r.attrs, source |-> gv]
            /\ r.always => \/ gv[2] = last[gv[1]]
                           \/ ~Described(ToSet(Rows(<<gv[1], last[gv[1]]>>)), id)
            /\ ~r.always => \A hv \in imports : ~Described(ToSet(Rows(hv)), id)
      BY <2>2 DEF GraphOf
    <3>2. gv[1] \in Files /\ gv \in after
      OBVIOUS
    <3>3. gv[1] = f => <<gv[1], now[gv[1]]>> = fv
      BY <1>1
    <3>4. gv[1] # f => now[gv[1]] = last[gv[1]]
      BY <1>1, <3>2
    <3>5. \A hv \in after : hv \in imports \/ hv = fv
      OBVIOUS
    <3> HIDE DEF fv, now, after
    <3> QED  BY <2>2, <3>1, <3>2, <3>3, <3>4, <3>5 DEF W
  <2>3. CASE /\ ~Described(W, id) /\ id \notin DOMAIN base
             /\ \E r \in W : r.id = id
                             /\ table[id] = [attrs |-> r.attrs, source |-> fv]
    <3>1. \A hv \in imports : ~Described(ToSet(Rows(hv)), id)
      BY <2>3 DEF GraphOf, Described
    <3>2. \A hv \in after : ~Described(ToSet(Rows(hv)), id)
      BY <2>3, <3>1
    <3>3. PICK r \in W : r.id = id /\ table[id] = [attrs |-> r.attrs, source |-> fv]
      BY <2>3
    <3>4. ~r.always
      BY <2>3, <3>3 DEF Described
    <3> HIDE DEF now
    <3> QED  BY <3>2, <3>3, <3>4
  <2> QED  BY <2>1, <2>2, <2>3 DEF Overlaid
<1> HIDE DEF now, after
<1> QED  BY <1>2, <1>3 DEF GraphOf

\* What the rows of an importer are written over, and what they are written to.
Table(p) == IF lock = p THEN tx ELSE db

\* An importer has the rows left that it has not written of the file it read.
Importing(p, f, v) ==
    /\ file[p] = <<f, v>> /\ v \in DOMAIN Artifact[f]
    /\ IsList(todo[p])
    /\ \E W : /\ ToSet(Rows(<<f, v>>)) = W \cup ToSet(todo[p])
              /\ Overlaid(Table(p), db, W, <<f, v>>)
              /\ lock # p => W = {}

GraphInv ==
    /\ version \in [Files -> Nat] /\ latest \in [Files -> Nat]
    /\ \A f \in Files : version[f] \in DOMAIN Artifact[f]
    /\ file = [p \in Importers |-> file[p]] /\ todo = [p \in Importers |-> todo[p]]
    /\ lock \in Importers \cup {Nobody}
    /\ imported \in SUBSET (Files \X Nat)
    /\ \A p \in Importers :
          \/ file[p] = NoImport /\ todo[p] = <<>> /\ lock # p
          \/ \E f \in Files, v \in Nat : Importing(p, f, v)
    /\ GraphOf(db, imported, latest)

LEMMA OverlaidNothing ==
    ASSUME NEW table, NEW fv
    PROVE  Overlaid(table, table, {}, fv)
BY DEF Overlaid, Described

\* An importer that another one's step leaves alone.
LEMMA ImportingStays ==
    ASSUME NEW q \in Importers, NEW f \in Files, NEW v \in Nat, Importing(q, f, v),
           file'[q] = file[q], todo'[q] = todo[q],
           (lock = q) <=> (lock' = q),
           lock = q => UNCHANGED <<db, tx>>
    PROVE  Importing(q, f, v)'
<1>1. PICK W : /\ ToSet(Rows(<<f, v>>)) = W \cup ToSet(todo[q])
               /\ Overlaid(Table(q), db, W, <<f, v>>)
               /\ lock # q => W = {}
  BY DEF Importing
<1>2. CASE lock = q
  <2>1. Table(q)' = Table(q) /\ db' = db
    BY <1>2 DEF Table
  <2>2. Overlaid(Table(q)', db', W, <<f, v>>)
    BY <1>1, <2>1
  <2> HIDE DEF Table
  <2> QED  BY <1>1, <1>2, <2>2 DEF Importing
<1>3. CASE lock # q
  <2>1. Table(q)' = db' /\ W = {}
    BY <1>1, <1>3 DEF Table
  <2>2. Overlaid(Table(q)', db', W, <<f, v>>)
    BY <2>1, OverlaidNothing
  <2> QED  BY <1>1, <1>3, <2>2 DEF Importing
<1> QED  BY <1>2, <1>3

LEMMA NotImporting ==
    ASSUME GraphInv, NEW p \in Importers
    PROVE  /\ file[p] = NoImport => todo[p] = <<>> /\ lock # p
           /\ file[p] # NoImport \/ todo[p] # <<>> =>
                 \E f \in Files, v \in Nat : Importing(p, f, v)
<1>1. ASSUME NEW f \in Files, NEW v \in Nat, Importing(p, f, v)
      PROVE  file[p] # NoImport
  BY <1>1, ImportersAssumption DEF Importing, ImportersAssumption
<1> QED  BY <1>1 DEF GraphInv

LEMMA GraphInitInv == GraphInit => GraphInv
<1> SUFFICES ASSUME GraphInit PROVE GraphInv
  OBVIOUS
<1>1. ASSUME NEW f \in Files PROVE 1 \in DOMAIN Artifact[f]
  <2>1. IsList(Artifact[f]) /\ Artifact[f] # <<>>
    BY ArtifactsAssumption DEF ArtifactsAssumption
  <2> QED  BY <2>1, ListSteps DEF IsList
<1>2. GraphOf(db, imported, latest)
  BY DEF GraphInit, GraphOf
<1>3. /\ version = [f \in Files |-> 1] /\ latest = [f \in Files |-> 0]
      /\ file = [p \in Importers |-> NoImport] /\ todo = [p \in Importers |-> <<>>]
      /\ lock = Nobody /\ imported = {}
  BY DEF GraphInit
<1>4. /\ version \in [Files -> Nat] /\ latest \in [Files -> Nat]
      /\ \A f \in Files : version[f] \in DOMAIN Artifact[f]
  BY <1>1, <1>3
<1>5. /\ file = [p \in Importers |-> file[p]] /\ todo = [p \in Importers |-> todo[p]]
      /\ \A p \in Importers : file[p] = NoImport /\ todo[p] = <<>> /\ lock # p
  BY <1>3, ImportersAssumption DEF ImportersAssumption
<1> QED  BY <1>2, <1>3, <1>4, <1>5 DEF GraphInv

LEMMA ChangeArtifactKeeps ==
    ASSUME GraphInv, NEW g \in Files, ChangeArtifact(g)
    PROVE  GraphInv'
<1>1. IsList(Artifact[g])
  BY ArtifactsAssumption DEF ArtifactsAssumption
<1>2. /\ version' = [version EXCEPT ![g] = @ + 1]
      /\ version[g] < Len(Artifact[g])
      /\ UNCHANGED <<db, lock, tx, file, todo, imported, latest>>
  BY DEF ChangeArtifact
<1>3. DOMAIN Artifact[g] = 1 .. Len(Artifact[g]) /\ Len(Artifact[g]) \in Nat
  BY <1>1 DEF IsList
<1>4. version' \in [Files -> Nat] /\ \A f \in Files : version'[f] \in DOMAIN Artifact[f]
  BY <1>2, <1>3 DEF GraphInv
<1>5. \A p \in Importers, f \in Files, v \in Nat :
         Importing(p, f, v) => Importing(p, f, v)'
  BY <1>2, ImportingStays
<1>6. GraphOf(db, imported, latest)'
  BY <1>2 DEF GraphInv, GraphOf
<1> QED  BY <1>2, <1>4, <1>5, <1>6 DEF GraphInv

LEMMA StartImportKeeps ==
    ASSUME GraphInv, NEW p \in Importers, StartImport(p)
    PROVE  GraphInv'
<1>1. PICK f \in Files :
         /\ file' = [file EXCEPT ![p] = <<f, version[f]>>]
         /\ todo' = [todo EXCEPT ![p] = Rows(<<f, version[f]>>)]
  BY DEF StartImport
<1>2. file[p] = NoImport /\ UNCHANGED <<db, lock, tx, version, imported, latest>>
  BY DEF StartImport
<1>3. lock # p
  BY <1>2, NotImporting
<1>4. PICK v \in Nat : v = version[f]
  BY DEF GraphInv
<1>5. v \in Nat /\ v \in DOMAIN Artifact[f] /\ IsList(Rows(<<f, v>>))
  BY <1>4, RowsAreAList DEF GraphInv
<1>6. file'[p] = <<f, v>> /\ todo'[p] = Rows(<<f, v>>)
  BY <1>1, <1>4 DEF GraphInv
<1>7. /\ file' = [q \in Importers |-> file'[q]] /\ todo' = [q \in Importers |-> todo'[q]]
      /\ \A q \in Importers \ {p} : file'[q] = file[q] /\ todo'[q] = todo[q]
  BY <1>1 DEF GraphInv
<1>8. Importing(p, f, v)'
  <2>1. Table(p)' = db'
    BY <1>2, <1>3 DEF Table
  <2>2. Overlaid(Table(p)', db', {}, <<f, v>>)
    BY <2>1, OverlaidNothing
  <2> QED  BY <1>2, <1>3, <1>5, <1>6, <2>2 DEF Importing
<1>9. \A q \in Importers \ {p}, g \in Files, u \in Nat :
         Importing(q, g, u) => Importing(q, g, u)'
  BY <1>2, <1>7, ImportingStays
<1>10. GraphOf(db, imported, latest)'
  BY <1>2 DEF GraphInv, GraphOf
<1> QED  BY <1>2, <1>4, <1>7, <1>8, <1>9, <1>10 DEF GraphInv

LEMMA WriteRowKeeps ==
    ASSUME GraphInv, NEW p \in Importers, WriteRow(p)
    PROVE  GraphInv'
<1>1. /\ todo[p] # <<>> /\ lock \in {Nobody, p} /\ lock' = p
      /\ tx' = WithRow(Table(p), Head(todo[p]), file[p])
      /\ todo' = [todo EXCEPT ![p] = Tail(@)]
      /\ UNCHANGED <<db, version, file, imported, latest>>
  BY DEF WriteRow, Table
<1>2. PICK f \in Files, v \in Nat : Importing(p, f, v)
  BY <1>1, NotImporting
<1>3. PICK W : /\ ToSet(Rows(<<f, v>>)) = W \cup ToSet(todo[p])
               /\ Overlaid(Table(p), db, W, <<f, v>>)
  BY <1>2 DEF Importing
<1> DEFINE r == Head(todo[p])
<1>4. file[p] = <<f, v>> /\ v \in DOMAIN Artifact[f] /\ IsList(todo[p])
  BY <1>2 DEF Importing
<1>5. IsList(Tail(todo[p])) /\ ToSet(todo[p]) = {r} \cup ToSet(Tail(todo[p]))
  BY <1>1, <1>4, ListSteps
<1>6. /\ todo'[p] = Tail(todo[p])
      /\ todo' = [q \in Importers |-> todo'[q]]
      /\ \A q \in Importers \ {p} : todo'[q] = todo[q]
  BY <1>1 DEF GraphInv
<1>7. Overlaid(WithRow(Table(p), r, <<f, v>>), db, W \cup {r}, <<f, v>>)
  BY <1>3, OverlaidRow
<1> HIDE DEF r
<1>8. Table(p)' = WithRow(Table(p), r, <<f, v>>)
  BY <1>1, <1>4 DEF Table, r
<1>9. Importing(p, f, v)'
  <2>1. ToSet(Rows(<<f, v>>)) = (W \cup {r}) \cup ToSet(todo'[p])
    BY <1>3, <1>5, <1>6
  <2>2. Overlaid(Table(p)', db', W \cup {r}, <<f, v>>)
    BY <1>1, <1>7, <1>8
  <2> QED  BY <1>1, <1>4, <1>5, <1>6, <2>1, <2>2 DEF Importing
<1>10. ASSUME NEW q \in Importers \ {p}, NEW g \in Files, NEW u \in Nat,
              Importing(q, g, u)
       PROVE  Importing(q, g, u)'
  <2>1. lock # q /\ lock' # q /\ file'[q] = file[q] /\ todo'[q] = todo[q]
    BY <1>1, <1>6, ImportersAssumption DEF ImportersAssumption
  <2> QED  BY <1>10, <2>1, ImportingStays
<1>11. GraphOf(db, imported, latest)'
  BY <1>1 DEF GraphInv, GraphOf
<1>12. \A q \in Importers \ {p} :
          file[q] = NoImport => file'[q] = NoImport /\ todo'[q] = <<>> /\ lock' # q
  BY <1>1, <1>6, NotImporting
<1>13. \A q \in Importers :
          \/ file'[q] = NoImport /\ todo'[q] = <<>> /\ lock' # q
          \/ \E g \in Files, u \in Nat : Importing(q, g, u)'
  BY <1>9, <1>10, <1>12 DEF GraphInv
<1> QED  BY <1>1, <1>6, <1>11, <1>13 DEF GraphInv

\* An importer that ends frees its lock; the others go on with what they have.
LEMMA EndImportKeeps ==
    ASSUME GraphInv, NEW p \in Importers, EndImport(p),
           db' = db \/ lock = p,
           version' = version, latest' \in [Files -> Nat],
           imported' \in SUBSET (Files \X Nat),
           GraphOf(db', imported', latest')
    PROVE  GraphInv'
<1>1. /\ file' = [file EXCEPT ![p] = NoImport] /\ todo' = [todo EXCEPT ![p] = <<>>]
      /\ IF lock = p THEN lock' = Nobody /\ tx' = <<>> ELSE UNCHANGED <<lock, tx>>
  BY DEF EndImport
<1>2. /\ file' = [q \in Importers |-> file'[q]] /\ todo' = [q \in Importers |-> todo'[q]]
      /\ \A q \in Importers \ {p} : file'[q] = file[q] /\ todo'[q] = todo[q]
      /\ file'[p] = NoImport /\ todo'[p] = <<>>
  BY <1>1 DEF GraphInv
<1>3. /\ lock' \in Importers \cup {Nobody} /\ lock' # p
      /\ \A q \in Importers \ {p} : (lock = q) <=> (lock' = q)
  BY <1>1, ImportersAssumption DEF GraphInv, ImportersAssumption
<1>4. \A q \in Importers \ {p} : lock = q => UNCHANGED <<db, tx>>
  BY <1>1
<1>5. \A q \in Importers \ {p}, g \in Files, u \in Nat :
         Importing(q, g, u) => Importing(q, g, u)'
  BY <1>2, <1>3, <1>4, ImportingStays
<1>6. \A q \in Importers :
          \/ file'[q] = NoImport /\ todo'[q] = <<>> /\ lock' # q
          \/ \E g \in Files, u \in Nat : Importing(q, g, u)'
  BY <1>2, <1>3, <1>5 DEF GraphInv
<1> QED  BY <1>2, <1>3, <1>6 DEF GraphInv

LEMMA CommitImportKeeps ==
    ASSUME GraphInv, NEW p \in Importers, CommitImport(p)
    PROVE  GraphInv'
<1>1. PICK f \in Files, v \in Nat : Importing(p, f, v)
  BY NotImporting DEF CommitImport
<1>2. PICK W : /\ ToSet(Rows(<<f, v>>)) = W \cup ToSet(todo[p])
               /\ Overlaid(Table(p), db, W, <<f, v>>)
  BY <1>1 DEF Importing
<1>3. file[p] = <<f, v>>
  BY <1>1 DEF Importing
<1>4. /\ db' = Table(p) /\ version' = version /\ todo[p] = <<>>
      /\ imported' = imported \cup {<<f, v>>}
      /\ latest' = [latest EXCEPT ![f] = v]
  BY <1>3 DEF CommitImport, Table
<1>5. ToSet(Rows(<<f, v>>)) = W
  BY <1>2, <1>4, EmptyListSet
<1>6. Overlaid(Table(p), db, ToSet(Rows(<<f, v>>)), <<f, v>>)
  BY <1>2, <1>5
<1>7. GraphOf(db', imported', latest')
  BY <1>4, <1>6, CommitRows DEF GraphInv
<1>8. latest' \in [Files -> Nat] /\ imported' \in SUBSET (Files \X Nat)
  BY <1>4 DEF GraphInv
<1>9. EndImport(p) /\ (db' = db \/ lock = p)
  BY DEF CommitImport
<1> QED  BY <1>4, <1>7, <1>8, <1>9, EndImportKeeps

LEMMA AbortImportKeeps ==
    ASSUME GraphInv, NEW p \in Importers, AbortImport(p)
    PROVE  GraphInv'
<1>1. EndImport(p) /\ UNCHANGED <<db, version, imported, latest>>
  BY DEF AbortImport
<1>2. GraphOf(db', imported', latest')
  BY <1>1 DEF GraphInv
<1> QED  BY <1>1, <1>2, EndImportKeeps DEF GraphInv

LEMMA GraphStep == GraphInv /\ [GraphNext]_graphVars => GraphInv'
<1> SUFFICES ASSUME GraphInv, [GraphNext]_graphVars
             PROVE  GraphInv'
  OBVIOUS
<1>1. CASE UNCHANGED graphVars
  <2>1. UNCHANGED <<db, lock, tx, version, file, todo, imported, latest>>
    BY <1>1 DEF graphVars
  <2>2. \A q \in Importers, g \in Files, u \in Nat :
           Importing(q, g, u) => Importing(q, g, u)'
    BY <2>1, ImportingStays
  <2>3. GraphOf(db, imported, latest)'
    BY <2>1 DEF GraphInv, GraphOf
  <2> QED  BY <2>1, <2>2, <2>3 DEF GraphInv
<1> QED
  BY <1>1, StartImportKeeps, WriteRowKeeps, CommitImportKeeps, AbortImportKeeps,
     ChangeArtifactKeeps
     DEF GraphNext

\* "Imports are idempotent", for any artifacts and any number of importers at the
\* same time: in every state the graph is that of the imports that have committed,
\* each as a whole, whatever their order and repetition and whatever failed.
THEOREM GraphIsOfImports == GraphSpec => []GraphOfImports
<1>1. GraphInv => GraphOfImports
  BY GraphOfMeans DEF GraphInv
<1> QED
  BY <1>1, GraphInitInv, GraphStep, PTL DEF GraphSpec

\* Of a file with an import that committed, the version committed last is one of them.
VersionsKept ==
    \A fv \in imported : /\ fv[2] \in DOMAIN Artifact[fv[1]]
                         /\ <<fv[1], latest[fv[1]]>> \in imported

LEMMA VersionsKeptStep ==
    ASSUME GraphInv, VersionsKept, [GraphNext]_graphVars
    PROVE  VersionsKept'
<1>1. CASE UNCHANGED <<imported, latest>>
  BY <1>1 DEF VersionsKept
<1>2. CASE \E p \in Importers : CommitImport(p)
  <2>1. PICK p \in Importers : CommitImport(p)
    BY <1>2
  <2>2. PICK f \in Files, v \in Nat : Importing(p, f, v)
    BY <2>1, NotImporting DEF CommitImport
  <2>3. file[p] = <<f, v>> /\ v \in DOMAIN Artifact[f]
    BY <2>2 DEF Importing
  <2>4. imported' = imported \cup {<<f, v>>} /\ latest' = [latest EXCEPT ![f] = v]
    BY <2>1, <2>3 DEF CommitImport
  <2>5. imported \in SUBSET (Files \X Nat) /\ latest \in [Files -> Nat]
    BY DEF GraphInv
  <2>6. ASSUME NEW fv \in imported'
        PROVE  fv[2] \in DOMAIN Artifact[fv[1]] /\ <<fv[1], latest'[fv[1]]>> \in imported'
    <3>1. PICK g \in Files, u \in Nat : fv = <<g, u>>
      BY <2>4, <2>5
    <3>2. g = f => latest'[g] = v
      BY <2>4, <2>5
    <3>3. g # f => latest'[g] = latest[g] /\ fv \in imported
      BY <2>4, <2>5, <3>1
    <3>4. fv \in imported => u \in DOMAIN Artifact[g] /\ <<g, latest[g]>> \in imported
      BY <3>1 DEF VersionsKept
    <3>5. u \in DOMAIN Artifact[g]
      BY <2>3, <2>4, <3>1, <3>4
    <3> QED  BY <2>4, <3>1, <3>2, <3>3, <3>4, <3>5
  <2> QED  BY <2>6 DEF VersionsKept
<1>3. CASE UNCHANGED graphVars
  BY <1>1, <1>3 DEF graphVars
<1>4. CASE \E p \in Importers : StartImport(p) \/ WriteRow(p) \/ AbortImport(p)
  BY <1>1, <1>4 DEF StartImport, WriteRow, AbortImport
<1>5. CASE \E f \in Files : ChangeArtifact(f)
  BY <1>1, <1>5 DEF ChangeArtifact
<1> QED  BY <1>2, <1>3, <1>4, <1>5 DEF GraphNext

\* The IDs tell what they are of.
LEMMA IdForms ==
    /\ \A type, key : NodeId(type, key)[1] = type /\ NodeId(type, key)[2] = key
    /\ \A type, src, dst : /\ EdgeId(type, src, dst)[1] = "edge" /\ EdgeId(type, src, dst)[2] = type
                           /\ EdgeId(type, src, dst)[3] = src /\ EdgeId(type, src, dst)[4] = dst
    /\ \A mod, name : InterfaceId(mod, name)[1] = "interface"
BY DEF NodeId, EdgeId, InterfaceId

LEMMA InterfacesDiffer ==
    ASSUME NEW mod, NEW name, NEW mod2, NEW name2, InterfaceId(mod, name) = InterfaceId(mod2, name2)
    PROVE  mod = mod2 /\ name = name2
<1>1. \A a, b, c : <<a>> # <<b, c>> /\ (<<a>> = <<b>> => a = b)
  OBVIOUS
<1>2. \A a, b, c, d : <<a, b>> = <<c, d>> => a = c /\ b = d
  OBVIOUS
<1> DEFINE key == IF mod = "" THEN <<name>> ELSE <<mod, name>>
           key2 == IF mod2 = "" THEN <<name2>> ELSE <<mod2, name2>>
<1>3. key = key2
  <2>1. InterfaceId(mod, name) = NodeId("interface", key) /\ InterfaceId(mod2, name2) = NodeId("interface", key2)
    BY DEF InterfaceId
  <2> HIDE DEF key, key2
  <2>2. NodeId("interface", key)[2] = key /\ NodeId("interface", key2)[2] = key2
    BY IdForms
  <2> QED  BY <2>1, <2>2
<1> QED  BY <1>1, <1>2, <1>3

\* What the rows of each thing are of.
LEMMA ModuleForms ==
    ASSUME NEW m, NEW id, ModuleGives(m, id)
    PROVE  /\ id[1] \in {"module", "reset_domain", "interface", "signal", "edge"}
           /\ id[1] = "edge" =>
                 /\ id[2] \in {"reset_of", "exposes", "in_module", "on_interface", "depends_on_reset"}
                 /\ id[2] = "depends_on_reset" => id[3][1] = "signal"
<1>1. \/ \E key : id = NodeId("module", key)
      \/ \E key : id = NodeId("reset_domain", key)
      \/ \E mod, name : id = InterfaceId(mod, name)
      \/ \E key : id = NodeId("signal", key)
      \/ \E type, src, dst : id = EdgeId(type, src, dst) /\ type \in {"reset_of", "exposes", "in_module", "on_interface"}
      \/ \E key, dst : id = EdgeId("depends_on_reset", NodeId("signal", key), dst)
  BY DEF ModuleGives
<1>2. CASE \E key, dst : id = EdgeId("depends_on_reset", NodeId("signal", key), dst)
  <2>1. PICK key, dst : id = EdgeId("depends_on_reset", NodeId("signal", key), dst)
    BY <1>2
  <2>2. id[1] = "edge" /\ id[2] = "depends_on_reset" /\ id[3] = NodeId("signal", key)
    BY <2>1, IdForms
  <2> QED  BY <2>2, IdForms
<1>3. CASE \E type, src, dst : /\ id = EdgeId(type, src, dst)
                              /\ type \in {"reset_of", "exposes", "in_module", "on_interface"}
  <2>1. id[1] = "edge" /\ id[2] \in {"reset_of", "exposes", "in_module", "on_interface"}
    BY <1>3, IdForms
  <2> QED  BY <2>1
<1>4. CASE \/ \E key : id = NodeId("module", key)
           \/ \E key : id = NodeId("reset_domain", key)
           \/ \E mod, name : id = InterfaceId(mod, name)
           \/ \E key : id = NodeId("signal", key)
  <2>1. id[1] \in {"module", "reset_domain", "interface", "signal"}
    <3>1. (\E key : id = NodeId("module", key)) => id[1] = "module"
      BY IdForms
    <3>2. (\E key : id = NodeId("reset_domain", key)) => id[1] = "reset_domain"
      BY IdForms
    <3>3. (\E mod, name : id = InterfaceId(mod, name)) => id[1] = "interface"
      BY IdForms
    <3>4. (\E key : id = NodeId("signal", key)) => id[1] = "signal"
      BY IdForms
    <3> QED  BY <1>4, <3>1, <3>2, <3>3, <3>4
  <2> QED  BY <2>1
<1> QED  BY <1>1, <1>2, <1>3, <1>4

LEMMA PropertyForms ==
    ASSUME NEW p, NEW id
    PROVE  PropertyGives(p, id) =>
             /\ id[1] \in {"assertion", "requirement", "edge"}
             /\ id[1] = "assertion" => id = NodeId("assertion", p.id)
             /\ id[1] = "requirement" => \E r \in ToSet(p.requirements) : id = NodeId("requirement", r)
             /\ id[1] = "edge" =>
                   /\ id[2] \in {"in_module", "asserts", "depends_on_reset", "on_interface"}
                   /\ id[2] = "asserts" =>
                         \E r \in ToSet(p.requirements) : id[4] = NodeId("requirement", r)
                   /\ id[2] = "depends_on_reset" =>
                         \E r \in ToSet(p.resets) : /\ id[3] = NodeId("assertion", p.id)
                                                    /\ id[4] = NodeId("reset_domain", r)
<1> DEFINE aid == NodeId("assertion", p.id)
<1>1. PropertyGives(p, id) =>
        \/ id = aid
        \/ \E dst : id = EdgeId("in_module", aid, dst) \/ id = EdgeId("on_interface", aid, dst)
        \/ \E r \in ToSet(p.requirements) :
              id = NodeId("requirement", r) \/ id = EdgeId("asserts", aid, NodeId("requirement", r))
        \/ \E r \in ToSet(p.resets) : id = EdgeId("depends_on_reset", aid, NodeId("reset_domain", r))
  BY DEF PropertyGives
<1> QED  BY <1>1, IdForms

LEMMA PlanForms ==
    ASSUME NEW plan, NEW id
    PROVE  PlanGives(plan, id) =>
             /\ id[1] \in {"test", "requirement", "edge"}
             /\ id[1] = "requirement" =>
                   \/ \E r \in ToSet(plan.requirements) : id = NodeId("requirement", r)
                   \/ \E t \in ToSet(plan.tests) : \E r \in ToSet(t.requirements) : id = NodeId("requirement", r)
             /\ id[1] = "edge" =>
                   /\ id[2] \in {"tests", "covers"}
                   /\ id[2] = "covers" => \E t \in ToSet(plan.tests) : \E b \in ToSet(t.bins) :
                                             id[4] = NodeId("coverage_bin", b)
BY IdForms DEF PlanGives, TestGives

LEMMA BinForms ==
    ASSUME NEW b, NEW id
    PROVE  BinGives(b, id) =>
             /\ id[1] \in {"coverage_bin", "edge"}
             /\ id[1] = "coverage_bin" => id = NodeId("coverage_bin", b.id)
             /\ id[1] = "edge" => id[2] = "coverage_of"
<1> DEFINE bid == NodeId("coverage_bin", b.id)
<1>1. BinGives(b, id) => id = bid \/ \E dst : id = EdgeId("coverage_of", bid, dst)
  BY DEF BinGives
<1> QED  BY <1>1, IdForms

LEMMA RunForms ==
    ASSUME NEW run, NEW id
    PROVE  RunGives(run, id) =>
             /\ id[1] \in {"regression", "failure", "waiver", "bug", "edge"}
             /\ id[1] = "failure" => \E f \in ToSet(run.failures) : id = NodeId("failure", f.id)
             /\ id[1] = "edge" =>
                   /\ id[2] \in {"produced", "failure_of", "affects_interface", "waives", "filed_as"}
                   /\ id[2] = "affects_interface" =>
                         \E f \in ToSet(run.failures) : \E q \in ToSet(f.interfaces) :
                            id[3] = NodeId("failure", f.id) /\ id[4] = InterfaceId(q[1], q[2])
<1>1. RunGives(run, id) =>
        \/ \E key : id = NodeId("regression", key) \/ id = NodeId("waiver", key) \/ id = NodeId("bug", key)
        \/ \E type, src, dst :
              id = EdgeId(type, src, dst) /\ type \in {"produced", "failure_of", "waives", "filed_as"}
        \/ \E f \in ToSet(run.failures) :
              \/ id = NodeId("failure", f.id)
              \/ \E q \in ToSet(f.interfaces) :
                    id = EdgeId("affects_interface", NodeId("failure", f.id), InterfaceId(q[1], q[2]))
  BY DEF RunGives, FailureGives
<1> QED  BY <1>1, IdForms

LEMMA ClaimForms ==
    ASSUME NEW c, NEW id
    PROVE  ClaimGives(c, id) =>
             /\ id[1] \in {"evidence_claim", "benchmark", "edge"}
             /\ id[1] = "evidence_claim" => id = NodeId("evidence_claim", c.id)
             /\ id[1] = "edge" =>
                   id[2] = "supported_by" /\ id[3] = NodeId("evidence_claim", c.id) /\ ToSet(c.benchmarks) # {}
BY IdForms DEF ClaimGives

\* What the graph holds by the artifacts whose import has committed.
ImportsTell(id) ==
    \/ \E m \in ImportedOf("rtl") : ModuleGives(m, id)
    \/ \E p \in ImportedOf("sva") : PropertyGives(p, id)
    \/ \E plan \in TestPlans : PlanGives(plan, id)
    \/ \E b \in ImportedOf("coverage") : BinGives(b, id)
    \/ \E run \in ImportedOf("runledger") : RunGives(run, id)
    \/ \E c \in ImportedOf("evidence") : ClaimGives(c, id)

LEMMA TellsByArtifact ==
    ASSUME NEW id
    PROVE  ImportsTell(id) <=> \E fv \in imported : ArtifactGives(Artifact[fv[1]][fv[2]], id)
<1>1. ASSUME NEW kind, NEW x
      PROVE  x \in ImportedOf(kind) <=>
                \E fv \in imported : /\ Artifact[fv[1]][fv[2]].kind = kind
                                     /\ x \in ToSet(Artifact[fv[1]][fv[2]].content)
  BY DEF ImportedOf
<1>2. \A x : x \in TestPlans <=>
               \E fv \in imported : /\ Artifact[fv[1]][fv[2]].kind = "testplan"
                                    /\ x = Artifact[fv[1]][fv[2]].content
  BY DEF TestPlans
<1>3. ASSUME NEW fv \in imported, ArtifactGives(Artifact[fv[1]][fv[2]], id)
      PROVE  ImportsTell(id)
  BY <1>1, <1>2, <1>3 DEF ArtifactGives, ImportsTell
<1>4. ASSUME ImportsTell(id)
      PROVE  \E fv \in imported : ArtifactGives(Artifact[fv[1]][fv[2]], id)
  <2>1. CASE \E m \in ImportedOf("rtl") : ModuleGives(m, id)
    BY <1>1, <2>1 DEF ArtifactGives
  <2>2. CASE \E p \in ImportedOf("sva") : PropertyGives(p, id)
    BY <1>1, <2>2 DEF ArtifactGives
  <2>3. CASE \E plan \in TestPlans : PlanGives(plan, id)
    BY <1>2, <2>3 DEF ArtifactGives
  <2>4. CASE \E b \in ImportedOf("coverage") : BinGives(b, id)
    BY <1>1, <2>4 DEF ArtifactGives
  <2>5. CASE \E run \in ImportedOf("runledger") : RunGives(run, id)
    BY <1>1, <2>5 DEF ArtifactGives
  <2>6. CASE \E c \in ImportedOf("evidence") : ClaimGives(c, id)
    BY <1>1, <2>6 DEF ArtifactGives
  <2> QED  BY <1>4, <2>1, <2>2, <2>3, <2>4, <2>5, <2>6 DEF ImportsTell
<1> QED  BY <1>3, <1>4

LEMMA GraphTells ==
    ASSUME GraphInv, VersionsKept, NEW id
    PROVE  id \in DOMAIN db <=> ImportsTell(id)
<1>1. \A fv \in imported : fv[1] \in Files /\ fv[2] \in DOMAIN Artifact[fv[1]] /\ fv = <<fv[1], fv[2]>>
  <2> TAKE fv \in imported
  <2>1. fv \in Files \X Nat
    BY DEF GraphInv
  <2>2. fv[1] \in Files /\ fv = <<fv[1], fv[2]>>
    BY <2>1
  <2>3. fv[2] \in DOMAIN Artifact[fv[1]]
    BY DEF VersionsKept
  <2> QED  BY <2>2, <2>3
<1>2. ASSUME NEW fv \in imported
      PROVE  id \in RowIds(Rows(fv)) <=> ArtifactGives(Artifact[fv[1]][fv[2]], id)
  <2> DEFINE f == fv[1]
             v == fv[2]
  <2>1. f \in Files /\ v \in DOMAIN Artifact[f] /\ fv = <<f, v>>
    BY <1>1
  <2> HIDE DEF f, v
  <2>2. id \in RowIds(Rows(<<f, v>>)) <=> ArtifactGives(Artifact[f][v], id)
    BY <2>1, RowsAreAList
  <2> QED  BY <2>1, <2>2 DEF f, v
<1>3. id \in DOMAIN db <=> \E fv \in imported : id \in RowIds(Rows(fv))
  BY DEF GraphInv, GraphOf, RowIds
<1> QED  BY <1>2, <1>3, TellsByArtifact

\* Who tells of a thing.
LEMMA WhoTells ==
    ASSUME NEW id, ImportsTell(id)
    PROVE  /\ id[1] = "requirement" =>
                 \/ \E p \in ImportedOf("sva") : \E r \in ToSet(p.requirements) : id = NodeId("requirement", r)
                 \/ \E plan \in TestPlans : \E r \in ToSet(plan.requirements) : id = NodeId("requirement", r)
                 \/ \E plan \in TestPlans : \E t \in ToSet(plan.tests) : \E r \in ToSet(t.requirements) :
                       id = NodeId("requirement", r)
           /\ id[1] = "assertion" => \E p \in ImportedOf("sva") : id = NodeId("assertion", p.id)
           /\ id[1] = "coverage_bin" => \E b \in ImportedOf("coverage") : id = NodeId("coverage_bin", b.id)
           /\ id[1] = "failure" =>
                 \E run \in ImportedOf("runledger") : \E f \in ToSet(run.failures) : id = NodeId("failure", f.id)
           /\ id[1] = "evidence_claim" => \E c \in ImportedOf("evidence") : id = NodeId("evidence_claim", c.id)
<1>1. CASE \E m \in ImportedOf("rtl") : ModuleGives(m, id)
  BY <1>1, ModuleForms
<1>2. CASE \E p \in ImportedOf("sva") : PropertyGives(p, id)
  BY <1>2, PropertyForms
<1>3. CASE \E plan \in TestPlans : PlanGives(plan, id)
  BY <1>3, PlanForms
<1>4. CASE \E b \in ImportedOf("coverage") : BinGives(b, id)
  BY <1>4, BinForms
<1>5. CASE \E run \in ImportedOf("runledger") : RunGives(run, id)
  BY <1>5, RunForms
<1>6. CASE \E c \in ImportedOf("evidence") : ClaimGives(c, id)
  BY <1>6, ClaimForms
<1> QED  BY <1>1, <1>2, <1>3, <1>4, <1>5, <1>6 DEF ImportsTell

LEMMA WhoLinks ==
    ASSUME NEW id, ImportsTell(id), id[1] = "edge"
    PROVE  /\ id[2] = "asserts" =>
                 \E p \in ImportedOf("sva") : \E r \in ToSet(p.requirements) : id[4] = NodeId("requirement", r)
           /\ id[2] = "covers" =>
                 \E plan \in TestPlans : \E t \in ToSet(plan.tests) : \E b \in ToSet(t.bins) :
                    id[4] = NodeId("coverage_bin", b)
           /\ id[2] = "depends_on_reset" =>
                 \/ id[3][1] = "signal"
                 \/ \E p \in ImportedOf("sva") : \E r \in ToSet(p.resets) :
                       id[3] = NodeId("assertion", p.id) /\ id[4] = NodeId("reset_domain", r)
           /\ id[2] = "affects_interface" =>
                 \E run \in ImportedOf("runledger") : \E f \in ToSet(run.failures) :
                 \E q \in ToSet(f.interfaces) :
                    id[3] = NodeId("failure", f.id) /\ id[4] = InterfaceId(q[1], q[2])
           /\ id[2] = "supported_by" =>
                 \E c \in ImportedOf("evidence") :
                    id[3] = NodeId("evidence_claim", c.id) /\ ToSet(c.benchmarks) # {}
<1>1. CASE \E m \in ImportedOf("rtl") : ModuleGives(m, id)
  BY <1>1, ModuleForms
<1>2. CASE \E p \in ImportedOf("sva") : PropertyGives(p, id)
  BY <1>2, PropertyForms
<1>3. CASE \E plan \in TestPlans : PlanGives(plan, id)
  BY <1>3, PlanForms
<1>4. CASE \E b \in ImportedOf("coverage") : BinGives(b, id)
  BY <1>4, BinForms
<1>5. CASE \E run \in ImportedOf("runledger") : RunGives(run, id)
  BY <1>5, RunForms
<1>6. CASE \E c \in ImportedOf("evidence") : ClaimGives(c, id)
  BY <1>6, ClaimForms
<1> QED  BY <1>1, <1>2, <1>3, <1>4, <1>5, <1>6 DEF ImportsTell

\* The queries, one by one.
LEMMA RequirementsAnswer ==
    ASSUME GraphInv, VersionsKept
    PROVE  LET asserted  == UNION {ToSet(p.requirements) : p \in ImportedOf("sva")}
               mentioned == asserted \cup (UNION {ToSet(plan.requirements) : plan \in TestPlans})
                            \cup UNION {ToSet(t.requirements) : t \in PlannedTests}
           IN  RequirementsWithoutAssertions = {NodeId("requirement", r) : r \in mentioned \ asserted}
<1> DEFINE properties == ImportedOf("sva")
           asserted   == UNION {ToSet(p.requirements) : p \in properties}
           mentioned  == asserted \cup (UNION {ToSet(plan.requirements) : plan \in TestPlans})
                         \cup UNION {ToSet(t.requirements) : t \in PlannedTests}
           Requirement(id) == \E r \in mentioned : id = NodeId("requirement", r)
<1>1. /\ \A r : r \in asserted <=> \E p \in properties : r \in ToSet(p.requirements)
      /\ \A r : r \in mentioned <=>
             \/ r \in asserted
             \/ \E plan \in TestPlans : r \in ToSet(plan.requirements)
             \/ \E plan \in TestPlans : \E t \in ToSet(plan.tests) : r \in ToSet(t.requirements)
  BY DEF PlannedTests
<1> HIDE DEF asserted, mentioned
<1>2. \A id \in DOMAIN db : id[1] = "requirement" => Requirement(id)
  BY <1>1, GraphTells, WhoTells
<1>3. ASSUME NEW r \in mentioned
      PROVE  NodeId("requirement", r) \in DOMAIN db
  <2> DEFINE id == NodeId("requirement", r)
  <2>1. CASE r \in asserted
    <3>1. PICK p \in properties : r \in ToSet(p.requirements)
      BY <1>1, <2>1
    <3>2. PropertyGives(p, id)
      BY <3>1 DEF PropertyGives
    <3> HIDE DEF id
    <3> QED  BY <3>2, GraphTells DEF ImportsTell, id
  <2>2. CASE \E plan \in TestPlans : r \in ToSet(plan.requirements)
    <3>1. PICK plan \in TestPlans : r \in ToSet(plan.requirements)
      BY <2>2
    <3>2. PlanGives(plan, id)
      BY <3>1 DEF PlanGives
    <3> HIDE DEF id
    <3> QED  BY <3>2, GraphTells DEF ImportsTell, id
  <2>3. CASE \E plan \in TestPlans : \E t \in ToSet(plan.tests) : r \in ToSet(t.requirements)
    <3>1. PICK plan \in TestPlans : \E t \in ToSet(plan.tests) : r \in ToSet(t.requirements)
      BY <2>3
    <3>2. PlanGives(plan, id)
      BY <3>1 DEF PlanGives, TestGives
    <3> HIDE DEF id
    <3> QED  BY <3>2, GraphTells DEF ImportsTell, id
  <2> QED  BY <1>1, <2>1, <2>2, <2>3
<1>4. ASSUME NEW r \in asserted
      PROVE  InEdges(NodeId("requirement", r), "asserts") # {}
  <2>1. PICK p \in properties : r \in ToSet(p.requirements)
    BY <1>1
  <2> DEFINE e == EdgeId("asserts", NodeId("assertion", p.id), NodeId("requirement", r))
  <2>2. PropertyGives(p, e)
    BY <2>1 DEF PropertyGives
  <2>3. e[1] = "edge" /\ e[2] = "asserts" /\ e[4] = NodeId("requirement", r)
    BY IdForms
  <2> HIDE DEF e
  <2>4. e \in DOMAIN db
    BY <2>2, GraphTells DEF ImportsTell
  <2> QED  BY <2>3, <2>4 DEF InEdges
<1>5. ASSUME NEW r \in mentioned, InEdges(NodeId("requirement", r), "asserts") # {}
      PROVE  r \in asserted
  <2>1. PICK e \in DOMAIN db : e[1] = "edge" /\ e[2] = "asserts" /\ e[4] = NodeId("requirement", r)
    BY <1>5 DEF InEdges
  <2>2. PICK p \in properties : \E q \in ToSet(p.requirements) : e[4] = NodeId("requirement", q)
    BY <2>1, GraphTells, WhoLinks
  <2> QED  BY <1>1, <2>1, <2>2, IdForms
<1>6. \A id : id \in RequirementsWithoutAssertions <=>
                 id \in DOMAIN db /\ id[1] = "requirement" /\ InEdges(id, "asserts") = {}
  BY DEF RequirementsWithoutAssertions, NodesOf
<1>7. \A r : NodeId("requirement", r)[1] = "requirement"
  BY IdForms
<1>8. RequirementsWithoutAssertions = {NodeId("requirement", r) : r \in mentioned \ asserted}
  BY <1>2, <1>3, <1>4, <1>5, <1>6, <1>7
<1> QED  BY <1>8 DEF asserted, mentioned

LEMMA ClaimsAnswer ==
    ASSUME GraphInv, VersionsKept
    PROVE  LET claims == ImportedOf("evidence") IN
           EvidenceClaimsWithoutBenchmark =
             {NodeId("evidence_claim", c.id) :
                c \in {d \in claims : \A e \in claims : e.id = d.id => e.benchmarks = <<>>}}
<1> DEFINE claims == ImportedOf("evidence")
           bare == {d \in claims : \A e \in claims : e.id = d.id => e.benchmarks = <<>>}
<1>1. ASSUME NEW c \in claims PROVE ToSet(c.benchmarks) = {} <=> c.benchmarks = <<>>
  <2>1. PICK fv \in imported : Artifact[fv[1]][fv[2]].kind = "evidence"
                               /\ c \in ToSet(Artifact[fv[1]][fv[2]].content)
    BY DEF ImportedOf
  <2>2. fv[1] \in Files /\ fv[2] \in DOMAIN Artifact[fv[1]]
    BY DEF GraphInv, VersionsKept
  <2>3. Artifact[fv[1]][fv[2]] \in ToSet(Artifact[fv[1]])
    BY <2>2 DEF ToSet
  <2>4. IsList(c.benchmarks)
    BY <2>1, <2>2, <2>3, ArtifactsAssumption DEF ArtifactsAssumption, EvidenceContent
  <2> QED  BY <2>4, ListSteps, EmptyListSet
<1>2. ASSUME NEW c \in claims
      PROVE  NodeId("evidence_claim", c.id) \in DOMAIN db
  <2>1. ClaimGives(c, NodeId("evidence_claim", c.id))
    BY DEF ClaimGives
  <2> QED  BY <2>1, GraphTells DEF ImportsTell
<1>3. ASSUME NEW c \in claims, NEW b \in ToSet(c.benchmarks)
      PROVE  OutEdges(NodeId("evidence_claim", c.id), "supported_by") # {}
  <2> DEFINE e == EdgeId("supported_by", NodeId("evidence_claim", c.id), NodeId("benchmark", b))
  <2>1. ClaimGives(c, e)
    BY DEF ClaimGives
  <2>2. e[1] = "edge" /\ e[2] = "supported_by" /\ e[3] = NodeId("evidence_claim", c.id)
    BY IdForms
  <2> HIDE DEF e
  <2>3. e \in DOMAIN db
    BY <2>1, GraphTells DEF ImportsTell
  <2> QED  BY <2>2, <2>3 DEF OutEdges
<1>4. ASSUME NEW c \in claims, OutEdges(NodeId("evidence_claim", c.id), "supported_by") # {}
      PROVE  \E e \in claims : e.id = c.id /\ ToSet(e.benchmarks) # {}
  <2>1. PICK e \in DOMAIN db : e[1] = "edge" /\ e[2] = "supported_by"
                               /\ e[3] = NodeId("evidence_claim", c.id)
    BY <1>4 DEF OutEdges
  <2>2. PICK d \in claims : e[3] = NodeId("evidence_claim", d.id) /\ ToSet(d.benchmarks) # {}
    BY <2>1, GraphTells, WhoLinks
  <2> QED  BY <2>1, <2>2, IdForms
<1>5. \A id \in DOMAIN db : id[1] = "evidence_claim" => \E c \in claims : id = NodeId("evidence_claim", c.id)
  BY GraphTells, WhoTells
<1>6. \A id : id \in EvidenceClaimsWithoutBenchmark <=>
                 id \in DOMAIN db /\ id[1] = "evidence_claim" /\ OutEdges(id, "supported_by") = {}
  BY DEF EvidenceClaimsWithoutBenchmark, NodesOf
<1>7. \A c : NodeId("evidence_claim", c)[1] = "evidence_claim"
  BY IdForms
<1>8. ASSUME NEW c \in claims
      PROVE  OutEdges(NodeId("evidence_claim", c.id), "supported_by") = {} <=> c \in bare
  <2>1. \A d, e \in claims : d.id = e.id =>
           NodeId("evidence_claim", d.id) = NodeId("evidence_claim", e.id)
    OBVIOUS
  <2>2. ASSUME c \in bare PROVE OutEdges(NodeId("evidence_claim", c.id), "supported_by") = {}
    BY <1>1, <1>4, <2>2
  <2>3. ASSUME OutEdges(NodeId("evidence_claim", c.id), "supported_by") = {},
               NEW e \in claims, e.id = c.id
        PROVE  e.benchmarks = <<>>
    BY <1>1, <1>3, <2>3
  <2> QED  BY <2>2, <2>3
<1>9. EvidenceClaimsWithoutBenchmark = {NodeId("evidence_claim", c.id) : c \in bare}
  <2>1. \A c \in bare : c \in claims
    OBVIOUS
  <2> HIDE DEF bare, claims
  <2> QED  BY <1>2, <1>5, <1>6, <1>7, <1>8, <2>1
<1> QED  BY <1>9

LEMMA FailuresAnswer ==
    ASSUME GraphInv, VersionsKept, NEW m \in ImportedOf("rtl"), NEW i \in ToSet(m.interfaces)
    PROVE  LET failures == UNION {ToSet(run.failures) : run \in ImportedOf("runledger")} IN
           FailuresAffectingInterface(m.name, i) =
             {NodeId("failure", f.id) :
                f \in {g \in failures : \E q \in ToSet(g.interfaces) : q[1] = m.name /\ q[2] = i}}
<1> DEFINE runs == ImportedOf("runledger")
           failures == UNION {ToSet(run.failures) : run \in runs}
           target == InterfaceId(m.name, i)
           Hit(f) == \E q \in ToSet(f.interfaces) : q[1] = m.name /\ q[2] = i
<1>1. \A f : f \in failures <=> \E run \in runs : f \in ToSet(run.failures)
  OBVIOUS
<1>2. target \in DOMAIN db
  <2>1. ModuleGives(m, target)
    BY DEF ModuleGives
  <2> HIDE DEF target
  <2> QED  BY <2>1, GraphTells DEF ImportsTell
<1>3. \A id : id \in FailuresAffectingInterface(m.name, i) <=>
                 /\ id \in DOMAIN db /\ id[1] = "failure"
                 /\ \E e \in DOMAIN db : /\ e[1] = "edge" /\ e[2] = "affects_interface"
                                         /\ e[4] = target /\ e[3] = id
  <2> HIDE DEF target
  <2>1. FailuresAffectingInterface(m.name, i) =
          {e[3] : e \in InEdges(target, "affects_interface")} \cap NodesOf("failure")
    BY <1>2 DEF FailuresAffectingInterface, target
  <2> QED  BY <2>1 DEF InEdges, NodesOf
<1>4. ASSUME NEW f \in failures, Hit(f)
      PROVE  NodeId("failure", f.id) \in FailuresAffectingInterface(m.name, i)
  <2> DEFINE fid == NodeId("failure", f.id)
             e == EdgeId("affects_interface", fid, target)
  <2>1. PICK run \in runs : f \in ToSet(run.failures)
    BY <1>1
  <2>2. PICK q \in ToSet(f.interfaces) : q[1] = m.name /\ q[2] = i
    BY <1>4
  <2>3. InterfaceId(q[1], q[2]) = target
    BY <2>2
  <2>4. FailureGives(NodeId("regression", run.id), f, fid) /\ FailureGives(NodeId("regression", run.id), f, e)
    BY <2>2, <2>3 DEF FailureGives
  <2>5. e[1] = "edge" /\ e[2] = "affects_interface" /\ e[3] = fid /\ e[4] = target /\ fid[1] = "failure"
    BY IdForms
  <2> HIDE DEF e, fid, target
  <2>6. RunGives(run, fid) /\ RunGives(run, e)
    BY <2>1, <2>4 DEF RunGives
  <2>7. e \in DOMAIN db /\ fid \in DOMAIN db
    BY <2>6, GraphTells DEF ImportsTell
  <2>8. fid \in FailuresAffectingInterface(m.name, i)
    BY <1>3, <2>5, <2>7
  <2> QED  BY <2>8 DEF fid
<1>5. ASSUME NEW id \in FailuresAffectingInterface(m.name, i)
      PROVE  \E f \in failures : Hit(f) /\ id = NodeId("failure", f.id)
  <2>1. PICK e \in DOMAIN db : /\ e[1] = "edge" /\ e[2] = "affects_interface"
                              /\ e[4] = target /\ e[3] = id
    BY <1>3
  <2>2. ImportsTell(e)
    BY GraphTells
  <2> HIDE DEF target
  <2>3. PICK run \in runs : \E f \in ToSet(run.failures) : \E q \in ToSet(f.interfaces) :
                    e[3] = NodeId("failure", f.id) /\ e[4] = InterfaceId(q[1], q[2])
    BY <2>1, <2>2, WhoLinks
  <2>4. PICK f \in ToSet(run.failures) : \E q \in ToSet(f.interfaces) :
                    e[3] = NodeId("failure", f.id) /\ e[4] = InterfaceId(q[1], q[2])
    BY <2>3
  <2>5. PICK q \in ToSet(f.interfaces) : e[3] = NodeId("failure", f.id) /\ e[4] = InterfaceId(q[1], q[2])
    BY <2>4
  <2>6. InterfaceId(q[1], q[2]) = InterfaceId(m.name, i)
    BY <2>1, <2>5 DEF target
  <2>7. q[1] = m.name /\ q[2] = i
    <3>1. \A a, b, c : InterfaceId(a, b) = InterfaceId(c, i) => a = c /\ b = i
      BY InterfacesDiffer
    <3> QED  BY <2>6, <3>1
  <2>8. f \in failures /\ Hit(f) /\ id = NodeId("failure", f.id)
    BY <1>1, <2>1, <2>5, <2>7
  <2> QED  BY <2>8
<1> HIDE DEF failures
<1>6. FailuresAffectingInterface(m.name, i) = {NodeId("failure", f.id) : f \in {g \in failures : Hit(g)}}
  <2> HIDE DEF Hit
  <2> QED  BY <1>4, <1>5
<1> QED  BY <1>6 DEF failures

LEMMA ResetsAnswer ==
    ASSUME GraphInv, VersionsKept, NEW m \in ImportedOf("rtl"), NEW r \in ToSet(m.resets)
    PROVE  PropertiesDependingOnReset(r) =
             {NodeId("assertion", p.id) : p \in {q \in ImportedOf("sva") : r \in ToSet(q.resets)}}
<1> DEFINE properties == ImportedOf("sva")
           target == NodeId("reset_domain", r)
<1>1. target \in DOMAIN db
  <2>1. ModuleGives(m, target)
    BY DEF ModuleGives
  <2> HIDE DEF target
  <2> QED  BY <2>1, GraphTells DEF ImportsTell
<1>2. \A id : id \in PropertiesDependingOnReset(r) <=>
                 /\ id \in DOMAIN db /\ id[1] = "assertion"
                 /\ \E e \in DOMAIN db : /\ e[1] = "edge" /\ e[2] = "depends_on_reset"
                                         /\ e[4] = target /\ e[3] = id
  <2> HIDE DEF target
  <2>1. PropertiesDependingOnReset(r) =
          {e[3] : e \in InEdges(target, "depends_on_reset")} \cap NodesOf("assertion")
    BY <1>1 DEF PropertiesDependingOnReset, target
  <2> QED  BY <2>1 DEF InEdges, NodesOf
<1>3. ASSUME NEW p \in properties, r \in ToSet(p.resets)
      PROVE  NodeId("assertion", p.id) \in PropertiesDependingOnReset(r)
  <2> DEFINE aid == NodeId("assertion", p.id)
             e == EdgeId("depends_on_reset", aid, target)
  <2>1. PropertyGives(p, aid) /\ PropertyGives(p, e)
    BY <1>3 DEF PropertyGives
  <2>2. e[1] = "edge" /\ e[2] = "depends_on_reset" /\ e[3] = aid /\ e[4] = target /\ aid[1] = "assertion"
    BY IdForms
  <2> HIDE DEF e, aid, target
  <2>3. e \in DOMAIN db /\ aid \in DOMAIN db
    BY <2>1, GraphTells DEF ImportsTell
  <2>4. aid \in PropertiesDependingOnReset(r)
    BY <1>2, <2>2, <2>3
  <2> QED  BY <2>4 DEF aid
<1>4. ASSUME NEW id \in PropertiesDependingOnReset(r)
      PROVE  \E p \in properties : r \in ToSet(p.resets) /\ id = NodeId("assertion", p.id)
  <2>1. PICK e \in DOMAIN db : /\ e[1] = "edge" /\ e[2] = "depends_on_reset"
                              /\ e[4] = target /\ e[3] = id
    BY <1>2
  <2>2. ImportsTell(e) /\ id[1] = "assertion"
    BY <1>2, GraphTells
  <2>3. PICK p \in properties : \E q \in ToSet(p.resets) :
                    id = NodeId("assertion", p.id) /\ e[4] = NodeId("reset_domain", q)
    BY <2>1, <2>2, WhoLinks
  <2> QED  BY <2>1, <2>3, IdForms
<1>5. PropertiesDependingOnReset(r) =
        {NodeId("assertion", p.id) : p \in {q \in properties : r \in ToSet(q.resets)}}
  BY <1>3, <1>4
<1> QED  BY <1>5

\* The row of a bin is that of a bin that counts.
LEMMA BinCounts ==
    ASSUME GraphInv, VersionsKept, NEW n \in DOMAIN db, n[1] = "coverage_bin"
    PROVE  \E b \in ImportedBins : /\ n = NodeId("coverage_bin", b.id)
                                   /\ db[n].attrs = "hole" <=> b.hits < b.goal
<1> DEFINE Row(b) == Upsert(NodeId("coverage_bin", b.id), IF b.hits < b.goal THEN "hole" ELSE "full")
<1>1. ASSUME NEW f \in Files, NEW v \in DOMAIN Artifact[f], NEW r \in ToSet(Rows(<<f, v>>)), r.id = n
      PROVE  \E b \in BinsOf(<<f, v>>) : r = Row(b)
  <2> DEFINE a == Artifact[f][v]
  <2>1. ArtifactGives(a, n)
    BY <1>1, RowsAreAList DEF RowIds
  <2>2. a.kind = "coverage"
    <3> HIDE DEF a
    <3>1. \A m : ~ModuleGives(m, n)
      BY ModuleForms
    <3>2. \A p : ~PropertyGives(p, n)
      BY PropertyForms
    <3>3. \A p : ~PlanGives(p, n)
      BY PlanForms
    <3>4. \A run : ~RunGives(run, n)
      BY RunForms
    <3>5. \A c : ~ClaimGives(c, n)
      BY ClaimForms
    <3> QED  BY <2>1, <3>1, <3>2, <3>3, <3>4, <3>5 DEF ArtifactGives
  <2>3. PICK b \in ToSet(a.content) : r = Row(b)
    BY <1>1, <2>2, RowsAreAList
  <2>4. b \in BinsOf(<<f, v>>)
    BY <2>2, <2>3 DEF BinsOf
  <2> QED  BY <2>3, <2>4
<1>2. \A b : /\ Row(b).id = NodeId("coverage_bin", b.id) /\ Row(b).always
             /\ Row(b).attrs = IF b.hits < b.goal THEN "hole" ELSE "full"
  BY DEF Upsert
<1>3. PICK fv \in imported : \E r \in ToSet(Rows(fv)) :
        /\ r.id = n
        /\ db[n] = [attrs |-> r.attrs, source |-> fv]
        /\ r.always => \/ fv[2] = latest[fv[1]]
                       \/ ~Described(ToSet(Rows(<<fv[1], latest[fv[1]]>>)), n)
  BY DEF GraphInv, GraphOf
<1>4. PICK r \in ToSet(Rows(fv)) :
        /\ r.id = n
        /\ db[n] = [attrs |-> r.attrs, source |-> fv]
        /\ r.always => \/ fv[2] = latest[fv[1]]
                       \/ ~Described(ToSet(Rows(<<fv[1], latest[fv[1]]>>)), n)
  BY <1>3
<1>5. \A gv \in imported : gv[1] \in Files /\ gv = <<gv[1], gv[2]>> /\ gv[2] \in DOMAIN Artifact[gv[1]]
  <2> TAKE gv \in imported
  <2>1. gv \in Files \X Nat
    BY DEF GraphInv
  <2>2. gv[1] \in Files /\ gv = <<gv[1], gv[2]>>
    BY <2>1
  <2>3. gv[2] \in DOMAIN Artifact[gv[1]]
    BY DEF VersionsKept
  <2> QED  BY <2>2, <2>3
<1> DEFINE f == fv[1]
           last == latest[f]
<1>6. f \in Files /\ fv = <<f, fv[2]>> /\ fv[2] \in DOMAIN Artifact[f]
  BY <1>5
<1>7. PICK b \in BinsOf(fv) : r = Row(b)
  <2>1. \E b \in BinsOf(<<f, fv[2]>>) : r = Row(b)
    <3> DEFINE v == fv[2]
    <3>1. v \in DOMAIN Artifact[f] /\ r \in ToSet(Rows(<<f, v>>))
      BY <1>4, <1>6
    <3> HIDE DEF v, f, Row
    <3>2. \E b \in BinsOf(<<f, v>>) : r = Row(b)
      BY <1>1, <1>4, <1>6, <3>1
    <3> QED  BY <3>2 DEF v
  <2> QED  BY <1>6, <2>1
<1>8. <<f, last>> \in imported /\ last \in DOMAIN Artifact[f]
  <2>1. <<f, last>> \in imported
    BY DEF VersionsKept
  <2> QED  BY <1>5, <2>1
<1>9. ASSUME NEW c \in BinsOf(<<f, last>>), c.id = b.id
      PROVE  Described(ToSet(Rows(<<f, last>>)), n)
  <2> HIDE DEF f, last
  <2> DEFINE a == Artifact[f][last]
  <2>1. a.kind = "coverage" /\ c \in ToSet(a.content)
    BY DEF BinsOf
  <2>2. n = NodeId("coverage_bin", c.id)
    BY <1>2, <1>4, <1>7, <1>9
  <2>3. BinGives(c, n)
    BY <2>2 DEF BinGives
  <2>4. ArtifactGives(a, n)
    <3> HIDE DEF a
    <3> QED  BY <2>1, <2>3 DEF ArtifactGives
  <2>5. n \in RowIds(Rows(<<f, last>>))
    BY <1>6, <1>8, <2>4, RowsAreAList
  <2>6. PICK s \in ToSet(Rows(<<f, last>>)) : s.id = n
    BY <2>5 DEF RowIds
  <2>7. PICK d \in BinsOf(<<f, last>>) : s = Row(d)
    BY <1>1, <1>6, <1>8, <2>6
  <2> HIDE DEF Row
  <2>8. s.always
    BY <1>2, <2>7
  <2> QED  BY <2>6, <2>8 DEF Described
<1>10. b \in ImportedBins
  <2>1. r.always
    <3> HIDE DEF Row
    <3> QED  BY <1>2, <1>7
  <2>2. \/ fv[2] = latest[fv[1]] \/ \A c \in BinsOf(<<fv[1], latest[fv[1]]>>) : c.id # b.id
    BY <1>4, <1>9, <2>1
  <2> QED  BY <1>7, <2>2 DEF ImportedBins
<1>11. n = NodeId("coverage_bin", b.id) /\ (db[n].attrs = "hole" <=> b.hits < b.goal)
  <2>1. n = NodeId("coverage_bin", b.id) /\ r.attrs = IF b.hits < b.goal THEN "hole" ELSE "full"
    <3> HIDE DEF Row
    <3> QED  BY <1>2, <1>4, <1>7
  <2>2. db[n].attrs = r.attrs
    BY <1>4
  <2> QED  BY <2>1, <2>2
<1> QED  BY <1>10, <1>11

LEMMA HolesAnswer ==
    ASSUME GraphInv, VersionsKept
    PROVE  LET bins    == ImportedBins
               covered == UNION {ToSet(t.bins) : t \in PlannedTests}
           IN  /\ \A n \in CoverageHolesWithoutTest :
                    \E b \in bins : n = NodeId("coverage_bin", b.id) /\ b.hits < b.goal /\ b.id \notin covered
               /\ \A b \in bins :
                    b.id \notin covered /\ (\A c \in bins : c.id = b.id => c.hits < c.goal) =>
                       NodeId("coverage_bin", b.id) \in CoverageHolesWithoutTest
<1> DEFINE covered == UNION {ToSet(t.bins) : t \in PlannedTests}
<1>1. \A b : b \in covered <=> \E plan \in TestPlans : \E t \in ToSet(plan.tests) : b \in ToSet(t.bins)
  BY DEF PlannedTests
<1> HIDE DEF covered
<1>2. \A n : n \in CoverageHolesWithoutTest <=>
                /\ n \in DOMAIN db /\ n[1] = "coverage_bin"
                /\ db[n].attrs = "hole" /\ InEdges(n, "covers") = {}
  BY DEF CoverageHolesWithoutTest, NodesOf
<1>3. ASSUME NEW b \in covered
      PROVE  InEdges(NodeId("coverage_bin", b), "covers") # {}
  <2>1. PICK plan \in TestPlans : \E t \in ToSet(plan.tests) : b \in ToSet(t.bins)
    BY <1>1
  <2>2. PICK t \in ToSet(plan.tests) : b \in ToSet(t.bins)
    BY <2>1
  <2> DEFINE e == EdgeId("covers", NodeId("test", t.id), NodeId("coverage_bin", b))
  <2>3. PlanGives(plan, e)
    BY <2>2 DEF PlanGives, TestGives
  <2>4. e[1] = "edge" /\ e[2] = "covers" /\ e[4] = NodeId("coverage_bin", b)
    BY IdForms
  <2> HIDE DEF e
  <2>5. e \in DOMAIN db
    BY <2>3, GraphTells DEF ImportsTell
  <2> QED  BY <2>4, <2>5 DEF InEdges
<1>4. ASSUME NEW b, InEdges(NodeId("coverage_bin", b), "covers") # {}
      PROVE  b \in covered
  <2>1. PICK e \in DOMAIN db : e[1] = "edge" /\ e[2] = "covers" /\ e[4] = NodeId("coverage_bin", b)
    BY <1>4 DEF InEdges
  <2>2. PICK plan \in TestPlans : \E t \in ToSet(plan.tests) : \E c \in ToSet(t.bins) :
                    e[4] = NodeId("coverage_bin", c)
    BY <2>1, GraphTells, WhoLinks
  <2> QED  BY <1>1, <2>1, <2>2, IdForms
<1>5. ASSUME NEW b \in ImportedBins
      PROVE  NodeId("coverage_bin", b.id) \in DOMAIN db
  <2>1. PICK fv \in imported : b \in BinsOf(fv)
    BY DEF ImportedBins
  <2>2. b \in ImportedOf("coverage")
    BY <2>1 DEF BinsOf, ImportedOf
  <2>3. BinGives(b, NodeId("coverage_bin", b.id))
    BY DEF BinGives
  <2> QED  BY <2>2, <2>3, GraphTells DEF ImportsTell
<1>6. ASSUME NEW n \in CoverageHolesWithoutTest
      PROVE  \E b \in ImportedBins : n = NodeId("coverage_bin", b.id) /\ b.hits < b.goal /\ b.id \notin covered
  BY <1>2, <1>3, BinCounts
<1>7. ASSUME NEW b \in ImportedBins, b.id \notin covered,
             \A c \in ImportedBins : c.id = b.id => c.hits < c.goal
      PROVE  NodeId("coverage_bin", b.id) \in CoverageHolesWithoutTest
  <2> DEFINE n == NodeId("coverage_bin", b.id)
  <2>1. n \in DOMAIN db /\ n[1] = "coverage_bin" /\ n[2] = b.id
    BY <1>5, IdForms
  <2>2. InEdges(n, "covers") = {}
    BY <1>4, <1>7
  <2> HIDE DEF n
  <2>3. PICK c \in ImportedBins : n = NodeId("coverage_bin", c.id) /\ (db[n].attrs = "hole" <=> c.hits < c.goal)
    BY <2>1, BinCounts
  <2>4. c.id = b.id
    BY <2>1, <2>3, IdForms
  <2>5. n \in CoverageHolesWithoutTest
    BY <1>2, <1>7, <2>1, <2>2, <2>3, <2>4
  <2> QED  BY <2>5 DEF n
<1> QED  BY <1>6, <1>7 DEF covered

LEMMA GraphIsSound ==
    ASSUME GraphInv, VersionsKept
    PROVE  GraphSound
<1>1. QueriesAnswer
  <2> DEFINE failures == UNION {ToSet(run.failures) : run \in ImportedOf("runledger")}
             Hitting(m, i) ==
                {g \in failures : \E q \in ToSet(g.interfaces) : q[1] = m.name /\ q[2] = i}
  <2>1. ASSUME NEW m \in ImportedOf("rtl"), NEW i \in ToSet(m.interfaces)
        PROVE  LET answer == FailuresAffectingInterface(m.name, i) IN
               /\ {NodeId("failure", f.id) : f \in {g \in Hitting(m, i) : g.status = "FAIL"}} \subseteq answer
               /\ answer \subseteq {NodeId("failure", f.id) : f \in Hitting(m, i)}
    <3>1. FailuresAffectingInterface(m.name, i) = {NodeId("failure", f.id) : f \in Hitting(m, i)}
      BY FailuresAnswer
    <3> HIDE DEF Hitting
    <3> QED  BY <3>1
  <2> QED  BY <2>1, RequirementsAnswer, HolesAnswer, ClaimsAnswer, ResetsAnswer DEF QueriesAnswer
<1>2. GraphOfImports
  BY GraphOfMeans DEF GraphInv
<1> QED  BY <1>1, <1>2 DEF GraphSound

\* "Queries find gaps in what was imported": for any artifacts, versions and importers,
\* and whichever came first, what the five queries answer is what the imported artifacts
\* say.
THEOREM GraphSoundAlways == GraphSpec => []GraphSound
<1> DEFINE Inv == GraphInv /\ VersionsKept
<1>1. GraphInit => Inv
  BY GraphInitInv DEF GraphInit, VersionsKept
<1>2. Inv /\ [GraphNext]_graphVars => Inv'
  BY GraphStep, VersionsKeptStep
<1>3. Inv => GraphSound
  BY GraphIsSound
<1> HIDE DEF Inv
<1> QED  BY <1>1, <1>2, <1>3, PTL DEF GraphSpec

-----------------------------------------------------------------------------
(***************************************************************************)
(* What is recovered of a checkout                                         *)
(***************************************************************************)

\* While a checkout is inspected, and when the report is out.
RecoveryInv ==
    /\ tool = "tb-recover"
    /\ \E x \in Checkouts : input = x /\ reports \in {{}, {RecoverReport(x)}}

\* The report is that of the checkout.
LEMMA RecoveryInvariant == RecoverySpec => []RecoveryInv
<1>1. RecoveryInit => RecoveryInv
  BY DEF RecoveryInit, RecoveryInv, Called
<1>2. RecoveryInv /\ [Recover]_passVars => RecoveryInv'
  BY DEF RecoveryInv, Recover, Computing, Reports, passVars
<1> QED  BY <1>1, <1>2, PTL DEF RecoverySpec

\* The elements at some positions, one by one.
LEMMA PickedEach ==
    ASSUME NEW T, NEW s \in Seq(T), NEW keep, \A i \in keep : i \in DOMAIN s
    PROVE  /\ Picked(s, keep) \in Seq(T)
           /\ \A i \in keep : s[i] \in Range(Picked(s, keep))
           /\ \A e \in Range(Picked(s, keep)) : \E i \in keep : s[i] = e
<1>1. keep \in SUBSET (DOMAIN s)
  OBVIOUS
<1>2. Picked(s, keep) \in Seq(T) /\ Range(Picked(s, keep)) = {s[i] : i \in keep}
  BY <1>1, PickedElements
<1> QED  BY <1>2

\* If the first is among those picked, it stays the first.
LEMMA PickedFirst ==
    ASSUME NEW T, NEW s \in Seq(T), NEW keep, \A i \in keep : i \in DOMAIN s, 1 \in keep
    PROVE  Picked(s, keep) # <<>> /\ Picked(s, keep)[1] = s[1]
<1>1. keep \in SUBSET (DOMAIN s) /\ DOMAIN s = 1 .. Len(s) /\ Len(s) \in Nat
  OBVIOUS
<1>2. Cardinality(keep) \in Nat
  BY <1>1, PickedPositions
<1>3. PICK at : PickedAt(s, keep, at)
  BY <1>1, PickedPositions
<1>4. /\ Picked(s, keep) = [m \in DOMAIN at |-> s[at[m]]]
      /\ at \in [1 .. Cardinality(keep) -> keep]
      /\ \A l, m \in DOMAIN at : l < m <=> at[l] < at[m]
  BY <1>3 DEF PickedAt
<1>5. PICK m \in DOMAIN at : at[m] = 1
  BY <1>3 DEF PickedAt
<1>6. 1 \in DOMAIN at /\ m \in Nat /\ m >= 1
  BY <1>2, <1>4, <1>5
<1>7. at[1] \in 1 .. Len(s)
  BY <1>1, <1>4, <1>6
<1>8. ~(1 < m)
  <2> SUFFICES ASSUME 1 < m PROVE FALSE
    OBVIOUS
  <2>1. at[1] < at[m]
    BY <1>4, <1>5, <1>6
  <2> QED  BY <1>5, <1>7, <2>1
<1>9. m = 1
  BY <1>6, <1>8
<1>10. DOMAIN Picked(s, keep) = DOMAIN at /\ Picked(s, keep)[1] = s[at[1]]
  BY <1>4, <1>6
<1>11. Picked(s, keep) # <<>>
  BY <1>6, <1>10
<1> QED  BY <1>5, <1>9, <1>10, <1>11

\* Each element once, the first first.
LEMMA DistinctOf ==
    ASSUME NEW T, NEW s \in Seq(T), s # <<>>
    PROVE  /\ Distinct(s) \in Seq(T) /\ Distinct(s) # <<>> /\ Distinct(s)[1] = s[1]
           /\ \A e : e \in Range(Distinct(s)) <=> e \in Range(s)
<1> DEFINE keep == {i \in DOMAIN s : \A j \in 1 .. (i - 1) : s[j] # s[i]}
<1>1. DOMAIN s = 1 .. Len(s) /\ Len(s) \in Nat /\ Len(s) >= 1
  OBVIOUS
<1>2. 1 \in keep /\ \A i \in keep : i \in DOMAIN s
  BY <1>1
<1>3. Distinct(s) = Picked(s, keep)
  BY DEF Distinct
<1>4. \A e \in Range(s) : \E i \in keep : s[i] = e
  <2> TAKE e \in Range(s)
  <2> DEFINE of == {i \in DOMAIN s : s[i] = e}
  <2>1. of # {}
    BY DEF Range
  <2>2. of \in SUBSET Nat
    BY <1>1
  <2>3. Min(of) \in of /\ \A y \in of : Min(of) <= y
    BY <2>1, <2>2, MinOfSome
  <2> DEFINE first == Min(of)
  <2>4. first \in DOMAIN s /\ s[first] = e
    BY <2>3
  <2>5. \A j \in 1 .. (first - 1) : s[j] # s[first]
    <3> SUFFICES ASSUME NEW j \in 1 .. (first - 1), s[j] = s[first] PROVE FALSE
      OBVIOUS
    <3>1. j \in of
      BY <1>1, <2>4
    <3>2. first <= j /\ j \in Nat /\ first \in Nat
      BY <1>1, <2>3, <2>4, <3>1
    <3> HIDE DEF first
    <3> QED  BY <3>2
  <2> HIDE DEF first
  <2> QED  BY <2>4, <2>5
<1> HIDE DEF keep
<1>5. Picked(s, keep) \in Seq(T) /\ Picked(s, keep) # <<>> /\ Picked(s, keep)[1] = s[1]
  BY <1>2, PickedEach, PickedFirst
<1>6. /\ \A i \in keep : s[i] \in Range(Picked(s, keep))
      /\ \A e \in Range(Picked(s, keep)) : \E i \in keep : s[i] = e
  BY <1>2, PickedEach
<1>7. \A i \in keep : s[i] \in Range(s)
  BY <1>2 DEF Range
<1> QED  BY <1>3, <1>4, <1>5, <1>6, <1>7

Phases == {"clean", "setup", "analyze", "elaborate", "run", "build", "unknown"}

LEMMA PhaseOf ==
    ASSUME NEW words, NEW target
    PROVE  /\ ClassifyPhase(words, target) \in Phases
           /\ target \in {"clean", "distclean"} => ClassifyPhase(words, target) = "clean"
<1> DEFINE hay == words \cup {target}
           group == {i \in DOMAIN PhaseWords : hay \cap PhaseWords[i][2] # {}}
<1>1. /\ DOMAIN PhaseWords = 1 .. 6 /\ \A i \in 1 .. 6 : PhaseWords[i][1] \in Phases
      /\ PhaseWords[1][1] = "clean" /\ PhaseWords[1][2] = {"clean", "distclean"}
  <2>1. /\ PhaseWords[1] = <<"clean", {"clean", "distclean"}>>
        /\ PhaseWords[2][1] = "setup" /\ PhaseWords[3][1] = "analyze" /\ PhaseWords[4][1] = "elaborate"
        /\ PhaseWords[5][1] = "run" /\ PhaseWords[6][1] = "build"
    BY DEF PhaseWords
  <2>2. DOMAIN PhaseWords = 1 .. 6
    BY DEF PhaseWords
  <2>3. \A i \in 1 .. 6 : i = 1 \/ i = 2 \/ i = 3 \/ i = 4 \/ i = 5 \/ i = 6
    OBVIOUS
  <2> QED  BY <2>1, <2>2, <2>3 DEF Phases
<1>2. ClassifyPhase(words, target) =
        IF {"rm", "-rf"} \subseteq hay THEN "clean"
        ELSE IF group = {} THEN "unknown" ELSE PhaseWords[Min(group)][1]
  BY DEF ClassifyPhase
<1>3. group \in SUBSET Nat /\ \A i \in group : i \in 1 .. 6
  BY <1>1
<1>4. target \in {"clean", "distclean"} => 1 \in group
  BY <1>1
<1> HIDE DEF group, hay
<1>5. group # {} => Min(group) \in group /\ \A i \in group : Min(group) <= i
  BY <1>3, MinOfSome
<1>6. 1 \in group => Min(group) = 1
  <2> SUFFICES ASSUME 1 \in group PROVE Min(group) = 1
    OBVIOUS
  <2>1. Min(group) \in 1 .. 6 /\ Min(group) <= 1
    BY <1>3, <1>5
  <2> QED  BY <2>1
<1>7. group # {} => PhaseWords[Min(group)][1] \in Phases
  BY <1>1, <1>3, <1>5
<1>8. "clean" \in Phases /\ "unknown" \in Phases
  BY DEF Phases
<1> QED  BY <1>1, <1>2, <1>4, <1>6, <1>7, <1>8

\* A command as the extractors make it.
IsCommand(c) ==
    c = [text |-> c.text, target |-> c.target, phase |-> c.phase, provenance |-> c.provenance,
         evidence |-> c.evidence, destructive |-> c.destructive]

LEMMA CommandForm ==
    ASSUME NEW a, NEW b, NEW p, NEW v, NEW e, NEW d, NEW c,
           c = [text |-> a, target |-> b, phase |-> p, provenance |-> v, evidence |-> e, destructive |-> d]
    PROVE  IsCommand(c) /\ c.text = a /\ c.target = b /\ c.phase = p /\ c.provenance = v /\ c.evidence = e
           /\ c.destructive = d
BY DEF IsCommand

LEMMA CommandKept ==
    ASSUME NEW c, IsCommand(c), NEW e
    PROVE  LET k == [c EXCEPT !.evidence = e] IN
           /\ IsCommand(k) /\ k.text = c.text /\ k.target = c.target /\ k.phase = c.phase
           /\ k.provenance = c.provenance /\ k.destructive = c.destructive /\ k.evidence = e
<1> DEFINE k == [c EXCEPT !.evidence = e]
           a == c.text
           b == c.target
           p == c.phase
           v == c.provenance
           d == c.destructive
           old == c.evidence
<1>1. c = [text |-> a, target |-> b, phase |-> p, provenance |-> v, evidence |-> old, destructive |-> d]
  BY DEF IsCommand
<1> HIDE DEF a, b, p, v, d, old
<1>2. k = [text |-> a, target |-> b, phase |-> p, provenance |-> v, evidence |-> e, destructive |-> d]
  BY <1>1
<1> HIDE DEF k
<1>3. /\ IsCommand(k) /\ k.text = a /\ k.target = b /\ k.phase = p /\ k.provenance = v
      /\ k.evidence = e /\ k.destructive = d
  BY <1>2, CommandForm
<1> QED  BY <1>3 DEF k, a, b, p, v, d

\* A command that is found on line i of a file: if it is not held back, it does not say
\* itself that it deletes.
FoundOn(f, i, c) ==
    /\ IsCommand(c) /\ c.provenance = "extracted" /\ c.target # "" /\ c.phase \in Phases
    /\ c.evidence = <<At(f, i)>>
    /\ c.phase \notin {"clean", "setup"} /\ ~c.destructive => ~IsDestructive(c.text.words)

FoundAs(f, i, c, text, target) ==
    FoundOn(f, i, c) /\ c.text = text /\ c.target = target /\ (c.destructive <=> IsDestructive(text.words))

LEMMA CommandFound ==
    ASSUME NEW f, NEW i, NEW text, NEW label, NEW target, target # ""
    PROVE  FoundAs(f, i, Command(text, label, target, <<At(f, i)>>), text, target)
<1>0. PICK d : d = IsDestructive(text.words)
  OBVIOUS
<1> DEFINE c == Command(text, label, target, <<At(f, i)>>)
           p == ClassifyPhase(text.words, label)
           e == <<At(f, i)>>
           v == "extracted"
<1>1. c = [text |-> text, target |-> target, phase |-> p, provenance |-> v, evidence |-> e, destructive |-> d]
  BY <1>0 DEF Command
<1>2. p \in Phases
  BY PhaseOf
<1>3. p = ClassifyPhase(text.words, label) /\ e = <<At(f, i)>> /\ v = "extracted"
  OBVIOUS
<1> HIDE DEF c, p, e, v
<1>4. /\ IsCommand(c) /\ c.text = text /\ c.target = target /\ c.phase = p
      /\ c.provenance = v /\ c.evidence = e /\ c.destructive = d
  BY <1>1 DEF IsCommand
<1>5. FoundOn(f, i, c)
  BY <1>0, <1>2, <1>3, <1>4 DEF FoundOn
<1> QED  BY <1>0, <1>3, <1>4, <1>5 DEF c, FoundAs

\* The elements of a function on 1 .. n.
LEMMA ListOf ==
    ASSUME NEW n \in Nat, NEW q, q = [k \in 1 .. n |-> q[k]]
    PROVE  /\ DOMAIN q = 1 .. n /\ Len(q) = n /\ q \in Seq(Range(q))
           /\ \A k \in 1 .. n : q[k] \in Range(q)
           /\ \A e \in Range(q) : \E k \in 1 .. n : q[k] = e
<1>1. DOMAIN q = 1 .. n
  OBVIOUS
<1>2. \A k \in 1 .. n : q[k] \in Range(q)
  BY <1>1 DEF Range
<1>3. \A e \in Range(q) : \E k \in 1 .. n : q[k] = e
  BY <1>1 DEF Range
<1> DEFINE T == Range(q)
<1>4. \A k \in 1 .. n : q[k] \in T
  BY <1>2
<1> HIDE DEF T
<1>5. q \in Seq(T) /\ Len(q) = n
  BY <1>4
<1> QED  BY <1>1, <1>2, <1>3, <1>5 DEF T

\* Some of the places of a list, in order.
PlacesAre(p, m, keep) ==
    /\ p = [k \in 1 .. m |-> p[k]] /\ \A k \in 1 .. m : p[k] \in keep
    /\ \A i \in keep : \E k \in 1 .. m : p[k] = i

LEMMA PlacesPicked ==
    ASSUME NEW n \in Nat, NEW s, s = [i \in 1 .. n |-> i], NEW keep, \A i \in keep : i \in 1 .. n
    PROVE  \E m \in Nat : PlacesAre(Picked(s, keep), m, keep)
<1> DEFINE T == 1 .. n
           p == Picked(s, keep)
<1>1. s \in Seq(T) /\ DOMAIN s = 1 .. n
  OBVIOUS
<1>2. \A i \in keep : i \in DOMAIN s /\ s[i] = i
  OBVIOUS
<1> HIDE DEF T
<1>3. /\ p \in Seq(T) /\ \A i \in keep : s[i] \in Range(p)
      /\ \A e \in Range(p) : \E i \in keep : s[i] = e
  BY <1>1, <1>2, PickedEach, ZenonT(60)
<1> HIDE DEF p
<1>4. p = [k \in 1 .. Len(p) |-> p[k]] /\ Len(p) \in Nat
  BY <1>3
<1>5. /\ \A k \in 1 .. Len(p) : p[k] \in Range(p)
      /\ \A e \in Range(p) : \E k \in 1 .. Len(p) : p[k] = e
  BY <1>4, ListOf
<1>6. /\ \A k \in 1 .. Len(p) : p[k] \in keep
      /\ \A i \in keep : \E k \in 1 .. Len(p) : p[k] = i
  <2>1. \A k \in 1 .. Len(p) : p[k] \in keep
    <3> TAKE k \in 1 .. Len(p)
    <3>1. PICK i \in keep : s[i] = p[k]
      BY <1>3, <1>5
    <3> QED  BY <1>2, <3>1
  <2>2. ASSUME NEW i \in keep PROVE \E k \in 1 .. Len(p) : p[k] = i
    <3>1. s[i] \in Range(p) /\ s[i] = i
      BY <1>2, <1>3
    <3> QED  BY <1>5, <3>1
  <2> QED  BY <2>1, <2>2
<1>7. PlacesAre(p, Len(p), keep)
  BY <1>4, <1>6 DEF PlacesAre
<1> QED  BY <1>4, <1>7 DEF p

\* The targets a Makefile names, with their lines.
TargetSeen(f, s) ==
    /\ s.line \in DOMAIN f.lines /\ f.lines[s.line].is = "rule"
    /\ s.name \in Range(f.lines[s.line].targets)

Sequences(f) ==
    /\ f.lines \in Seq(Range(f.lines)) /\ f.run \in Seq(Range(f.run))
    /\ \A s \in Range(f.run) : s.job # ""
    /\ f.path # ""
    /\ KindOf(f) = "makefile" => \A l \in Range(f.lines) : l.is = "rule" =>
          /\ l.targets \in Seq(Range(l.targets)) /\ l.targets # <<>>
          /\ Range(l.targets) \cap {"", "make"} = {}

LEMMA LinesInFile ==
    ASSUME NEW f, Sequences(f)
    PROVE  /\ \E n \in Nat : DOMAIN f.lines = 1 .. n /\ LinesOf(f) = [i \in 1 .. n |-> i]
           /\ \A i \in DOMAIN f.lines : f.lines[i] \in Range(f.lines)
<1>1. f.lines \in Seq(Range(f.lines))
  BY DEF Sequences
<1>2. DOMAIN f.lines = 1 .. Len(f.lines) /\ Len(f.lines) \in Nat
  BY <1>1
<1>3. \A i \in DOMAIN f.lines : f.lines[i] \in Range(f.lines)
  BY DEF Range
<1> QED  BY <1>2, <1>3 DEF LinesOf

LEMMA TargetsSeen ==
    ASSUME NEW f, Sequences(f), KindOf(f) = "makefile"
    PROVE  SeenTargets(f) \in Seq(Range(SeenTargets(f))) /\ \A s \in Range(SeenTargets(f)) : TargetSeen(f, s)
<1> DEFINE isRule == {i \in DOMAIN f.lines : f.lines[i].is = "rule"}
           rules == Picked(LinesOf(f), isRule)
           Of(i) == LET ts == f.lines[i].targets IN [n \in DOMAIN ts |-> [name |-> ts[n], line |-> i]]
           parts == [k \in DOMAIN rules |-> Of(rules[k])]
<1>1. PICK n \in Nat : DOMAIN f.lines = 1 .. n /\ LinesOf(f) = [i \in 1 .. n |-> i]
  BY LinesInFile
<1>2. \A i \in isRule : i \in 1 .. n
  BY <1>1
<1>3. /\ \A i \in isRule : i \in DOMAIN f.lines /\ f.lines[i].is = "rule" /\ f.lines[i] \in Range(f.lines)
      /\ SeenTargets(f) = FlattenSeq(parts)
  BY LinesInFile DEF SeenTargets
<1>4. ASSUME NEW i \in isRule
      PROVE  Of(i) \in Seq(Range(Of(i))) /\ \A s \in Range(Of(i)) : TargetSeen(f, s)
  <2> DEFINE ts == f.lines[i].targets
  <2>1. ts \in Seq(Range(ts))
    BY <1>3 DEF Sequences
  <2>2. DOMAIN ts = 1 .. Len(ts) /\ Len(ts) \in Nat /\ \A k \in 1 .. Len(ts) : ts[k] \in Range(ts)
    BY <2>1 DEF Range
  <2>3. Of(i) = [k \in 1 .. Len(ts) |-> [name |-> ts[k], line |-> i]]
    BY <2>2
  <2>4. ts = f.lines[i].targets
    OBVIOUS
  <2> HIDE DEF ts, Of
  <2>5. Of(i) = [k \in 1 .. Len(ts) |-> Of(i)[k]]
    BY <2>2, <2>3
  <2>6. /\ Of(i) \in Seq(Range(Of(i)))
        /\ \A s \in Range(Of(i)) : \E k \in 1 .. Len(ts) : Of(i)[k] = s
    BY <2>2, <2>5, ListOf
  <2>7. \A s \in Range(Of(i)) : TargetSeen(f, s)
    <3> TAKE s \in Range(Of(i))
    <3>1. PICK k \in 1 .. Len(ts) : Of(i)[k] = s
      BY <2>6
    <3>2. s = [name |-> ts[k], line |-> i]
      BY <2>3, <3>1
    <3>3. s.line = i /\ s.name = ts[k] /\ ts[k] \in Range(ts)
      BY <2>2, <3>2
    <3> QED  BY <1>3, <2>4, <3>3 DEF TargetSeen
  <2> QED  BY <2>6, <2>7
<1> HIDE DEF isRule, Of
<1>5a. PICK m \in Nat : PlacesAre(rules, m, isRule)
  BY <1>1, <1>2, PlacesPicked
<1>5. rules = [k \in 1 .. m |-> rules[k]] /\ \A k \in 1 .. m : rules[k] \in isRule
  BY <1>5a DEF PlacesAre
<1>6. DOMAIN rules = 1 .. m
  BY <1>5
<1> HIDE DEF rules
<1>7. DOMAIN parts = 1 .. m /\ parts = [k \in 1 .. m |-> parts[k]] /\ \A k \in 1 .. m : parts[k] = Of(rules[k])
  BY <1>6
<1> HIDE DEF parts
<1>8. \A k \in 1 .. m : parts[k] \in Seq(Range(parts[k]))
  BY <1>4, <1>5, <1>7
<1>9. /\ FlattenSeq(parts) \in Seq(Range(FlattenSeq(parts)))
      /\ \A e \in Range(FlattenSeq(parts)) : \E k \in 1 .. m : e \in Range(parts[k])
  BY <1>7, <1>8, FlattenedEach
<1>10. \A e \in Range(FlattenSeq(parts)) : TargetSeen(f, e)
  BY <1>4, <1>5, <1>7, <1>9
<1> QED  BY <1>3, <1>9, <1>10

OfRecipe(f, i) == Command(RecipeText(f, i), TargetAt(f, i), TargetAt(f, i), <<At(f, i)>>)

LEMMA RecipesFound ==
    ASSUME NEW f, Sequences(f)
    PROVE  /\ RecipeCommands(f) \in Seq(Range(RecipeCommands(f)))
           /\ \A i \in DOMAIN f.lines : IsRecipe(f, i) => OfRecipe(f, i) \in Range(RecipeCommands(f))
           /\ \A c \in Range(RecipeCommands(f)) : \E i \in DOMAIN f.lines : IsRecipe(f, i) /\ c = OfRecipe(f, i)
<1> DEFINE keep == {i \in DOMAIN f.lines : IsRecipe(f, i)}
           lines == Picked(LinesOf(f), keep)
           q == RecipeCommands(f)
<1>1. PICK n \in Nat : DOMAIN f.lines = 1 .. n /\ LinesOf(f) = [i \in 1 .. n |-> i]
  BY LinesInFile
<1>2. \A i \in keep : i \in 1 .. n /\ i \in DOMAIN f.lines /\ IsRecipe(f, i)
  BY <1>1
<1>3. \A i \in DOMAIN f.lines : IsRecipe(f, i) => i \in keep
  OBVIOUS
<1>4. q = [k \in DOMAIN lines |-> OfRecipe(f, lines[k])]
  BY DEF RecipeCommands, OfRecipe
<1> HIDE DEF keep, q
<1>4a. PICK m \in Nat : PlacesAre(lines, m, keep)
  BY <1>1, <1>2, PlacesPicked
<1>5. /\ lines = [k \in 1 .. m |-> lines[k]] /\ \A k \in 1 .. m : lines[k] \in keep
      /\ \A i \in keep : \E k \in 1 .. m : lines[k] = i
  BY <1>4a DEF PlacesAre
<1>6. DOMAIN lines = 1 .. m
  BY <1>5
<1> HIDE DEF lines
<1>7. q = [k \in 1 .. m |-> q[k]] /\ \A k \in 1 .. m : q[k] = OfRecipe(f, lines[k])
  BY <1>4, <1>6
<1>8. /\ q \in Seq(Range(q)) /\ \A k \in 1 .. m : q[k] \in Range(q)
      /\ \A c \in Range(q) : \E k \in 1 .. m : q[k] = c
  BY <1>7, ListOf
<1>9. \A i \in DOMAIN f.lines : IsRecipe(f, i) => OfRecipe(f, i) \in Range(q)
  <2> TAKE i \in DOMAIN f.lines
  <2> HAVE IsRecipe(f, i)
  <2>1. PICK k \in 1 .. m : lines[k] = i
    BY <1>3, <1>5
  <2>2. q[k] = OfRecipe(f, i)
    BY <1>7, <2>1
  <2> QED  BY <1>8, <2>2
<1>10. \A c \in Range(q) : \E i \in DOMAIN f.lines : IsRecipe(f, i) /\ c = OfRecipe(f, i)
  <2> TAKE c \in Range(q)
  <2>1. PICK k \in 1 .. m : q[k] = c
    BY <1>8
  <2>2. c = OfRecipe(f, lines[k]) /\ lines[k] \in keep
    BY <1>5, <1>7, <2>1
  <2> QED  BY <1>2, <2>2
<1> QED  BY <1>8, <1>9, <1>10 DEF q

LEMMA RecipeFound ==
    ASSUME NEW f, NEW i, IsRecipe(f, i)
    PROVE  FoundAs(f, i, OfRecipe(f, i), RecipeText(f, i), TargetAt(f, i))
<1> DEFINE text == RecipeText(f, i)
           target == TargetAt(f, i)
<1>1. target # ""
  BY DEF IsRecipe
<1> HIDE DEF text, target
<1>2. FoundAs(f, i, Command(text, target, target, <<At(f, i)>>), text, target)
  BY <1>1, CommandFound
<1> QED  BY <1>2 DEF text, target, OfRecipe

\* Some recipe of the target deletes.
RecipeDeletes(f, t) ==
    \E i \in DOMAIN f.lines : IsRecipe(f, i) /\ TargetAt(f, i) = t /\ IsDestructive(RecipeText(f, i).words)

LEMMA SafeName ==
    ASSUME NEW t, IsDestructive({"make", t})
    PROVE  t \in {"clean", "distclean"}
BY DEF IsDestructive

LEMMA MakeFound ==
    ASSUME NEW f, Sequences(f), KindOf(f) = "makefile", NEW s, TargetSeen(f, s)
    PROVE  LET c == MakeCommand(f, s) IN
           /\ FoundOn(f, s.line, c) /\ c.text = Plain({"make", s.name}) /\ s.name \notin {"", "make"}
           /\ ~c.destructive => ~RecipeDeletes(f, s.name)
<1> DEFINE own == {c \in Range(RecipeCommands(f)) : c.target = s.name}
           text == Plain({"make", s.name})
           e == <<At(f, s.line)>>
           first == Command(text, s.name, s.name, e)
           p == ClassifyPhase(UNION {c.text.words : c \in own}, s.name)
           c == MakeCommand(f, s)
           v == "extracted"
<1>1. s.name \notin {"", "make"}
  <2>1. f.lines[s.line] \in Range(f.lines) /\ f.lines[s.line].is = "rule"
    BY LinesInFile DEF TargetSeen
  <2>2. Range(f.lines[s.line].targets) \cap {"", "make"} = {}
    BY <2>1 DEF Sequences
  <2> QED  BY <2>2 DEF TargetSeen
<1>2. PICK d : d = (\E a \in own : a.destructive)
  OBVIOUS
<1>3. c = [first EXCEPT !.phase = p, !.destructive = d]
  BY <1>2 DEF MakeCommand
<1>4. IsCommand(first) /\ first.text = text /\ first.target = s.name /\ first.provenance = v /\ first.evidence = e
  <2> DEFINE t == s.name
             i == s.line
  <2>1. t # ""
    BY <1>1
  <2> HIDE DEF t, i, text
  <2>2. FoundAs(f, i, Command(text, t, t, <<At(f, i)>>), text, t)
    BY <2>1, CommandFound
  <2>3. FoundAs(f, i, first, text, t)
    BY <2>2 DEF i, t
  <2> HIDE DEF first
  <2>4. IsCommand(first) /\ first.text = text /\ first.target = t /\ first.provenance = "extracted"
        /\ first.evidence = <<At(f, i)>>
    BY <2>3 DEF FoundAs, FoundOn
  <2> QED  BY <2>4 DEF t, i
<1>5. p \in Phases /\ (s.name \in {"clean", "distclean"} => p = "clean")
  BY PhaseOf
<1>6. text.words = {"make", s.name} /\ text = Plain({"make", s.name}) /\ e = <<At(f, s.line)>> /\ v = "extracted"
  BY DEF Plain
<1>7. d \/ ~RecipeDeletes(f, s.name)
  <2> SUFFICES ASSUME NEW i \in DOMAIN f.lines, IsRecipe(f, i), TargetAt(f, i) = s.name,
                      IsDestructive(RecipeText(f, i).words)
               PROVE  d
    BY DEF RecipeDeletes
  <2>1. OfRecipe(f, i) \in Range(RecipeCommands(f))
    BY RecipesFound
  <2>2. OfRecipe(f, i).target = s.name /\ OfRecipe(f, i).destructive
    BY RecipeFound DEF FoundAs
  <2>3. OfRecipe(f, i) \in own
    BY <2>1, <2>2
  <2> QED  BY <1>2, <2>2, <2>3
<1> HIDE DEF own, text, e, p, c, v, first
<1>8. c = [text |-> text, target |-> s.name, phase |-> p, provenance |-> v, evidence |-> e, destructive |-> d]
  BY <1>3, <1>4 DEF IsCommand
<1>9. /\ IsCommand(c) /\ c.text = text /\ c.target = s.name /\ c.phase = p
      /\ c.provenance = v /\ c.evidence = e /\ c.destructive = d
  BY <1>8 DEF IsCommand
<1>10. FoundOn(f, s.line, c)
  <2>1. c.phase \notin {"clean", "setup"} /\ ~c.destructive => ~IsDestructive(c.text.words)
    BY <1>5, <1>6, <1>9, SafeName
  <2> QED  BY <1>1, <1>5, <1>6, <1>9, <2>1 DEF FoundOn
<1> QED  BY <1>1, <1>6, <1>7, <1>9, <1>10 DEF c

LEMMA MakesFound ==
    ASSUME NEW f, Sequences(f), KindOf(f) = "makefile"
    PROVE  /\ MakeCommands(f) \in Seq(Range(MakeCommands(f)))
           /\ \A s \in Range(SeenTargets(f)) : s.name \notin OddTargets => MakeCommand(f, s) \in Range(MakeCommands(f))
           /\ \A c \in Range(MakeCommands(f)) : \E s : TargetSeen(f, s) /\ c = MakeCommand(f, s)
<1> DEFINE all == SeenTargets(f)
           keep == {k \in DOMAIN all : all[k].name \notin OddTargets}
           seen == Picked(all, keep)
           T == Range(all)
           q == MakeCommands(f)
<1>1. all \in Seq(T) /\ \A s \in T : TargetSeen(f, s)
  BY TargetsSeen
<1>2. \A k \in keep : k \in DOMAIN all
  OBVIOUS
<1>3. \A s \in T : \E k \in DOMAIN all : all[k] = s
  BY DEF Range
<1>4. \A k \in DOMAIN all : all[k].name \notin OddTargets => k \in keep
  OBVIOUS
<1>5. q = [k \in DOMAIN seen |-> MakeCommand(f, seen[k])]
  BY DEF MakeCommands
<1> HIDE DEF all, T, keep, q
<1>6. seen \in Seq(T) /\ \A k \in keep : all[k] \in Range(seen)
  BY <1>1, <1>2, PickedEach
<1> HIDE DEF seen
<1> DEFINE m == Len(seen)
<1>7. DOMAIN seen = 1 .. m /\ m \in Nat /\ \A k \in 1 .. m : seen[k] \in T
  BY <1>6
<1>7a. \A s \in Range(seen) : \E k \in 1 .. m : seen[k] = s
  BY <1>7 DEF Range
<1> HIDE DEF m
<1>8. q = [k \in 1 .. m |-> q[k]] /\ \A k \in 1 .. m : q[k] = MakeCommand(f, seen[k])
  BY <1>5, <1>7
<1>9. /\ q \in Seq(Range(q)) /\ \A k \in 1 .. m : q[k] \in Range(q)
      /\ \A c \in Range(q) : \E k \in 1 .. m : q[k] = c
  BY <1>7, <1>8, ListOf
<1>10. \A s \in T : s.name \notin OddTargets => MakeCommand(f, s) \in Range(q)
  <2> TAKE s \in T
  <2> HAVE s.name \notin OddTargets
  <2>1. s \in Range(seen)
    BY <1>3, <1>4, <1>6
  <2>2. PICK k \in 1 .. m : seen[k] = s
    BY <1>7a, <2>1
  <2> QED  BY <1>8, <1>9, <2>2
<1>11. \A c \in Range(q) : \E s : TargetSeen(f, s) /\ c = MakeCommand(f, s)
  BY <1>1, <1>7, <1>8, <1>9
<1> QED  BY <1>9, <1>10, <1>11 DEF q, T, all

\* What an extractor gives: commands on lines of its file, and no word of missing sources.
Given(f, part) ==
    /\ part.commands \in Seq(Range(part.commands))
    /\ \A c \in Range(part.commands) : \E i : FoundOn(f, i, c)
    /\ part.map \in Seq(Range(part.map))
    /\ \A u \in part.issues : u[2] # "missing source"

LEMMA CommandsFound ==
    ASSUME NEW f, NEW m \in Nat, NEW q, q = [k \in 1 .. m |-> q[k]],
           \A k \in 1 .. m : \E i, text, label, target :
               target # "" /\ q[k] = Command(text, label, target, <<At(f, i)>>)
    PROVE  q \in Seq(Range(q)) /\ \A c \in Range(q) : \E i : FoundOn(f, i, c)
<1>1. /\ q \in Seq(Range(q))
      /\ \A c \in Range(q) : \E k \in 1 .. m : q[k] = c
  BY ListOf
<1>2. \A c \in Range(q) : \E i : FoundOn(f, i, c)
  <2> TAKE c \in Range(q)
  <2>1. PICK k \in 1 .. m : q[k] = c
    BY <1>1
  <2>2. PICK i, text, label, target : target # "" /\ q[k] = Command(text, label, target, <<At(f, i)>>)
    OBVIOUS
  <2>3. FoundAs(f, i, Command(text, label, target, <<At(f, i)>>), text, target)
    BY <2>2, CommandFound
  <2> QED  BY <2>1, <2>2, <2>3 DEF FoundAs
<1> QED  BY <1>1, <1>2

LEMMA NothingGiven ==
    /\ NothingFrom.commands = <<>> /\ NothingFrom.map = <<>> /\ NothingFrom.issues = {}
    /\ <<>> \in Seq(Range(<<>>)) /\ \A c : c \notin Range(<<>>)
<1>1. \A c : c \notin Range(<<>>)
  BY DEF Range
<1> QED  BY <1>1 DEF NothingFrom

LEMMA NotMissing ==
    ASSUME NEW a
    PROVE  /\ <<"info", "include", a>>[2] # "missing source"
           /\ <<"info", "templated", a>>[2] # "missing source"
           /\ <<"warning", "not YAML", a>>[2] # "missing source"
OBVIOUS

LEMMA MakefileGives ==
    ASSUME NEW f, Sequences(f), KindOf(f) = "makefile"
    PROVE  /\ Given(f, ExtractMakefile(f))
           /\ ExtractMakefile(f).commands = RecipeCommands(f) \o MakeCommands(f)
           /\ \A c : c \in Range(ExtractMakefile(f).commands) <=>
                 c \in Range(RecipeCommands(f)) \/ c \in Range(MakeCommands(f))
<1> DEFINE q == RecipeCommands(f)
           r == MakeCommands(f)
           T == Range(q) \cup Range(r)
           part == ExtractMakefile(f)
           includes == {<<"info", "include", At(f, i)>> : i \in {j \in DOMAIN f.lines : f.lines[j].is = "include"}}
           map == MakeMap(f)
           signs == ToolSigns(q)
<1>1. part = [NothingFrom EXCEPT !.commands = q \o r, !.tools = signs, !.map = map, !.issues = includes]
  BY DEF ExtractMakefile
<1>2. q \in Seq(Range(q)) /\ r \in Seq(Range(r))
  BY RecipesFound, MakesFound
<1>3. q \o r \in Seq(T) /\ \A c : c \in Range(q \o r) <=> c \in Range(q) \/ c \in Range(r)
  <2> DEFINE A == Range(q)
             B == Range(r)
  <2>1. q \in Seq(A) /\ r \in Seq(B) /\ A \subseteq T /\ B \subseteq T
    BY <1>2
  <2>2. \A c : c \in T <=> c \in A \/ c \in B
    OBVIOUS
  <2> HIDE DEF A, B, T, q, r
  <2>3. q \in Seq(T) /\ r \in Seq(T)
    BY <2>1, WidenedSequence
  <2>4. q \o r \in Seq(T) /\ Range(q \o r) = Range(q) \cup Range(r)
    BY <2>3, RangeOfJoined
  <2> QED  BY <2>4
<1>4. \A c \in Range(q \o r) : \E i : FoundOn(f, i, c)
  <2> TAKE c \in Range(q \o r)
  <2>1. CASE c \in Range(q)
    <3>1. PICK i : IsRecipe(f, i) /\ c = OfRecipe(f, i)
      BY <2>1, RecipesFound
    <3> QED  BY <3>1, RecipeFound DEF FoundAs
  <2>2. CASE c \in Range(r)
    <3>1. PICK s : TargetSeen(f, s) /\ c = MakeCommand(f, s)
      BY <2>2, MakesFound
    <3> QED  BY <3>1, MakeFound
  <2> QED  BY <1>3, <2>1, <2>2
<1>5. map \in Seq(Range(map))
  <2> DEFINE all == SeenTargets(f)
             U == Range(all)
             keep == {k \in DOMAIN all : SourcesOfTarget(f, all[k].name) # {}}
             seen == Picked(all, keep)
             First(t) == Min({s.line : s \in {u \in Range(all) : u.name = t}})
             m == Len(seen)
             Entry(k) == [target |-> seen[k].name, sources |-> SourcesOfTarget(f, seen[k].name),
                          evidence |-> <<At(f, First(seen[k].name))>>]
  <2>1. all \in Seq(U)
    BY TargetsSeen
  <2>2. \A k \in keep : k \in DOMAIN all
    OBVIOUS
  <2>3. map = [k \in DOMAIN seen |-> Entry(k)]
    BY DEF MakeMap
  <2> HIDE DEF all, U, keep, map
  <2>4. seen \in Seq(U)
    BY <2>1, <2>2, PickedEach
  <2> HIDE DEF seen, Entry
  <2>5. DOMAIN seen = 1 .. m /\ m \in Nat
    BY <2>4
  <2> HIDE DEF m
  <2>6. map = [k \in 1 .. m |-> map[k]]
    BY <2>3, <2>5
  <2> QED  BY <2>5, <2>6, ListOf
<1>6. \A u \in includes : u[2] # "missing source"
  BY Zenon, NotMissing
<1> HIDE DEF q, r, map, includes, signs, T, part
<1>7. part.commands = q \o r /\ part.map = map /\ part.issues = includes
  BY <1>1 DEF NothingFrom
<1>8. q \o r \in Seq(Range(q \o r))
  BY <1>3, SequenceRange
<1>9. Given(f, part)
  BY <1>4, <1>5, <1>6, <1>7, <1>8 DEF Given
<1> QED  BY <1>3, <1>7, <1>9 DEF part, q, r

LEMMA ShellGives ==
    ASSUME NEW f, Sequences(f)
    PROVE  Given(f, ExtractShell(f))
<1> DEFINE plain == {i \in DOMAIN f.lines : f.lines[i].is # "assign"}
           keep == {i \in plain : Interesting(ShellText(f, i).words)}
           lines == Picked(LinesOf(f), keep)
           q == [k \in DOMAIN lines |-> Command(ShellText(f, lines[k]), "", f.path, <<At(f, lines[k])>>)]
           needed == UNION {DependenciesOf(ShellText(f, i).words) : i \in plain}
           part == ExtractShell(f)
<1>1. PICK n \in Nat : DOMAIN f.lines = 1 .. n /\ LinesOf(f) = [i \in 1 .. n |-> i]
  BY LinesInFile
<1>2. \A i \in keep : i \in 1 .. n
  BY <1>1
<1>3. part = [NothingFrom EXCEPT !.commands = q, !.tools = ToolSigns(q), !.dependencies = needed]
  BY DEF ExtractShell
<1> HIDE DEF keep, needed, part
<1>4. PICK m \in Nat : PlacesAre(lines, m, keep)
  BY <1>1, <1>2, PlacesPicked
<1> HIDE DEF lines
<1>5. DOMAIN lines = 1 .. m
  BY <1>4 DEF PlacesAre
<1>6. /\ q = [k \in 1 .. m |-> q[k]]
      /\ \A k \in 1 .. m : q[k] = Command(ShellText(f, lines[k]), "", f.path, <<At(f, lines[k])>>)
  BY <1>5
<1>7. f.path # ""
  BY DEF Sequences
<1> HIDE DEF q
<1>8. \A k \in 1 .. m : \E i, text, label, target :
          target # "" /\ q[k] = Command(text, label, target, <<At(f, i)>>)
  BY <1>6, <1>7
<1>9. q \in Seq(Range(q)) /\ \A c \in Range(q) : \E i : FoundOn(f, i, c)
  BY <1>6, <1>8, CommandsFound
<1>10. part.commands = q /\ part.map = <<>> /\ part.issues = {}
  BY <1>3 DEF NothingFrom
<1>11. <<>> \in Seq(Range(<<>>))
  BY NothingGiven
<1>12. Given(f, part)
  BY <1>9, <1>10, <1>11 DEF Given
<1> QED  BY <1>12 DEF part

LEMMA ReadmeGives ==
    ASSUME NEW f, Sequences(f)
    PROVE  Given(f, ExtractReadme(f))
<1> DEFINE Candidate(i) == /\ f.lines[i].is = "text" /\ CommandLike(f.lines[i])
                           /\ InShellFence(f, i) \/ f.lines[i].prompt
           keep == {i \in DOMAIN f.lines : Candidate(i)}
           lines == Picked(LinesOf(f), keep)
           q == [k \in DOMAIN lines |-> Command(f.lines[lines[k]].text, "", f.path, <<At(f, lines[k])>>)]
           part == ExtractReadme(f)
<1>1. PICK n \in Nat : DOMAIN f.lines = 1 .. n /\ LinesOf(f) = [i \in 1 .. n |-> i]
  BY LinesInFile
<1>2. \A i \in keep : i \in 1 .. n
  BY <1>1
<1>3. part = [NothingFrom EXCEPT !.commands = q, !.tools = ToolSigns(q)]
  BY DEF ExtractReadme
<1> HIDE DEF keep, part
<1>4. PICK m \in Nat : PlacesAre(lines, m, keep)
  BY <1>1, <1>2, PlacesPicked
<1> HIDE DEF lines
<1>5. DOMAIN lines = 1 .. m
  BY <1>4 DEF PlacesAre
<1>6. /\ q = [k \in 1 .. m |-> q[k]]
      /\ \A k \in 1 .. m : q[k] = Command(f.lines[lines[k]].text, "", f.path, <<At(f, lines[k])>>)
  BY <1>5
<1>7. f.path # ""
  BY DEF Sequences
<1> HIDE DEF q
<1>8. \A k \in 1 .. m : \E i, text, label, target :
          target # "" /\ q[k] = Command(text, label, target, <<At(f, i)>>)
  <2> TAKE k \in 1 .. m
  <2> DEFINE t == f.lines[lines[k]].text
             i == lines[k]
             p == f.path
  <2>1. p # "" /\ q[k] = Command(t, "", p, <<At(f, i)>>)
    BY <1>6, <1>7
  <2> HIDE DEF t, i, p
  <2> QED  BY <2>1
<1>9. q \in Seq(Range(q)) /\ \A c \in Range(q) : \E i : FoundOn(f, i, c)
  BY <1>6, <1>8, CommandsFound
<1>10. part.commands = q /\ part.map = <<>> /\ part.issues = {}
  BY <1>3 DEF NothingFrom
<1>11. <<>> \in Seq(Range(<<>>))
  BY NothingGiven
<1>12. Given(f, part)
  BY <1>9, <1>10, <1>11 DEF Given
<1> QED  BY <1>12 DEF part

LEMMA FilelistGives ==
    ASSUME NEW f
    PROVE  Given(f, ExtractFilelist(f))
<1> DEFINE found(i) == f.lines[i].words \cap (HdlNames \cup FilelistNames)
           giving == {i \in DOMAIN f.lines : found(i) # {}}
           note == {<<"info", "empty filelist", At(f, 1)>>}
           entry == [target |-> f.path, sources |-> UNION {found(i) : i \in giving}, evidence |-> <<At(f, Max(giving))>>]
           part == ExtractFilelist(f)
<1>1. \/ part = [NothingFrom EXCEPT !.issues = note]
      \/ part = [NothingFrom EXCEPT !.map = <<entry>>]
  BY DEF ExtractFilelist
<1> HIDE DEF entry, part, giving, found
<1>2. \A u \in note : u[2] # "missing source"
  <2> DEFINE a == At(f, 1)
             u == <<"info", "empty filelist", a>>
  <2>1. note = {u}
    OBVIOUS
  <2> HIDE DEF a
  <2>2. u[2] # "missing source"
    OBVIOUS
  <2> HIDE DEF u, note
  <2> QED  BY <2>1, <2>2
<1> HIDE DEF note
<1>3. <<entry>> \in Seq(Range(<<entry>>))
  <2>1. <<entry>> \in Seq({entry})
    OBVIOUS
  <2> QED  BY <2>1, SequenceRange
<1>4. <<>> \in Seq(Range(<<>>)) /\ \A c : c \notin Range(<<>>)
  BY NothingGiven
<1>5. /\ part.commands = <<>> /\ part.map \in {<<>>, <<entry>>} /\ part.issues \in {{}, note}
  BY <1>1 DEF NothingFrom
<1>6. Given(f, part)
  BY <1>2, <1>3, <1>4, <1>5 DEF Given
<1> QED  BY <1>6 DEF part

LEMMA LineFound ==
    ASSUME NEW f, NEW words, NEW cursor \in Nat
    PROVE  FindLine(f, words, cursor) \in Nat
<1> DEFINE hits == {i \in (cursor + 1) .. Len(f.lines) : words \subseteq f.lines[i]}
<1>1. FindLine(f, words, cursor) = IF hits = {} THEN cursor + 1 ELSE Min(hits)
  BY DEF FindLine
<1>2. hits \in SUBSET Nat
  <2>1. \A i \in (cursor + 1) .. Len(f.lines) : i \in Nat
    OBVIOUS
  <2> QED  BY <2>1
<1> HIDE DEF hits
<1>3. hits # {} => Min(hits) \in Nat
  BY <1>2, MinOfSome
<1> QED  BY <1>1, <1>3

\* The search for the lines goes from one command to the next.
Searched(f, line) ==
    /\ line[0] = 0 /\ \A k \in 0 .. Len(f.run) : line[k] \in Nat
    /\ \A k \in 1 .. Len(f.run) : line[k] = FindLine(f, f.run[k].words, line[k - 1])

LEMMA SearchSteps ==
    ASSUME NEW f, Sequences(f)
    PROVE  \E line : Searched(f, line) /\ RunLines(f) = [k \in DOMAIN f.run |-> line[k]]
<1> DEFINE n == Len(f.run)
           Next1(k, c) == FindLine(f, f.run[k].words, c)
           Result == [k \in 1 .. n |-> [c \in Nat |-> Next1(k, c)]]
           line == CHOOSE g : g = [k \in 0 .. Len(f.run) |->
                      IF k = 0 THEN 0 ELSE FindLine(f, f.run[k].words, g[k - 1])]
<1>1. n \in Nat
  <2>1. f.run \in Seq(Range(f.run))
    BY DEF Sequences
  <2> QED  BY <2>1
<1>2. \A k, c : c \in Nat => Next1(k, c) \in Nat
  BY LineFound
<1>3. RunLines(f) = [k \in DOMAIN f.run |-> line[k]]
  BY DEF RunLines
<1>4. line = CHOOSE g : g = [k \in 0 .. n |-> IF k = 0 THEN 0 ELSE Next1(k, g[k - 1])]
  OBVIOUS
<1>5. Searched(f, line) <=>
        /\ line[0] = 0 /\ \A k \in 0 .. n : line[k] \in Nat
        /\ \A k \in 1 .. n : line[k] = Next1(k, line[k - 1])
  BY DEF Searched
<1> HIDE DEF n, Next1, line
<1>6. Result \in [1 .. n -> [Nat -> Nat]]
  BY <1>2
<1>7. PICK g : Iterates(g, n, Nat, 0, Result)
  <2> HIDE DEF Result
  <2>1. StepsWithin(n, Nat, 0, Result)
    BY <1>1, <1>6 DEF StepsWithin
  <2> QED  BY <2>1, IteratedSteps
<1>8. g \in [0 .. n -> Nat] /\ g[0] = 0 /\ \A k \in 1 .. n : g[k] = Next1(k, g[k - 1])
  <2>1. g \in [0 .. n -> Nat] /\ g[0] = 0 /\ \A k \in 1 .. n : g[k] = Result[k][g[k - 1]]
    <3> HIDE DEF Result
    <3> QED  BY <1>7 DEF Iterates
  <2>2. ASSUME NEW k \in 1 .. n PROVE g[k] = Next1(k, g[k - 1])
    <3>1. g[k - 1] \in Nat
      BY <1>1, <2>1
    <3>2. Result[k][g[k - 1]] = Next1(k, g[k - 1])
      BY <3>1
    <3> QED  BY <2>1, <3>2
  <2> HIDE DEF Result
  <2> QED  BY <2>1, <2>2
<1>9. g = [k \in 0 .. n |-> IF k = 0 THEN 0 ELSE Next1(k, g[k - 1])]
  <2> DEFINE v(k) == IF k = 0 THEN 0 ELSE Next1(k, g[k - 1])
  <2>1. \A k \in 0 .. n : g[k] = v(k)
    BY <1>1, <1>8
  <2>2. g \in [0 .. n -> Nat]
    BY <1>8
  <2> HIDE DEF v
  <2>3. g = [k \in 0 .. n |-> v(k)]
    BY <2>1, <2>2
  <2> QED  BY <2>3 DEF v
<1>10. line = [k \in 0 .. n |-> IF k = 0 THEN 0 ELSE Next1(k, line[k - 1])]
  BY <1>4, <1>9, Zenon
<1>11. line[0] = 0 /\ \A k \in 1 .. n : line[k] = Next1(k, line[k - 1])
  <2> DEFINE v(k) == IF k = 0 THEN 0 ELSE Next1(k, line[k - 1])
  <2>1. line = [k \in 0 .. n |-> v(k)]
    BY <1>10
  <2> HIDE DEF v
  <2>2. \A k \in 0 .. n : line[k] = v(k)
    BY <2>1
  <2>3. 0 \in 0 .. n /\ \A k \in 1 .. n : k \in 0 .. n /\ k # 0
    BY <1>1
  <2> QED  BY <2>2, <2>3 DEF v
<1>12. \A k \in 0 .. n : line[k] \in Nat
  <2> DEFINE S == {k \in 0 .. n : line[k] \in Nat}
  <2>1. 0 \in S
    BY <1>1, <1>11
  <2>2. ASSUME NEW k \in 1 .. n, k - 1 \in S PROVE k \in S
    <3>1. line[k - 1] \in Nat /\ line[k] = Next1(k, line[k - 1])
      BY <1>11, <2>2
    <3>2. line[k] \in Nat
      BY <1>2, <3>1
    <3> QED  BY <1>1, <3>2
  <2> HIDE DEF S
  <2>3. 0 .. n \subseteq S
    BY <1>1, <2>1, <2>2, StepByStep
  <2> QED  BY <2>3 DEF S
<1>13. Searched(f, line)
  BY <1>5, <1>11, <1>12
<1> QED  BY <1>3, <1>13

\* Of a workflow that is written out, each command is found on a line of its own.
LEMMA WrittenOut ==
    ASSUME NEW f, Sequences(f), Verbatim(f)
    PROVE  LET line == RunLines(f) IN
           /\ \A k \in DOMAIN f.run : f.run[k].words \subseteq f.lines[line[k]]
           /\ \A k, m \in DOMAIN f.run : k < m => line[k] # line[m]
<1> DEFINE n == Len(f.run)
<1>1. n \in Nat /\ DOMAIN f.run = 1 .. n
  <2>1. f.run \in Seq(Range(f.run))
    BY DEF Sequences
  <2> QED  BY <2>1
<1>2. DOMAIN f.lines = 1 .. Len(f.lines) /\ Len(f.lines) \in Nat
  <2>1. f.lines \in Seq(Range(f.lines))
    BY DEF Sequences
  <2> QED  BY <2>1
<1>3. PICK line : Searched(f, line) /\ RunLines(f) = [k \in DOMAIN f.run |-> line[k]]
  BY SearchSteps
<1>4. PICK at \in [DOMAIN f.run -> DOMAIN f.lines] :
          /\ \A k \in DOMAIN f.run : f.run[k].words \subseteq f.lines[at[k]]
          /\ \A k, m \in DOMAIN f.run : k < m => at[k] < at[m]
  BY DEF Verbatim
<1>5. /\ line[0] = 0 /\ \A k \in 0 .. n : line[k] \in Nat
      /\ \A k \in 1 .. n : line[k] = FindLine(f, f.run[k].words, line[k - 1])
  BY <1>3 DEF Searched
<1>6. \A k \in 1 .. n : at[k] \in 1 .. Len(f.lines) /\ at[k] \in Nat
  BY <1>1, <1>2, <1>4
<1>7. ASSUME NEW k \in 1 .. n, line[k - 1] < at[k]
      PROVE  /\ line[k] <= at[k] /\ line[k - 1] < line[k] /\ f.run[k].words \subseteq f.lines[line[k]]
  <2> DEFINE c == line[k - 1]
             words == f.run[k].words
             hits == {i \in (c + 1) .. Len(f.lines) : words \subseteq f.lines[i]}
  <2>1. c \in Nat /\ c < at[k]
    BY <1>1, <1>5, <1>7
  <2>2. line[k] = IF hits = {} THEN c + 1 ELSE Min(hits)
    BY <1>5 DEF FindLine
  <2>3. words \subseteq f.lines[at[k]]
    BY <1>1, <1>4
  <2>4. at[k] \in hits
    <3> HIDE DEF c, words
    <3> QED  BY <1>2, <1>6, <2>1, <2>3
  <2>5. \A i \in hits : i \in Nat /\ i > c /\ words \subseteq f.lines[i]
    BY <1>2, <2>1
  <2>6. hits \in SUBSET Nat
    BY <2>5
  <2> HIDE DEF hits
  <2>7. Min(hits) \in hits /\ \A y \in hits : Min(hits) <= y
    BY <2>4, <2>6, MinOfSome
  <2>8. line[k] \in hits /\ line[k] <= at[k]
    BY <2>2, <2>4, <2>7
  <2> HIDE DEF c, words
  <2>9. line[k] > c /\ words \subseteq f.lines[line[k]] /\ line[k] \in Nat
    BY <2>5, <2>8
  <2> QED  BY <2>1, <2>8, <2>9 DEF c, words
<1>8. \A k \in 0 .. n : k = 0 \/ line[k] <= at[k]
  <2> DEFINE S == {k \in 0 .. n : k = 0 \/ line[k] <= at[k]}
  <2>1. 0 \in S
    BY <1>1
  <2>2. ASSUME NEW k \in 1 .. n, k - 1 \in S PROVE k \in S
    <3>1. line[k - 1] < at[k]
      <4>1. CASE k = 1
        BY <1>5, <1>6, <4>1
      <4>2. CASE k # 1
        <5>1. k - 1 \in 1 .. n /\ k \in 1 .. n /\ k - 1 < k /\ k - 1 # 0
          BY <1>1, <4>2
        <5>2. line[k - 1] <= at[k - 1]
          BY <2>2, <5>1
        <5>3. at[k - 1] < at[k]
          BY <1>1, <1>4, <5>1
        <5>4. line[k - 1] \in Nat /\ at[k - 1] \in Nat /\ at[k] \in Nat
          BY <1>1, <1>5, <1>6, <5>1
        <5> QED  BY <5>2, <5>3, <5>4
      <4> QED  BY <4>1, <4>2
    <3>2. line[k] <= at[k]
      BY <1>7, <3>1
    <3> QED  BY <1>1, <3>2
  <2> HIDE DEF S
  <2>3. 0 .. n \subseteq S
    BY <1>1, <2>1, <2>2, StepByStep
  <2> QED  BY <2>3 DEF S
<1>9. ASSUME NEW k \in 1 .. n PROVE line[k - 1] < line[k] /\ f.run[k].words \subseteq f.lines[line[k]]
  <2>1. line[k - 1] < at[k]
    <3>1. CASE k = 1
      BY <1>5, <1>6, <3>1
    <3>2. CASE k # 1
      <4>1. k - 1 \in 1 .. n /\ k - 1 \in 0 .. n /\ k - 1 < k /\ k - 1 # 0
        BY <1>1, <3>2
      <4>2. line[k - 1] <= at[k - 1]
        BY <1>8, <4>1
      <4>3. at[k - 1] < at[k]
        BY <1>1, <1>4, <4>1
      <4>4. line[k - 1] \in Nat /\ at[k - 1] \in Nat /\ at[k] \in Nat
        BY <1>5, <1>6, <4>1
      <4> QED  BY <4>2, <4>3, <4>4
    <3> QED  BY <3>1, <3>2
  <2> QED  BY <1>7, <2>1
<1>10. ASSUME NEW k \in 1 .. n, NEW m \in 1 .. n, k < m PROVE line[k] # line[m]
  <2> DEFINE S == {i \in 0 .. n : k < i => line[k] < line[i]}
  <2>1. 0 \in S
    BY <1>1
  <2>2. ASSUME NEW i \in 1 .. n, i - 1 \in S PROVE i \in S
    <3>1. line[i - 1] < line[i]
      BY <1>9
    <3>2. line[i - 1] \in Nat /\ line[i] \in Nat /\ line[k] \in Nat
      BY <1>1, <1>5
    <3>3. k < i => line[k] < line[i]
      <4>1. CASE k = i - 1
        BY <3>1, <4>1
      <4>2. CASE k # i - 1 /\ k < i
        <5>1. k < i - 1
          BY <1>1, <4>2
        <5>2. line[k] < line[i - 1]
          BY <2>2, <5>1
        <5> QED  BY <3>1, <3>2, <5>2
      <4> QED  BY <4>1, <4>2
    <3> QED  BY <1>1, <3>3
  <2> HIDE DEF S
  <2>3. 0 .. n \subseteq S
    BY <1>1, <2>1, <2>2, StepByStep
  <2>4. m \in S
    BY <1>1, <2>3
  <2>5. line[k] < line[m] /\ line[k] \in Nat /\ line[m] \in Nat
    BY <1>1, <1>5, <1>10, <2>4 DEF S
  <2> QED  BY <2>5
<1>11. \A k \in 1 .. n : RunLines(f)[k] = line[k]
  BY <1>1, <1>3
<1> QED  BY <1>1, <1>9, <1>10, <1>11

\* The command of an entry of a workflow.
OfEntry(f, k) ==
    Command(Plain(f.run[k].words), f.run[k].job, f.path, <<At(f, RunLines(f)[k])>>)

LEMMA EntryFound ==
    ASSUME NEW f, Sequences(f), NEW k
    PROVE  /\ FoundOn(f, RunLines(f)[k], OfEntry(f, k)) /\ OfEntry(f, k).text = Plain(f.run[k].words)
           /\ OfEntry(f, k).text.words = f.run[k].words
<1> DEFINE text == Plain(f.run[k].words)
           label == f.run[k].job
           p == f.path
           i == RunLines(f)[k]
<1>1. p # "" /\ text.words = f.run[k].words
  BY DEF Sequences, Plain
<1>2. OfEntry(f, k) = Command(text, label, p, <<At(f, i)>>)
  BY DEF OfEntry
<1> HIDE DEF text, label, p, i
<1>3. FoundAs(f, i, Command(text, label, p, <<At(f, i)>>), text, p)
  BY <1>1, CommandFound
<1>4. FoundOn(f, i, OfEntry(f, k)) /\ OfEntry(f, k).text = text
  BY <1>2, <1>3 DEF FoundAs
<1> QED  BY <1>1, <1>4 DEF i, text

\* The issue about the k-th command of a workflow.
TemplatedNote(f, k) == <<"info", "templated", At(f, RunLines(f)[k])>>

LEMMA WorkflowGives ==
    ASSUME NEW f, Sequences(f)
    PROVE  /\ Given(f, ReadWorkflow(f))
           /\ \A k \in DOMAIN f.run :
                 \/ FullyTemplated(f.run[k].words) /\ TemplatedNote(f, k) \in ReadWorkflow(f).issues
                 \/ OfEntry(f, k) \in Range(ReadWorkflow(f).commands)
           /\ \A c \in Range(ReadWorkflow(f).commands) :
                 \E k \in DOMAIN f.run : ~FullyTemplated(f.run[k].words) /\ c = OfEntry(f, k)
<1> DEFINE lines == RunLines(f)
           templated == {k \in DOMAIN f.run : FullyTemplated(f.run[k].words)}
           s == [k \in DOMAIN f.run |-> k]
           keep == DOMAIN f.run \ templated
           kept == Picked(s, keep)
           q == [n \in DOMAIN kept |->
                   Command(Plain(f.run[kept[n]].words), f.run[kept[n]].job, f.path, <<At(f, lines[kept[n]])>>)]
           signs == ToolSigns(q) \cup {<<"python", At(f, FindLine(f, {u}, 0))>> : u \in f.uses}
           needed == UNION {DependenciesOf(f.run[k].words) : k \in DOMAIN f.run}
           notes == {<<"info", "templated", At(f, lines[k])>> : k \in templated}
           part == ReadWorkflow(f)
<1>1. \E n \in Nat : DOMAIN f.run = 1 .. n /\ s = [i \in 1 .. n |-> i]
  <2>1. f.run \in Seq(Range(f.run))
    BY DEF Sequences
  <2>2. DOMAIN f.run = 1 .. Len(f.run) /\ Len(f.run) \in Nat
    BY <2>1
  <2> QED  BY <2>2
<1>2. PICK n \in Nat : DOMAIN f.run = 1 .. n /\ s = [i \in 1 .. n |-> i]
  BY <1>1
<1>3. /\ \A k \in keep : k \in DOMAIN f.run /\ ~FullyTemplated(f.run[k].words)
      /\ \A k \in DOMAIN f.run : k \in keep \/ FullyTemplated(f.run[k].words)
  OBVIOUS
<1>4. part = [NothingFrom EXCEPT !.commands = q, !.tools = signs, !.dependencies = needed, !.issues = notes]
  BY DEF ReadWorkflow
<1>4a. \A k \in DOMAIN f.run : FullyTemplated(f.run[k].words) => TemplatedNote(f, k) \in notes
  BY DEF TemplatedNote
<1>5. \A u \in notes : u[2] # "missing source"
  BY Zenon, NotMissing
<1>6. q = [k \in DOMAIN kept |-> OfEntry(f, kept[k])]
  BY DEF OfEntry
<1> HIDE DEF keep, s, signs, needed, notes, part, q
<1>7. PICK m \in Nat : PlacesAre(kept, m, keep)
  <2>1. \A k \in keep : k \in 1 .. n
    BY <1>2, <1>3
  <2> QED  BY <1>2, <2>1, PlacesPicked
<1>8. /\ kept = [k \in 1 .. m |-> kept[k]] /\ \A k \in 1 .. m : kept[k] \in keep
      /\ \A i \in keep : \E k \in 1 .. m : kept[k] = i
  BY <1>7 DEF PlacesAre
<1>9. DOMAIN kept = 1 .. m
  BY <1>8
<1> HIDE DEF kept
<1>10. q = [k \in 1 .. m |-> q[k]] /\ \A k \in 1 .. m : q[k] = OfEntry(f, kept[k])
  BY <1>6, <1>9
<1>11. /\ q \in Seq(Range(q)) /\ \A k \in 1 .. m : q[k] \in Range(q)
       /\ \A c \in Range(q) : \E k \in 1 .. m : q[k] = c
  BY <1>10, ListOf
<1>12. \A k \in DOMAIN f.run : FullyTemplated(f.run[k].words) \/ OfEntry(f, k) \in Range(q)
  <2> TAKE k \in DOMAIN f.run
  <2> SUFFICES ASSUME k \in keep PROVE OfEntry(f, k) \in Range(q)
    BY <1>3
  <2>1. PICK j \in 1 .. m : kept[j] = k
    BY <1>8
  <2>2. q[j] = OfEntry(f, k)
    BY <1>10, <2>1
  <2> QED  BY <1>11, <2>2
<1>13. \A c \in Range(q) : \E k \in DOMAIN f.run : ~FullyTemplated(f.run[k].words) /\ c = OfEntry(f, k)
  <2> TAKE c \in Range(q)
  <2>1. PICK j \in 1 .. m : q[j] = c
    BY <1>11
  <2>2. c = OfEntry(f, kept[j]) /\ kept[j] \in keep
    BY <1>8, <1>10, <2>1
  <2> QED  BY <1>3, <2>2
<1>14. \A c \in Range(q) : \E i : FoundOn(f, i, c)
  BY <1>13, EntryFound
<1>15. part.commands = q /\ part.map = <<>> /\ part.issues = notes
  BY <1>4 DEF NothingFrom
<1>16. <<>> \in Seq(Range(<<>>))
  BY NothingGiven
<1>17. Given(f, part)
  BY <1>5, <1>11, <1>14, <1>15, <1>16 DEF Given
<1> QED  BY <1>4a, <1>12, <1>13, <1>15, <1>17 DEF part

\* A workflow that is not YAML gives nothing but the issue that says so.
Unparsed(f) == <<"warning", "not YAML", At(f, 1)>>

LEMMA CiGives ==
    ASSUME NEW f, Sequences(f)
    PROVE  /\ Given(f, ExtractCi(f))
           /\ f.parses => \A k \in DOMAIN f.run :
                 \/ FullyTemplated(f.run[k].words) /\ TemplatedNote(f, k) \in ExtractCi(f).issues
                 \/ OfEntry(f, k) \in Range(ExtractCi(f).commands)
           /\ \A c \in Range(ExtractCi(f).commands) :
                 f.parses /\ \E k \in DOMAIN f.run : ~FullyTemplated(f.run[k].words) /\ c = OfEntry(f, k)
           /\ ~f.parses => Unparsed(f) \in ExtractCi(f).issues
<1>1. CASE f.parses
  <2>1. ExtractCi(f) = ReadWorkflow(f)
    BY <1>1 DEF ExtractCi
  <2> QED  BY <1>1, <2>1, WorkflowGives
<1>2. CASE ~f.parses
  <2> DEFINE u == Unparsed(f)
             note == {u}
             part == ExtractCi(f)
  <2>1. part = [NothingFrom EXCEPT !.issues = note]
    BY <1>2 DEF ExtractCi, Unparsed
  <2>2. u[2] # "missing source"
    <3> DEFINE a == At(f, 1)
    <3>1. u = <<"warning", "not YAML", a>>
      BY DEF Unparsed
    <3> HIDE DEF a, u
    <3> QED  BY <3>1
  <2> HIDE DEF u, part
  <2>3. part.commands = <<>> /\ part.map = <<>> /\ part.issues = note
    BY <2>1 DEF NothingFrom
  <2>4. <<>> \in Seq(Range(<<>>)) /\ \A c : c \notin Range(<<>>)
    BY NothingGiven
  <2>5. Given(f, part)
    BY <2>2, <2>3, <2>4 DEF Given
  <2>6. u \in part.issues
    BY <2>3
  <2> QED  BY <1>2, <2>3, <2>4, <2>5, <2>6 DEF part, u
<1> QED  BY <1>1, <1>2

LEMMA FileGives ==
    ASSUME NEW f, Sequences(f), KindOf(f) # "none"
    PROVE  Given(f, Extract(f))
<1>1. CASE KindOf(f) = "makefile"
  BY <1>1, MakefileGives DEF Extract
<1>2. CASE KindOf(f) = "shell"
  BY <1>2, ShellGives DEF Extract
<1>3. CASE KindOf(f) = "ci"
  BY <1>3, CiGives DEF Extract
<1>4. CASE KindOf(f) = "filelist"
  BY <1>4, FilelistGives DEF Extract
<1>5. CASE KindOf(f) = "readme"
  BY <1>5, ReadmeGives DEF Extract
<1>6. KindOf(f) \in {"makefile", "shell", "ci", "filelist", "readme", "none"}
  BY DEF KindOf
<1> QED  BY <1>1, <1>2, <1>3, <1>4, <1>5, <1>6

\* The files a checkout is read from.
LEMMA FilesInspected ==
    ASSUME NEW x \in Checkouts
    PROVE  /\ \E n \in Nat : DOMAIN Inspected(x) = 1 .. n
           /\ \A i \in DOMAIN Inspected(x) : Inspected(x)[i] \in Range(Inspected(x))
           /\ \A f \in Range(Inspected(x)) : \E i \in DOMAIN Inspected(x) : Inspected(x)[i] = f
           /\ \A f \in Range(Inspected(x)) : Sequences(f) /\ KindOf(f) # "none"
           /\ \A f, g \in Range(Inspected(x)) : f.path = g.path => f = g
<1> DEFINE skipped(f) == (x.above \cup {f.dir}) \cap SkipDirs # {}
           keep == {i \in DOMAIN x.files : ~skipped(x.files[i]) /\ KindOf(x.files[i]) # "none" /\ x.files[i].readable}
           T == Range(x.files)
           q == Inspected(x)
<1>1. x.files \in Seq(T)
  BY RecoveryAssumption DEF RecoveryAssumption
<1>2. \A i, j \in DOMAIN x.files : x.files[i].path = x.files[j].path => i = j
  BY RecoveryAssumption DEF RecoveryAssumption
<1>3. \A f \in T : Sequences(f)
  BY RecoveryAssumption DEF RecoveryAssumption, Sequences
<1>4. q = Picked(x.files, keep)
  BY DEF Inspected
<1>5. \A i \in keep : i \in DOMAIN x.files /\ KindOf(x.files[i]) # "none"
  OBVIOUS
<1>6. \A i \in DOMAIN x.files : x.files[i] \in T
  BY DEF Range
<1> HIDE DEF keep, T, q
<1>7. q \in Seq(T) /\ \A f \in Range(q) : \E i \in keep : x.files[i] = f
  BY <1>1, <1>4, <1>5, PickedEach
<1>8. \A f \in Range(q) : \E i \in DOMAIN x.files : x.files[i] = f /\ KindOf(f) # "none"
  BY <1>5, <1>7
<1>9. \A f, g \in Range(q) : f.path = g.path => f = g
  BY <1>2, <1>8
<1>10. \A f \in Range(q) : Sequences(f) /\ KindOf(f) # "none"
  BY <1>3, <1>6, <1>8
<1>11. DOMAIN q = 1 .. Len(q) /\ Len(q) \in Nat
  BY <1>7
<1>12. /\ \A i \in DOMAIN q : q[i] \in Range(q)
       /\ \A f \in Range(q) : \E i \in DOMAIN q : q[i] = f
  BY DEF Range
<1> QED  BY <1>9, <1>10, <1>11, <1>12 DEF q

\* The pieces of evidence of some finds: those of each, the first one first.
LEMMA EvidenceOf ==
    ASSUME NEW T, NEW same \in Seq(T), same # <<>>
    PROVE  /\ Evidences(same) # <<>> /\ Evidences(same) \in Seq(Range(Evidences(same)))
           /\ Evidences(same)[1] = same[1].evidence[1]
           /\ \A e : e \in Range(Evidences(same)) <=> \E c \in Range(same) : e = c.evidence[1]
<1> DEFINE s == [i \in DOMAIN same |-> same[i].evidence[1]]
           n == Len(same)
<1>1. n \in Nat /\ DOMAIN same = 1 .. n /\ n >= 1
  OBVIOUS
<1>2. \A i \in 1 .. n : s[i] = same[i].evidence[1]
  BY <1>1
<1>2a. s = [i \in 1 .. n |-> s[i]]
  BY <1>1
<1>3. Evidences(same) = Distinct(s)
  BY DEF Evidences
<1>4. \A c \in Range(same) : \E i \in 1 .. n : same[i] = c
  BY <1>1 DEF Range
<1>5. \A i \in 1 .. n : same[i] \in Range(same)
  BY <1>1 DEF Range
<1> HIDE DEF s, n
<1>6. /\ DOMAIN s = 1 .. n /\ Len(s) = n /\ s \in Seq(Range(s))
      /\ \A i \in 1 .. n : s[i] \in Range(s)
      /\ \A e \in Range(s) : \E i \in 1 .. n : s[i] = e
  BY <1>1, <1>2a, ListOf
<1>7. s # <<>>
  <2>1. 1 \in DOMAIN s
    BY <1>1, <1>6
  <2> QED  BY <2>1
<1> DEFINE U == Range(s)
           d == Distinct(s)
<1>8. s \in Seq(U) /\ \A e : e \in U <=> \E c \in Range(same) : e = c.evidence[1]
  <2>1. \A e \in U : \E c \in Range(same) : e = c.evidence[1]
    <3> TAKE e \in U
    <3>1. PICK i \in 1 .. n : s[i] = e
      BY <1>6
    <3> QED  BY <1>2, <1>5, <3>1
  <2>2. ASSUME NEW c \in Range(same) PROVE c.evidence[1] \in U
    <3>1. PICK i \in 1 .. n : same[i] = c
      BY <1>4
    <3>2. s[i] = c.evidence[1]
      BY <1>2, <3>1
    <3> QED  BY <1>6, <3>2
  <2> QED  BY <1>6, <2>1, <2>2
<1> HIDE DEF U
<1>9. /\ d \in Seq(U) /\ d # <<>> /\ d[1] = s[1]
      /\ \A e : e \in Range(d) <=> e \in Range(s)
  BY <1>7, <1>8, DistinctOf
<1> HIDE DEF d
<1>10. d \in Seq(Range(d))
  BY <1>9, SequenceRange
<1>11. s[1] = same[1].evidence[1]
  BY <1>1, <1>2
<1>12. \A e : e \in Range(d) <=> \E c \in Range(same) : e = c.evidence[1]
  BY <1>8, <1>9 DEF U
<1> QED  BY <1>3, <1>9, <1>10, <1>11, <1>12 DEF d

\* The commands of a list that say the same as one of them.
LEMMA EqualOnes ==
    ASSUME NEW T, NEW q \in Seq(T), NEW c \in Range(q)
    PROVE  /\ EqualTo(q, c) \in Seq(T) /\ EqualTo(q, c) # <<>> /\ Head(EqualTo(q, c)) = EqualTo(q, c)[1]
           /\ EqualTo(q, c)[1] \in Range(EqualTo(q, c))
           /\ \A b : b \in Range(EqualTo(q, c)) <=> b \in Range(q) /\ Equal(b, c)
<1> DEFINE keep == {i \in DOMAIN q : Equal(q[i], c)}
           p == EqualTo(q, c)
<1>1. p = Picked(q, keep)
  BY DEF EqualTo
<1>2. /\ \A i \in keep : i \in DOMAIN q /\ Equal(q[i], c)
      /\ \A i \in DOMAIN q : Equal(q[i], c) => i \in keep
  OBVIOUS
<1>3. /\ \A i \in DOMAIN q : q[i] \in Range(q)
      /\ \A b \in Range(q) : \E i \in DOMAIN q : q[i] = b
  BY DEF Range
<1> HIDE DEF keep, p
<1>4. /\ p \in Seq(T) /\ \A i \in keep : q[i] \in Range(p)
      /\ \A b \in Range(p) : \E i \in keep : q[i] = b
  BY <1>1, <1>2, PickedEach
<1>5. \A b : b \in Range(p) <=> b \in Range(q) /\ Equal(b, c)
  BY <1>2, <1>3, <1>4
<1>6. c \in Range(p)
  BY <1>5 DEF Equal
<1>7. p # <<>>
  BY <1>6 DEF Range
<1>8. Head(p) = p[1] /\ p[1] \in Range(p)
  <2>1. 1 \in DOMAIN p
    BY <1>4, <1>7
  <2> QED  BY <1>4, <1>7, <2>1 DEF Range
<1> QED  BY <1>4, <1>5, <1>7, <1>8 DEF p

\* A command of the report, and the one of the list it is.
MergedFrom(q, d, h) ==
    /\ IsCommand(d) /\ d.text = h.text /\ d.target = h.target /\ d.phase = h.phase
    /\ d.provenance = h.provenance /\ d.destructive = h.destructive
    /\ d.evidence # <<>> /\ d.evidence \in Seq(Range(d.evidence)) /\ d.evidence[1] = h.evidence[1]
    /\ \A e : e \in Range(d.evidence) <=> \E b \in Range(q) : Equal(b, h) /\ e = b.evidence[1]

LEMMA MergedOne ==
    ASSUME NEW T, NEW q \in Seq(T), \A b \in Range(q) : IsCommand(b), NEW c \in Range(q)
    PROVE  LET same == EqualTo(q, c)
               d == [Head(same) EXCEPT !.evidence = Evidences(same)]
           IN  Head(same) \in Range(q) /\ Equal(Head(same), c) /\ MergedFrom(q, d, Head(same))
<1> DEFINE same == EqualTo(q, c)
           h == Head(same)
           ev == Evidences(same)
           d == [h EXCEPT !.evidence = ev]
<1>1. /\ same \in Seq(T) /\ same # <<>> /\ h = same[1] /\ same[1] \in Range(same)
      /\ \A b : b \in Range(same) <=> b \in Range(q) /\ Equal(b, c)
  BY EqualOnes
<1> HIDE DEF same
<1>2. /\ ev # <<>> /\ ev \in Seq(Range(ev)) /\ ev[1] = same[1].evidence[1]
      /\ \A e : e \in Range(ev) <=> \E b \in Range(same) : e = b.evidence[1]
  BY <1>1, EvidenceOf
<1> HIDE DEF ev, h
<1>3. h \in Range(q) /\ Equal(h, c) /\ IsCommand(h)
  BY <1>1
<1>4. \A b : Equal(b, c) <=> Equal(b, h)
  BY <1>3 DEF Equal
<1>5. \A e : e \in Range(ev) <=> \E b \in Range(q) : Equal(b, h) /\ e = b.evidence[1]
  BY <1>1, <1>2, <1>4
<1>6. /\ IsCommand(d) /\ d.text = h.text /\ d.target = h.target /\ d.phase = h.phase
      /\ d.provenance = h.provenance /\ d.destructive = h.destructive /\ d.evidence = ev
  BY <1>3, CommandKept
<1> HIDE DEF d
<1>7. MergedFrom(q, d, h)
  BY <1>1, <1>2, <1>5, <1>6 DEF MergedFrom
<1> QED  BY <1>3, <1>7 DEF d, h, ev, same

LEMMA MergedCommands ==
    ASSUME NEW T, NEW q \in Seq(T), \A b \in Range(q) : IsCommand(b)
    PROVE  /\ \A d \in DedupCommands(q) : \E h \in Range(q) : MergedFrom(q, d, h)
           /\ \A c \in Range(q) : \E d \in DedupCommands(q) : \E h \in Range(q) : Equal(h, c) /\ MergedFrom(q, d, h)
<1> DEFINE One(c) == [Head(EqualTo(q, c)) EXCEPT !.evidence = Evidences(EqualTo(q, c))]
<1>1. DedupCommands(q) = {One(c) : c \in Range(q)}
  BY DEF DedupCommands
<1>2. ASSUME NEW c \in Range(q)
      PROVE  \E h \in Range(q) : Equal(h, c) /\ MergedFrom(q, One(c), h)
  BY MergedOne
<1> HIDE DEF One
<1> QED  BY <1>1, <1>2

\* What the files of a checkout give, and the commands and the targets put together.
Parts(x) == [i \in DOMAIN Inspected(x) |-> Extract(Inspected(x)[i])]
CommandList(x) == FlattenSeq([i \in DOMAIN Parts(x) |-> Parts(x)[i].commands])
MapList(x) == FlattenSeq([i \in DOMAIN Parts(x) |-> Parts(x)[i].map])

LEMMA PartsGiven ==
    ASSUME NEW x \in Checkouts
    PROVE  /\ \E n \in Nat : DOMAIN Inspected(x) = 1 .. n /\ DOMAIN Parts(x) = 1 .. n
           /\ \A i \in DOMAIN Parts(x) : /\ Inspected(x)[i] \in Range(Inspected(x))
                                         /\ Parts(x)[i] = Extract(Inspected(x)[i])
                                         /\ Given(Inspected(x)[i], Parts(x)[i])
           /\ \A p \in Range(Parts(x)) : \A u \in p.issues : u[2] # "missing source"
<1>1. PICK n \in Nat : DOMAIN Inspected(x) = 1 .. n
  BY FilesInspected
<1>2. DOMAIN Parts(x) = DOMAIN Inspected(x)
  BY DEF Parts
<1>3. \A i \in DOMAIN Parts(x) : /\ Inspected(x)[i] \in Range(Inspected(x))
                                 /\ Parts(x)[i] = Extract(Inspected(x)[i])
                                 /\ Given(Inspected(x)[i], Parts(x)[i])
  <2> TAKE i \in DOMAIN Parts(x)
  <2>1. Inspected(x)[i] \in Range(Inspected(x)) /\ Parts(x)[i] = Extract(Inspected(x)[i])
    BY <1>2, FilesInspected DEF Parts
  <2>2. Sequences(Inspected(x)[i]) /\ KindOf(Inspected(x)[i]) # "none"
    BY <2>1, FilesInspected
  <2> QED  BY <2>1, <2>2, FileGives
<1>4. \A p \in Range(Parts(x)) : \A u \in p.issues : u[2] # "missing source"
  <2> TAKE p \in Range(Parts(x))
  <2>1. PICK i \in DOMAIN Parts(x) : Parts(x)[i] = p
    BY DEF Range
  <2> QED  BY <1>3, <2>1 DEF Given
<1> QED  BY <1>1, <1>2, <1>3, <1>4

LEMMA CommandsListed ==
    ASSUME NEW x \in Checkouts
    PROVE  /\ CommandList(x) \in Seq(Range(CommandList(x)))
           /\ \A f \in Range(Inspected(x)) : \A c \in Range(Extract(f).commands) : c \in Range(CommandList(x))
           /\ \A c \in Range(CommandList(x)) : \E f \in Range(Inspected(x)) :
                 c \in Range(Extract(f).commands) /\ \E i : FoundOn(f, i, c)
<1> DEFINE seqs == [i \in DOMAIN Parts(x) |-> Parts(x)[i].commands]
<1>1. PICK n \in Nat : DOMAIN Inspected(x) = 1 .. n /\ DOMAIN Parts(x) = 1 .. n
  BY PartsGiven
<1>2. DOMAIN seqs = 1 .. n /\ seqs = [i \in 1 .. n |-> seqs[i]]
  BY <1>1
<1>3. \A i \in 1 .. n : /\ seqs[i] = Extract(Inspected(x)[i]).commands
                        /\ seqs[i] \in Seq(Range(seqs[i]))
                        /\ Inspected(x)[i] \in Range(Inspected(x))
                        /\ \A c \in Range(seqs[i]) : \E l : FoundOn(Inspected(x)[i], l, c)
  <2> TAKE i \in 1 .. n
  <2>1. /\ Inspected(x)[i] \in Range(Inspected(x)) /\ Parts(x)[i] = Extract(Inspected(x)[i])
        /\ Given(Inspected(x)[i], Parts(x)[i])
    BY <1>1, PartsGiven
  <2>2. seqs[i] = Parts(x)[i].commands
    BY <1>1
  <2> HIDE DEF seqs
  <2> QED  BY <2>1, <2>2 DEF Given
<1>4. CommandList(x) = FlattenSeq(seqs)
  BY DEF CommandList
<1> HIDE DEF seqs
<1>5. \A i \in 1 .. n : seqs[i] \in Seq(Range(seqs[i]))
  BY <1>3
<1>6. /\ FlattenSeq(seqs) \in Seq(Range(FlattenSeq(seqs)))
      /\ \A i \in 1 .. n : \A e \in Range(seqs[i]) : e \in Range(FlattenSeq(seqs))
      /\ \A e \in Range(FlattenSeq(seqs)) : \E i \in 1 .. n : e \in Range(seqs[i])
  BY <1>2, <1>5, FlattenedEach
<1>7. ASSUME NEW f \in Range(Inspected(x)), NEW c \in Range(Extract(f).commands)
      PROVE  c \in Range(CommandList(x))
  <2>1. PICK i \in 1 .. n : Inspected(x)[i] = f
    BY <1>1, FilesInspected
  <2>2. seqs[i] = Extract(f).commands
    BY <1>3, <2>1
  <2> QED  BY <1>4, <1>6, <2>2
<1>8. ASSUME NEW c \in Range(CommandList(x))
      PROVE  \E f \in Range(Inspected(x)) : c \in Range(Extract(f).commands) /\ \E i : FoundOn(f, i, c)
  <2>1. PICK i \in 1 .. n : c \in Range(seqs[i])
    BY <1>4, <1>6
  <2>2. seqs[i] = Extract(Inspected(x)[i]).commands
    BY <1>3
  <2>3. c \in Range(Extract(Inspected(x)[i]).commands) /\ \E l : FoundOn(Inspected(x)[i], l, c)
    BY <1>3, <2>1, <2>2
  <2> QED  BY <1>3, <2>3
<1> QED  BY <1>4, <1>6, <1>7, <1>8

LEMMA MapListed ==
    ASSUME NEW x \in Checkouts
    PROVE  MapList(x) \in Seq(Range(MapList(x)))
<1> DEFINE seqs == [i \in DOMAIN Parts(x) |-> Parts(x)[i].map]
<1>1. PICK n \in Nat : DOMAIN Inspected(x) = 1 .. n /\ DOMAIN Parts(x) = 1 .. n
  BY PartsGiven
<1>2. DOMAIN seqs = 1 .. n /\ seqs = [i \in 1 .. n |-> seqs[i]]
  BY <1>1
<1>3. \A i \in 1 .. n : seqs[i] \in Seq(Range(seqs[i]))
  <2> TAKE i \in 1 .. n
  <2>1. Given(Inspected(x)[i], Parts(x)[i])
    BY <1>1, PartsGiven
  <2>2. seqs[i] = Parts(x)[i].map
    BY <1>1
  <2> HIDE DEF seqs
  <2> QED  BY <2>1, <2>2 DEF Given
<1>4. MapList(x) = FlattenSeq(seqs)
  BY DEF MapList
<1> HIDE DEF seqs
<1>5. FlattenSeq(seqs) \in Seq(Range(FlattenSeq(seqs)))
  BY <1>2, <1>3, FlattenedEach
<1> QED  BY <1>4, <1>5

\* What a report is put together from.
ReportOf(x, r) ==
    LET found == DedupCommands(CommandList(x)) IN
    /\ r.inspected = Inspected(x) /\ r.commands = found \cup GuessedCommands(x, found, r.dependencies)
    /\ r.smoke = SelectSmokeTest(r.commands) /\ r.map = MergeTargetSource(MapList(x))
    /\ \A f \in Range(r.inspected) : \A u \in Extract(f).issues : u \in r.issues
    /\ \A u \in UnresolvedSources(x, r.map) : u \in r.issues
    /\ \A u \in r.issues : u \in UnresolvedSources(x, r.map) \/ u[2] # "missing source"

LEMMA ReportMerged ==
    ASSUME NEW x \in Checkouts
    PROVE  ReportOf(x, RecoverReport(x))
<1> DEFINE parts == Parts(x)
           found == DedupCommands(CommandList(x))
           dependencies == UNION {p.dependencies : p \in Range(parts)}
           tools == DedupTools(UNION {p.tools : p \in Range(parts)})
           map == MergeTargetSource(MapList(x))
           simulators == {t.name : t \in tools} \cap Simulators
           commands == found \cup GuessedCommands(x, found, dependencies)
           notes == UNION {p.issues : p \in Range(parts)}
           missing == UnresolvedSources(x, map)
           none == IF simulators # {} /\ \A c \in found : c.phase # "run"
                   THEN {<<"warning", "no run command", simulators>>} ELSE {}
           smoke == SelectSmokeTest(commands)
           r == RecoverReport(x)
<1>1. r = Merged(x, parts)
  BY DEF RecoverReport, Parts
<1>2. r = [inspected |-> Inspected(x), commands |-> commands, dependencies |-> dependencies, tools |-> tools,
           map |-> map, smoke |-> smoke, issues |-> notes \cup missing \cup none]
  BY <1>1 DEF Merged, CommandList, MapList
<1>3. \A u \in notes : u[2] # "missing source"
  BY PartsGiven
<1>3a. \A f \in Range(Inspected(x)) : \A u \in Extract(f).issues : u \in notes
  <2> SUFFICES ASSUME NEW f \in Range(Inspected(x)), NEW u \in Extract(f).issues PROVE u \in notes
    OBVIOUS
  <2>1. PICK i \in DOMAIN Inspected(x) : Inspected(x)[i] = f
    BY FilesInspected
  <2>2. i \in DOMAIN parts /\ parts[i] = Extract(f)
    BY <2>1 DEF Parts
  <2>3. Extract(f) \in Range(parts)
    BY <2>2 DEF Range
  <2> QED  BY <2>3
<1>4. \A u \in none : u[2] = "no run command"
  <2> DEFINE u == <<"warning", "no run command", simulators>>
  <2>1. \A v \in none : v = u
    OBVIOUS
  <2> HIDE DEF simulators
  <2>2. u[2] = "no run command"
    OBVIOUS
  <2> HIDE DEF u, none
  <2> QED  BY <2>1, <2>2
<1>5. smoke = SelectSmokeTest(commands) /\ missing = UnresolvedSources(x, map) /\ map = MergeTargetSource(MapList(x))
      /\ commands = found \cup GuessedCommands(x, found, dependencies)
  OBVIOUS
<1> HIDE DEF found, dependencies, tools, map, simulators, commands, notes, missing, none, smoke, r
<1>6. /\ r.inspected = Inspected(x) /\ r.commands = commands /\ r.dependencies = dependencies /\ r.map = map
      /\ r.smoke = smoke /\ r.issues = notes \cup missing \cup none
  BY <1>2
<1>7. /\ \A u \in UnresolvedSources(x, r.map) : u \in r.issues
      /\ \A u \in r.issues : u \in UnresolvedSources(x, r.map) \/ u[2] # "missing source"
      /\ \A f \in Range(r.inspected) : \A u \in Extract(f).issues : u \in r.issues
  BY <1>3, <1>3a, <1>4, <1>5, <1>6
<1>8. ReportOf(x, r)
  BY <1>5, <1>6, <1>7 DEF ReportOf, found
<1> QED  BY <1>8 DEF r

LEMMA GuessIs ==
    ASSUME NEW words, NEW phase
    PROVE  LET g == Hypothesis(words, phase) IN
           g.text.words = words /\ g.evidence = <<>> /\ g.provenance = "hypothesis"
<1> PICK d : d = FALSE
  OBVIOUS
<1> DEFINE text == Plain(words)
           v == "hypothesis"
           t == ""
           e == <<>>
           g == Hypothesis(words, phase)
<1>1. text.words = words
  BY DEF Plain
<1>2. g = [text |-> text, target |-> t, phase |-> phase, provenance |-> v, evidence |-> e, destructive |-> d]
  BY DEF Hypothesis
<1> HIDE DEF g, text, v, t, e
<1>3. g.text = text /\ g.evidence = e /\ g.provenance = v
  BY <1>2
<1> QED  BY <1>1, <1>3 DEF g, v, e

\* A guess, and why it is made.
GuessMade(x, commands, dependencies, g) ==
    /\ g.evidence = <<>> /\ g.provenance = "hypothesis"
    /\ \/ g.text.words = {"make"} /\ ~\E c \in commands : c.target # "" /\ IsMake(c)
       \/ g.text.words # {"make"} /\ x.python /\ ~\E d \in dependencies : d.manager = "pip"

LEMMA GuessesAre ==
    ASSUME NEW x, NEW commands, NEW dependencies, NEW g \in GuessedCommands(x, commands, dependencies)
    PROVE  GuessMade(x, commands, dependencies, g)
<1> DEFINE words == {"make"}
           others == {"pip", "install", "-e", "."}
<1>1. \/ g = Hypothesis(words, "build") /\ ~\E c \in commands : c.target # "" /\ IsMake(c)
      \/ g = Hypothesis(others, "setup") /\ x.python /\ ~\E d \in dependencies : d.manager = "pip"
  BY DEF GuessedCommands
<1>2. words # others
  OBVIOUS
<1> HIDE DEF words, others
<1> DEFINE a == Hypothesis(words, "build")
           b == Hypothesis(others, "setup")
<1>3. /\ a.text.words = words /\ a.evidence = <<>> /\ a.provenance = "hypothesis"
      /\ b.text.words = others /\ b.evidence = <<>> /\ b.provenance = "hypothesis"
  BY GuessIs
<1> HIDE DEF a, b
<1>4. g = a \/ g = b
  BY <1>1 DEF a, b
<1>5. g.evidence = <<>> /\ g.provenance = "hypothesis"
  BY <1>3, <1>4
<1>6. CASE g = Hypothesis(words, "build") /\ ~\E c \in commands : c.target # "" /\ IsMake(c)
  BY <1>3, <1>5, <1>6 DEF a, words, GuessMade
<1>7. CASE g = Hypothesis(others, "setup") /\ x.python /\ ~\E d \in dependencies : d.manager = "pip"
  <2>1. g.text.words # words
    BY <1>2, <1>3, <1>7 DEF b
  <2> QED  BY <1>5, <1>7, <2>1 DEF words, GuessMade
<1> QED  BY <1>1, <1>6, <1>7

\* The commands of a report that are from the checkout.
LEMMA FoundInReport ==
    ASSUME NEW x \in Checkouts, NEW r, ReportOf(x, r)
    PROVE  /\ \A d : d \in Found(r) <=> d \in DedupCommands(CommandList(x))
           /\ \A d \in r.commands : d \in Found(r) \/ d \in GuessedCommands(x, Found(r), r.dependencies)
           /\ \A d \in r.commands : d \notin Found(r) => d.evidence = <<>> /\ d.provenance = "hypothesis"
           /\ \A d \in Found(r) : \E h \in Range(CommandList(x)) : MergedFrom(CommandList(x), d, h)
           /\ \A c \in Range(CommandList(x)) : \E d \in Found(r) : \E h \in Range(CommandList(x)) :
                 Equal(h, c) /\ MergedFrom(CommandList(x), d, h)
<1> DEFINE found == DedupCommands(CommandList(x))
           guessed == GuessedCommands(x, found, r.dependencies)
           T == Range(CommandList(x))
<1>1. r.commands = found \cup guessed
  BY DEF ReportOf
<1>2. \A g \in guessed : g.evidence = <<>> /\ g.provenance = "hypothesis"
  <2> TAKE g \in guessed
  <2> DEFINE e == r.dependencies
  <2>1. g \in GuessedCommands(x, found, e)
    OBVIOUS
  <2> HIDE DEF found, guessed, e
  <2> QED  BY <2>1, GuessesAre DEF GuessMade
<1>3. CommandList(x) \in Seq(T) /\ \A b \in T : IsCommand(b) /\ b.provenance = "extracted"
  BY CommandsListed DEF FoundOn
<1> HIDE DEF found, guessed, T
<1>4. /\ \A d \in found : \E h \in Range(CommandList(x)) : MergedFrom(CommandList(x), d, h)
      /\ \A c \in Range(CommandList(x)) : \E d \in found : \E h \in Range(CommandList(x)) :
            Equal(h, c) /\ MergedFrom(CommandList(x), d, h)
  BY <1>3, MergedCommands DEF found, T
<1>5. \A d \in found : d.provenance = "extracted"
  BY <1>3, <1>4 DEF MergedFrom, T
<1>6. \A d : d \in Found(r) <=> d \in found
  BY <1>1, <1>2, <1>5 DEF Found
<1>7. Found(r) = found
  BY <1>6 DEF Found
<1> QED  BY <1>1, <1>2, <1>4, <1>6, <1>7 DEF found, guessed

LEMMA CountedBy ==
    ASSUME NEW n \in Nat, NEW D, \A k \in D : k \in 1 .. n, NEW at, NEW R,
           \A k \in D : at[k] \in R, \A l \in R : \E k \in D : at[k] = l,
           \A k, m \in D : k # m => at[k] # at[m]
    PROVE  Cardinality(R) = Cardinality(D)
<1> DEFINE b == [k \in D |-> at[k]]
<1>1. IsFiniteSet(1 .. n)
  BY FS_Interval
<1>2. IsFiniteSet(D)
  <2> DEFINE I == 1 .. n
  <2>1. IsFiniteSet(I) /\ D \subseteq I
    BY <1>1
  <2> HIDE DEF I
  <2> QED  BY <2>1, FS_Subset
<1>3. b \in [D -> R] /\ \A k \in D : b[k] = at[k]
  OBVIOUS
<1> HIDE DEF b
<1>4. b \in Injection(D, R)
  BY <1>3 DEF Injection, IsInjective
<1>5. b \in Surjection(D, R)
  BY <1>3 DEF Surjection
<1>6. ExistsBijection(D, R)
  BY <1>4, <1>5 DEF ExistsBijection, Bijection
<1> QED  BY <1>2, <1>6, FS_Bijection

LEMMA FirstEvidence ==
    ASSUME NEW f, NEW i, NEW b, FoundOn(f, i, b)
    PROVE  b.evidence[1] = At(f, i)
<1> DEFINE a == At(f, i)
<1>1. b.evidence = <<a>>
  BY DEF FoundOn
<1> HIDE DEF a
<1>2. b.evidence[1] = a
  BY <1>1
<1> QED  BY <1>2 DEF a

\* Evidence is from the commands of the list that are equal, each on a line of its file.
LEMMA EvidenceFrom ==
    ASSUME NEW x \in Checkouts, NEW d, NEW h \in Range(CommandList(x)), MergedFrom(CommandList(x), d, h)
    PROVE  /\ \A e \in Range(d.evidence) : \E f \in Range(Inspected(x)) : \E b \in Range(Extract(f).commands) : \E i :
                 FoundOn(f, i, b) /\ e = At(f, i) /\ b.text = d.text
           /\ \A f \in Range(Inspected(x)) : \A b \in Range(Extract(f).commands) : \A i :
                 FoundOn(f, i, b) /\ b.text = d.text => At(f, i) \in Range(d.evidence)
<1>1. h.provenance = "extracted"
  BY CommandsListed DEF FoundOn
<1>2. ASSUME NEW e \in Range(d.evidence)
      PROVE  \E f \in Range(Inspected(x)) : \E b \in Range(Extract(f).commands) : \E i :
                 FoundOn(f, i, b) /\ e = At(f, i) /\ b.text = d.text
  <2>1. PICK b \in Range(CommandList(x)) : Equal(b, h) /\ e = b.evidence[1]
    BY DEF MergedFrom
  <2>2a. PICK f \in Range(Inspected(x)) : b \in Range(Extract(f).commands) /\ \E i : FoundOn(f, i, b)
    BY CommandsListed
  <2>2. PICK i : FoundOn(f, i, b)
    BY <2>2a
  <2>3. e = At(f, i)
    BY <2>1, <2>2, FirstEvidence
  <2>4. b.text = d.text
    BY <2>1 DEF Equal, MergedFrom
  <2> QED  BY <2>2, <2>2a, <2>3, <2>4
<1>3. ASSUME NEW f \in Range(Inspected(x)), NEW b \in Range(Extract(f).commands), NEW i,
             FoundOn(f, i, b), b.text = d.text
      PROVE  At(f, i) \in Range(d.evidence)
  <2>1. b \in Range(CommandList(x))
    BY CommandsListed
  <2>2. Equal(b, h)
    BY <1>1, <1>3 DEF Equal, MergedFrom, FoundOn
  <2>3. b.evidence[1] = At(f, i)
    BY <1>3, FirstEvidence
  <2> QED  BY <2>1, <2>2, <2>3 DEF MergedFrom
<1> QED  BY <1>2, <1>3

LEMMA AtLine ==
    ASSUME NEW f, NEW i
    PROVE  At(f, i).file = f.path /\ At(f, i).dir = f.dir /\ At(f, i).line = i /\ At(f, i).kind = KindOf(f)
BY DEF At

LEMMA EvidenceIsShown ==
    ASSUME NEW x \in Checkouts, NEW r, ReportOf(x, r)
    PROVE  EvidenceShows(r)
<1>1. \A c \in r.commands : c.provenance = "extracted" <=> c.evidence # <<>>
  <2> TAKE c \in r.commands
  <2>1. CASE c \in Found(r)
    <3>1. c.provenance = "extracted"
      BY <2>1 DEF Found
    <3> QED  BY <2>1, <3>1, FoundInReport DEF MergedFrom
  <2>2. CASE c \notin Found(r)
    <3>1. c.evidence = <<>> /\ c.provenance = "hypothesis"
      BY <2>2, FoundInReport
    <3> QED  BY <3>1
  <2> QED  BY <2>1, <2>2
<1>2. ASSUME NEW c \in r.commands, NEW f \in Range(r.inspected), KindOf(f) = "ci",
             {e.line : e \in {e \in Range(c.evidence) : e.file = f.path}} # {}, Verbatim(f)
      PROVE  LET shown == {e.line : e \in {e \in Range(c.evidence) : e.file = f.path}} IN
             /\ \A i \in shown : c.text.words \subseteq f.lines[i]
             /\ Cardinality(shown) = Cardinality({k \in DOMAIN f.run : f.run[k].words = c.text.words})
  <2> DEFINE shown == {e.line : e \in {e \in Range(c.evidence) : e.file = f.path}}
             same == {k \in DOMAIN f.run : f.run[k].words = c.text.words}
             line == RunLines(f)
  <2>1. f \in Range(Inspected(x)) /\ Sequences(f)
    BY FilesInspected DEF ReportOf
  <2>2. /\ \A k \in DOMAIN f.run : f.run[k].words \subseteq f.lines[line[k]]
        /\ \A k, m \in DOMAIN f.run : k < m => line[k] # line[m]
    BY <1>2, <2>1, WrittenOut
  <2>3. c \in Found(r)
    <3>1. c.evidence # <<>>
      <4>1. \A e : e \notin Range(<<>>)
        BY NothingGiven
      <4> QED  BY <1>2, <4>1
    <3> QED  BY <3>1, FoundInReport
  <2>4. PICK h \in Range(CommandList(x)) : MergedFrom(CommandList(x), c, h)
    BY <2>3, FoundInReport
  <2>5. Extract(f) = ExtractCi(f)
    BY <1>2 DEF Extract
  <2>6. ASSUME NEW i \in shown
        PROVE  \E k \in same : /\ line[k] = i /\ ~FullyTemplated(f.run[k].words)
                               /\ c.text = Plain(f.run[k].words) /\ f.run[k].words = c.text.words
    <3>1. PICK e \in Range(c.evidence) : e.file = f.path /\ e.line = i
      OBVIOUS
    <3>2. PICK g \in Range(Inspected(x)) : \E b \in Range(Extract(g).commands) : \E l :
             FoundOn(g, l, b) /\ e = At(g, l) /\ b.text = c.text
      BY <2>4, EvidenceFrom
    <3>3. g.path = f.path
      BY <3>1, <3>2, AtLine
    <3>4. g = f
      BY <2>1, <3>2, <3>3, FilesInspected
    <3>4a. PICK b \in Range(ExtractCi(f).commands) : \E l : FoundOn(f, l, b) /\ e = At(f, l) /\ b.text = c.text
      BY <2>5, <3>2, <3>4
    <3>5. PICK l : FoundOn(f, l, b) /\ e = At(f, l) /\ b.text = c.text
      BY <3>4a
    <3>6. PICK k \in DOMAIN f.run : ~FullyTemplated(f.run[k].words) /\ b = OfEntry(f, k)
      BY <2>1, <3>5, CiGives
    <3>7. /\ FoundOn(f, line[k], b) /\ b.text = Plain(f.run[k].words) /\ b.text.words = f.run[k].words
      BY <2>1, <3>6, EntryFound
    <3>8. At(f, l) = At(f, line[k])
      <4>1. b.evidence = <<At(f, l)>> /\ b.evidence = <<At(f, line[k])>>
        BY <3>5, <3>7 DEF FoundOn
      <4> QED  BY <4>1
    <3>9. line[k] = i
      BY <3>1, <3>5, <3>8, AtLine
    <3>10. k \in same /\ c.text = Plain(f.run[k].words) /\ f.run[k].words = c.text.words
      BY <3>5, <3>7
    <3> QED  BY <3>6, <3>9, <3>10
  <2>7. PICK j \in DOMAIN f.run : /\ ~FullyTemplated(f.run[j].words) /\ c.text = Plain(f.run[j].words)
                                  /\ f.run[j].words = c.text.words
    <3>1. PICK i : i \in shown
      BY <1>2
    <3>2. \A k \in same : k \in DOMAIN f.run
      OBVIOUS
    <3> HIDE DEF shown, same
    <3> QED  BY <2>6, <3>1, <3>2
  <2>7a. f.parses
    <3>1. PICK i \in shown : TRUE
      BY <1>2
    <3>2. PICK e \in Range(c.evidence) : e.file = f.path /\ e.line = i
      OBVIOUS
    <3>3. PICK g \in Range(Inspected(x)) : \E b \in Range(Extract(g).commands) : \E l :
             FoundOn(g, l, b) /\ e = At(g, l) /\ b.text = c.text
      BY <2>4, EvidenceFrom
    <3>4. g.path = f.path
      BY <3>2, <3>3, AtLine
    <3>5. g = f
      BY <2>1, <3>3, <3>4, FilesInspected
    <3>6. \E b : b \in Range(ExtractCi(f).commands)
      BY <2>5, <3>3, <3>5
    <3> QED  BY <2>1, <3>6, CiGives
  <2>8. ASSUME NEW k \in same PROVE line[k] \in shown
    <3>1. k \in DOMAIN f.run /\ f.run[k].words = f.run[j].words
      BY <2>7
    <3>2. OfEntry(f, k) \in Range(Extract(f).commands)
      BY <2>1, <2>5, <2>7, <2>7a, <3>1, CiGives
    <3>3. FoundOn(f, line[k], OfEntry(f, k)) /\ OfEntry(f, k).text = c.text
      BY <2>1, <2>7, <3>1, EntryFound
    <3>4. At(f, line[k]) \in Range(c.evidence)
      BY <2>1, <2>4, <3>2, <3>3, EvidenceFrom
    <3>5. At(f, line[k]).file = f.path /\ At(f, line[k]).line = line[k]
      BY AtLine
    <3> QED  BY <3>4, <3>5
  <2>9. \A i \in shown : c.text.words \subseteq f.lines[i]
    <3> TAKE i \in shown
    <3>1. PICK k \in same : line[k] = i
      BY <2>6
    <3>2. k \in DOMAIN f.run /\ f.run[k].words = c.text.words
      OBVIOUS
    <3> QED  BY <2>2, <3>1, <3>2
  <2>10. \E n \in Nat : DOMAIN f.run = 1 .. n
    <3>1. f.run \in Seq(Range(f.run))
      BY <2>1 DEF Sequences
    <3>2. DOMAIN f.run = 1 .. Len(f.run) /\ Len(f.run) \in Nat
      BY <3>1
    <3> QED  BY <3>2
  <2>11. Cardinality(shown) = Cardinality(same)
    <3>1. PICK n \in Nat : DOMAIN f.run = 1 .. n
      BY <2>10
    <3>2. \A k \in same : k \in 1 .. n /\ k \in DOMAIN f.run
      BY <3>1
    <3>3. \A i \in shown : \E k \in same : line[k] = i
      BY <2>6
    <3> HIDE DEF shown, same, line
    <3>4. \A k, m \in same : k # m => line[k] # line[m]
      <4> SUFFICES ASSUME NEW k \in same, NEW m \in same, k # m PROVE line[k] # line[m]
        OBVIOUS
      <4>1. k < m \/ m < k
        BY <3>2
      <4> QED  BY <2>2, <3>2, <4>1
    <3> QED  BY <2>8, <3>1, <3>2, <3>3, <3>4, CountedBy
  <2> QED  BY <2>9, <2>11
<1> QED  BY <1>1, <1>2 DEF EvidenceShows

LEMMA EveryLineKept ==
    ASSUME NEW x \in Checkouts, NEW r, ReportOf(x, r)
    PROVE  NothingDropped(r)
<1>1. ASSUME NEW f \in Range(r.inspected) PROVE f \in Range(Inspected(x)) /\ Sequences(f)
  BY FilesInspected DEF ReportOf
<1>2. ASSUME NEW f \in Range(r.inspected), KindOf(f) = "ci", f.parses, NEW k \in DOMAIN f.run
      PROVE  \/ \E c \in Found(r) : c.text.words = f.run[k].words
             \/ FullyTemplated(f.run[k].words) /\ TemplatedNote(f, k) \in r.issues
  <2>1. Extract(f) = ExtractCi(f)
    BY <1>2 DEF Extract
  <2>1a. ASSUME TemplatedNote(f, k) \in Extract(f).issues PROVE TemplatedNote(f, k) \in r.issues
    BY <2>1a DEF ReportOf
  <2> SUFFICES ASSUME ~(FullyTemplated(f.run[k].words) /\ TemplatedNote(f, k) \in r.issues)
               PROVE  \E c \in Found(r) : c.text.words = f.run[k].words
    OBVIOUS
  <2>2. OfEntry(f, k) \in Range(Extract(f).commands)
    BY <1>1, <1>2, <2>1, <2>1a, CiGives
  <2>3. OfEntry(f, k) \in Range(CommandList(x))
    BY <1>1, <2>2, CommandsListed
  <2>4. PICK d \in Found(r), h \in Range(CommandList(x)) :
           Equal(h, OfEntry(f, k)) /\ MergedFrom(CommandList(x), d, h)
    BY <2>3, FoundInReport
  <2>5. d.text = OfEntry(f, k).text
    BY <2>4 DEF Equal, MergedFrom
  <2> QED  BY <1>1, <2>4, <2>5, EntryFound
<1>3. ASSUME NEW f \in Range(r.inspected), KindOf(f) = "makefile", NEW i \in DOMAIN f.lines, IsRecipe(f, i)
      PROVE  \E c \in Found(r) : At(f, i) \in Range(c.evidence)
  <2>1. Extract(f) = ExtractMakefile(f)
    BY <1>3 DEF Extract
  <2>2. OfRecipe(f, i) \in Range(Extract(f).commands)
    BY <1>1, <1>3, <2>1, RecipesFound, MakefileGives
  <2>3. OfRecipe(f, i) \in Range(CommandList(x))
    BY <1>1, <2>2, CommandsListed
  <2>4. PICK d \in Found(r), h \in Range(CommandList(x)) :
           Equal(h, OfRecipe(f, i)) /\ MergedFrom(CommandList(x), d, h)
    BY <2>3, FoundInReport
  <2>5. OfRecipe(f, i).text = d.text
    BY <2>4 DEF Equal, MergedFrom
  <2>6. FoundOn(f, i, OfRecipe(f, i))
    BY <1>3, RecipeFound DEF FoundAs
  <2> QED  BY <1>1, <2>2, <2>4, <2>5, <2>6, EvidenceFrom
<1>4. ASSUME NEW f \in Range(r.inspected), KindOf(f) = "ci", ~f.parses
      PROVE  Unparsed(f) \in r.issues
  <2>1. Unparsed(f) \in ExtractCi(f).issues
    BY <1>1, <1>4, CiGives
  <2>2. Extract(f) = ExtractCi(f)
    BY <1>4 DEF Extract
  <2> QED  BY <2>1, <2>2 DEF ReportOf
<1> QED  BY <1>2, <1>3, <1>4 DEF NothingDropped, TemplatedNote, Unparsed

LEMMA GuessedWhenNeeded ==
    ASSUME NEW x \in Checkouts, NEW r, ReportOf(x, r)
    PROVE  GuessesNeeded(x, r)
<1> SUFFICES ASSUME NEW c \in r.commands \ Found(r)
             PROVE  IF c.text.words = {"make"}
                    THEN \A f \in Range(r.inspected) :
                            KindOf(f) = "makefile" => \A s \in Range(SeenTargets(f)) : s.name \in OddTargets
                    ELSE x.python /\ \A d \in r.dependencies : d.manager # "pip"
  BY DEF GuessesNeeded
<1>1. c \in GuessedCommands(x, Found(r), r.dependencies)
  BY FoundInReport
<1>2. \/ c.text.words = {"make"} /\ ~\E b \in Found(r) : b.target # "" /\ IsMake(b)
      \/ c.text.words # {"make"} /\ x.python /\ ~\E d \in r.dependencies : d.manager = "pip"
  <2> DEFINE found == Found(r)
             needed == r.dependencies
  <2>1. c \in GuessedCommands(x, found, needed)
    BY <1>1
  <2> HIDE DEF found, needed
  <2>2. GuessMade(x, found, needed, c)
    BY <2>1, GuessesAre
  <2> QED  BY <2>2 DEF GuessMade, found, needed
<1>3. ASSUME NEW f \in Range(r.inspected), KindOf(f) = "makefile", NEW s \in Range(SeenTargets(f)),
             s.name \notin OddTargets
      PROVE  \E b \in Found(r) : b.target # "" /\ IsMake(b)
  <2> DEFINE m == MakeCommand(f, s)
  <2>1. f \in Range(Inspected(x)) /\ Sequences(f)
    BY FilesInspected DEF ReportOf
  <2>2. m \in Range(Extract(f).commands)
    BY <1>3, <2>1, MakesFound, MakefileGives DEF Extract
  <2>3. TargetSeen(f, s)
    BY <1>3, <2>1, TargetsSeen
  <2>4. m.text = Plain({"make", s.name}) /\ s.name # "make"
    BY <1>3, <2>1, <2>3, MakeFound
  <2>5. PICK d \in Found(r), h \in Range(CommandList(x)) :
           Equal(h, m) /\ MergedFrom(CommandList(x), d, h)
    BY <2>1, <2>2, CommandsListed, FoundInReport
  <2>6. d.target # ""
    BY <2>5, CommandsListed DEF MergedFrom, FoundOn
  <2>7. d.text = m.text
    BY <2>5 DEF Equal, MergedFrom
  <2>8. d.text.words = {"make", s.name}
    BY <2>4, <2>7 DEF Plain
  <2>9. IsMake(d)
    BY <2>4, <2>8 DEF IsMake
  <2> QED  BY <2>6, <2>9
<1> QED  BY <1>2, <1>3

\* A phase that is neither run nor held back comes after run, whatever the source.
LEMMA RunsFirst ==
    ASSUME NEW c, NEW d, c.phase \in Phases \ {"clean", "setup", "run"}, d.phase = "run"
    PROVE  ~(100 * PhasePref[c.phase] + 10 * SourcePref(c) + (IF IsMake(c) THEN 0 ELSE 1)
               <= 100 * PhasePref[d.phase] + 10 * SourcePref(d) + (IF IsMake(d) THEN 0 ELSE 1))
<1>1. PhasePref[c.phase] \in {1, 2, 3, 5}
  <2>1. c.phase \in {"analyze", "elaborate", "build", "unknown"}
    BY DEF Phases
  <2>2. /\ PhasePref["analyze"] = 3 /\ PhasePref["elaborate"] = 2 /\ PhasePref["build"] = 1
        /\ PhasePref["unknown"] = 5
    BY DEF PhasePref
  <2> QED  BY <2>1, <2>2
<1>2. PhasePref[d.phase] = 0
  BY DEF PhasePref
<1>3. SourcePref(c) \in 0 .. 3 /\ SourcePref(d) \in 0 .. 3
  BY DEF SourcePref
<1> DEFINE a == PhasePref[c.phase]
           b == SourcePref(c)
           e == SourcePref(d)
           u == IF IsMake(c) THEN 0 ELSE 1
           v == IF IsMake(d) THEN 0 ELSE 1
<1>4. u \in 0 .. 1 /\ v \in 0 .. 1
  OBVIOUS
<1>5. a \in {1, 2, 3, 5} /\ b \in 0 .. 3 /\ e \in 0 .. 3
  BY <1>1, <1>3
<1> HIDE DEF a, b, e, u, v
<1>6. ~(100 * a + 10 * b + u <= 100 * 0 + 10 * e + v)
  BY <1>4, <1>5
<1> QED  BY <1>2, <1>6 DEF a, b, e, u, v

LEMMA SmokeIsSafe ==
    ASSUME NEW x \in Checkouts, NEW r, ReportOf(x, r)
    PROVE  SmokeTestSafe(r)
<1> SUFFICES ASSUME NEW c \in r.smoke
             PROVE  /\ c \in Found(r)
                    /\ ~IsDestructive(c.text.words)
                    /\ \A words \in {{"rm", "-rf"}, {"git", "clean"}} : ~Runs(r, c, words)
                    /\ c.phase # "run" => \A d \in Found(r) : d.phase = "run" => d.destructive
  BY DEF SmokeTestSafe
<1>1. r.smoke = SelectSmokeTest(r.commands)
  BY DEF ReportOf
<1>2. c \in Viable(r.commands)
  BY <1>1 DEF SelectSmokeTest
<1>3. /\ c \in r.commands /\ c.provenance = "extracted" /\ ~c.destructive /\ c.phase \notin {"clean", "setup"}
      /\ c \in Found(r)
  BY <1>2 DEF Viable, Found
<1>4. PICK h \in Range(CommandList(x)) : MergedFrom(CommandList(x), c, h)
  BY <1>3, FoundInReport
<1>5. /\ c.text = h.text /\ c.phase = h.phase /\ c.destructive = h.destructive /\ c.target = h.target
      /\ c.evidence[1] = h.evidence[1]
  BY <1>4 DEF MergedFrom
<1>5a. PICK g \in Range(Inspected(x)) : h \in Range(Extract(g).commands) /\ \E l : FoundOn(g, l, h)
  BY CommandsListed
<1>6. PICK l : h \in Range(Extract(g).commands) /\ FoundOn(g, l, h)
  BY <1>5a
<1>7. ~IsDestructive(c.text.words) /\ c.phase \in Phases
  BY <1>3, <1>5, <1>6 DEF FoundOn
<1>8. ASSUME NEW words \in {{"rm", "-rf"}, {"git", "clean"}}, Runs(r, c, words) PROVE FALSE
  <2>1. PICK f \in Range(r.inspected) : \E i \in DOMAIN f.lines :
           /\ c.evidence[1].kind = "makefile" /\ f.path = c.evidence[1].file
           /\ f.lines[c.evidence[1].line].is = "rule"
           /\ IsRecipe(f, i) /\ c.text = Plain({"make", TargetAt(f, i)})
           /\ words \subseteq RecipeText(f, i).words
    BY <1>8 DEF Runs
  <2>2. PICK i \in DOMAIN f.lines :
           /\ c.evidence[1].kind = "makefile" /\ f.path = c.evidence[1].file
           /\ f.lines[c.evidence[1].line].is = "rule"
           /\ IsRecipe(f, i) /\ c.text = Plain({"make", TargetAt(f, i)})
           /\ words \subseteq RecipeText(f, i).words
    BY <2>1
  <2>3. c.evidence[1] = At(g, l)
    BY <1>5, <1>6, FirstEvidence
  <2>4. f \in Range(Inspected(x)) /\ Sequences(f)
    BY FilesInspected DEF ReportOf
  <2>5. f.path = g.path /\ KindOf(g) = "makefile" /\ f.lines[l].is = "rule"
    BY <2>2, <2>3, AtLine
  <2>6. g = f
    BY <1>6, <2>4, <2>5, FilesInspected
  <2>7. KindOf(f) = "makefile" /\ Extract(f) = ExtractMakefile(f)
    BY <2>5, <2>6 DEF Extract
  <2>8. h \in Range(ExtractMakefile(f).commands) /\ FoundOn(f, l, h)
    BY <1>6, <2>6, <2>7
  <2>9. h \in Range(RecipeCommands(f)) \/ h \in Range(MakeCommands(f))
    BY <2>4, <2>7, <2>8, MakefileGives
  <2>10. h \notin Range(RecipeCommands(f))
    <3> SUFFICES ASSUME h \in Range(RecipeCommands(f)) PROVE FALSE
      OBVIOUS
    <3>1. PICK j \in DOMAIN f.lines : IsRecipe(f, j) /\ h = OfRecipe(f, j)
      BY <2>4, RecipesFound
    <3>2. FoundOn(f, j, h)
      BY <3>1, RecipeFound DEF FoundAs
    <3>3. At(f, j) = At(f, l)
      BY <2>8, <3>2, FirstEvidence
    <3>4. j = l
      BY <3>3, AtLine
    <3> QED  BY <2>5, <3>1, <3>4 DEF IsRecipe
  <2>11. PICK s : TargetSeen(f, s) /\ h = MakeCommand(f, s)
    BY <2>4, <2>7, <2>9, <2>10, MakesFound
  <2>12. /\ h.text = Plain({"make", s.name}) /\ s.name \notin {"", "make"}
         /\ ~h.destructive => ~RecipeDeletes(f, s.name)
    BY <2>4, <2>7, <2>11, MakeFound
  <2>13. TargetAt(f, i) = s.name
    <3> DEFINE t == TargetAt(f, i)
               n == s.name
    <3>1. Plain({"make", t}) = Plain({"make", n})
      BY <1>5, <2>2, <2>12
    <3> HIDE DEF t, n
    <3>2. {"make", t} = {"make", n}
      <4>1. Plain({"make", t}).words = {"make", t} /\ Plain({"make", n}).words = {"make", n}
        BY DEF Plain
      <4> QED  BY <3>1, <4>1
    <3>3. n # "make"
      BY <2>12 DEF n
    <3>4. n = t
      BY <3>2, <3>3
    <3> QED  BY <3>4 DEF t, n
  <2>14. IsDestructive(RecipeText(f, i).words)
    <3>1. {"rm", "-rf"} \subseteq RecipeText(f, i).words \/ {"git", "clean"} \subseteq RecipeText(f, i).words
      BY <1>8, <2>2
    <3> QED  BY <3>1 DEF IsDestructive
  <2>15. RecipeDeletes(f, s.name)
    BY <2>2, <2>13, <2>14 DEF RecipeDeletes
  <2> QED  BY <1>3, <1>5, <2>12, <2>15
<1>9. ASSUME c.phase # "run", NEW d \in Found(r), d.phase = "run" PROVE d.destructive
  <2> SUFFICES ASSUME ~d.destructive PROVE FALSE
    OBVIOUS
  <2>1. d \in Viable(r.commands)
    BY <1>9 DEF Viable, Found
  <2>2. 100 * PhasePref[c.phase] + 10 * SourcePref(c) + (IF IsMake(c) THEN 0 ELSE 1)
          <= 100 * PhasePref[d.phase] + 10 * SourcePref(d) + (IF IsMake(d) THEN 0 ELSE 1)
    BY <1>1, <2>1 DEF SelectSmokeTest
  <2>3. c.phase \in Phases \ {"clean", "setup", "run"}
    BY <1>3, <1>7, <1>9
  <2> QED  BY <1>9, <2>2, <2>3, RunsFirst
<1> QED  BY <1>3, <1>7, <1>8, <1>9

LEMMA TargetsMerged ==
    ASSUME NEW T, NEW q \in Seq(T)
    PROVE  /\ \A m \in MergeTargetSource(q) : m.evidence # <<>> /\ m.evidence \in Seq(Range(m.evidence))
           /\ \A m, n \in MergeTargetSource(q) : m.target = n.target => m = n
<1> DEFINE Same(t) == Picked(q, {i \in DOMAIN q : q[i].target = t})
           Entry(t) == [target |-> t, sources |-> UNION {n.sources : n \in Range(Same(t))}, evidence |-> Evidences(Same(t))]
<1>1. MergeTargetSource(q) = {Entry(m.target) : m \in Range(q)}
  BY DEF MergeTargetSource
<1>2. \A t : Entry(t).target = t /\ Entry(t).evidence = Evidences(Same(t))
  OBVIOUS
<1>3. ASSUME NEW m \in Range(q) PROVE Same(m.target) \in Seq(T) /\ Same(m.target) # <<>>
  <2> DEFINE keep == {i \in DOMAIN q : q[i].target = m.target}
             p == Picked(q, keep)
  <2>1. PICK i \in DOMAIN q : q[i] = m
    BY DEF Range
  <2>2. i \in keep /\ \A j \in keep : j \in DOMAIN q
    BY <2>1
  <2>3. p = Same(m.target)
    OBVIOUS
  <2> HIDE DEF keep, p, Same
  <2>4. p \in Seq(T) /\ \A j \in keep : q[j] \in Range(p)
    BY <2>2, PickedEach DEF p
  <2>5. q[i] \in Range(p)
    BY <2>2, <2>4
  <2>6. p # <<>>
    BY <2>5 DEF Range
  <2> QED  BY <2>3, <2>4, <2>6
<1> HIDE DEF Same
<1>4. ASSUME NEW m \in MergeTargetSource(q)
      PROVE  m = Entry(m.target) /\ m.evidence # <<>> /\ m.evidence \in Seq(Range(m.evidence))
  <2>1. PICK n \in Range(q) : m = Entry(n.target)
    BY <1>1
  <2>2. m.target = n.target /\ m.evidence = Evidences(Same(n.target))
    BY <1>2, <2>1
  <2> DEFINE same == Same(n.target)
  <2>3. same \in Seq(T) /\ same # <<>>
    BY <1>3
  <2> HIDE DEF same
  <2>4. Evidences(same) # <<>> /\ Evidences(same) \in Seq(Range(Evidences(same)))
    BY <2>3, EvidenceOf
  <2> HIDE DEF Entry
  <2> QED  BY <2>1, <2>2, <2>4 DEF same
<1> HIDE DEF Entry
<1> QED  BY <1>4

LEMMA WarningForm ==
    ASSUME NEW t, NEW s, NEW a, NEW b
    PROVE  LET u == <<"warning", "missing source", <<t, s>>>> IN
           /\ u[2] = "missing source"
           /\ u = <<"warning", "missing source", <<a, b>>>> => a = t /\ b = s
OBVIOUS

\* What is missing of a target.
NotThere(x, m, s) == {<<"", s>>, <<m.evidence[1].dir, s>>} \cap x.disk = {}

WarningOf(x, m, u) ==
    \E s \in m.sources : NotThere(x, m, s) /\ u = <<"warning", "missing source", <<m.target, s>>>>

LEMMA Warned ==
    ASSUME NEW x, NEW map
    PROVE  /\ \A m \in map : \A s \in m.sources : NotThere(x, m, s) =>
                 <<"warning", "missing source", <<m.target, s>>>> \in UnresolvedSources(x, map)
           /\ \A u \in UnresolvedSources(x, map) : \E m \in map : WarningOf(x, m, u)
<1> DEFINE W(m, s) == <<"warning", "missing source", <<m.target, s>>>>
           Missing(m, s) == {<<"", s>>, <<m.evidence[1].dir, s>>} \cap x.disk = {}
           Of(m) == {W(m, s) : s \in {s \in m.sources : Missing(m, s)}}
           all == UnresolvedSources(x, map)
<1>1. all = UNION {Of(m) : m \in map}
  BY DEF UnresolvedSources
<1>2. \A m, s : Missing(m, s) <=> NotThere(x, m, s)
  BY DEF NotThere
<1> HIDE DEF Missing, W, all
<1>3. ASSUME NEW m \in map, NEW s \in m.sources, NotThere(x, m, s) PROVE W(m, s) \in all
  BY <1>1, <1>2, <1>3
<1>4. ASSUME NEW u \in all
      PROVE  \E m \in map : \E s \in m.sources : NotThere(x, m, s) /\ u = W(m, s)
  BY <1>1, <1>2
<1> QED  BY <1>3, <1>4 DEF W, all, WarningOf

LEMMA MissingIsReported ==
    ASSUME NEW x \in Checkouts, NEW r, ReportOf(x, r)
    PROVE  MissingReported(x, r)
<1> SUFFICES ASSUME NEW m \in r.map, NEW s \in m.sources
             PROVE  LET dirs == {e.dir : e \in Range(m.evidence)}
                        there == <<"", s>> \in x.disk \/ \E d \in dirs : <<d, s>> \in x.disk
                        told == <<"warning", "missing source", <<m.target, s>>>> \in r.issues
                    IN  (~there => told) /\ (there /\ Cardinality(dirs) = 1 => ~told)
  BY DEF MissingReported
<1> DEFINE dirs == {e.dir : e \in Range(m.evidence)}
           u == <<"warning", "missing source", <<m.target, s>>>>
<1>1. r.map = MergeTargetSource(MapList(x))
  BY DEF ReportOf
<1>2. /\ \A k \in r.map : k.evidence # <<>> /\ k.evidence \in Seq(Range(k.evidence))
      /\ \A k, n \in r.map : k.target = n.target => k = n
  <2> DEFINE q == MapList(x)
  <2>1. q \in Seq(Range(q))
    BY MapListed
  <2> HIDE DEF q
  <2>2. /\ \A k \in MergeTargetSource(q) : k.evidence # <<>> /\ k.evidence \in Seq(Range(k.evidence))
        /\ \A k, n \in MergeTargetSource(q) : k.target = n.target => k = n
    BY <2>1, TargetsMerged
  <2> QED  BY <1>1, <2>2 DEF q
<1>3. m.evidence[1] \in Range(m.evidence) /\ m.evidence[1].dir \in dirs
  <2>1. 1 \in DOMAIN m.evidence
    BY <1>2
  <2> QED  BY <2>1 DEF Range
<1>4. IsFiniteSet(dirs)
  <2> DEFINE ev == m.evidence
             D == DOMAIN ev
             at == [i \in D |-> ev[i].dir]
  <2>1. ev \in Seq(Range(ev))
    BY <1>2
  <2>2. D = 1 .. Len(ev) /\ Len(ev) \in Nat
    BY <2>1
  <2>3. dirs = {ev[i].dir : i \in D}
    BY DEF Range
  <2> HIDE DEF D, ev, dirs
  <2>4. IsFiniteSet(D)
    BY <2>2, FS_Interval
  <2>5. at \in Surjection(D, dirs)
    BY <2>3 DEF Surjection
  <2> HIDE DEF at
  <2> QED  BY <2>4, <2>5, FS_Surjection
<1>5. NotThere(x, m, s) => u \in r.issues
  BY Warned DEF ReportOf
<1>6. ASSUME u \in r.issues PROVE NotThere(x, m, s)
  <2>1. u[2] = "missing source"
    OBVIOUS
  <2>2. u \in UnresolvedSources(x, r.map)
    BY <1>6, <2>1 DEF ReportOf
  <2>3. PICK n \in r.map : \E b \in n.sources :
           NotThere(x, n, b) /\ u = <<"warning", "missing source", <<n.target, b>>>>
    <3> DEFINE map == r.map
    <3>1. u \in UnresolvedSources(x, map)
      BY <2>2
    <3> HIDE DEF u, map
    <3>2. \E n \in map : WarningOf(x, n, u)
      BY <3>1, Warned
    <3> QED  BY <3>2 DEF map, WarningOf
  <2>3a. PICK b \in n.sources : NotThere(x, n, b) /\ u = <<"warning", "missing source", <<n.target, b>>>>
    BY <2>3
  <2>4. m.target = n.target /\ s = b
    BY <2>3a
  <2> QED  BY <1>2, <2>3a, <2>4
<1>7. Cardinality(dirs) = 1 => dirs = {m.evidence[1].dir}
  <2> SUFFICES ASSUME Cardinality(dirs) = 1 PROVE dirs = {m.evidence[1].dir}
    OBVIOUS
  <2> HIDE DEF dirs
  <2>1. PICK d : dirs = {d}
    BY <1>4, FS_Singleton
  <2> QED  BY <1>3, <2>1
<1> HIDE DEF u
<1>8. (<<"", s>> \notin x.disk /\ \A d \in dirs : <<d, s>> \notin x.disk) => NotThere(x, m, s)
  BY <1>3 DEF NotThere
<1>9. (<<"", s>> \in x.disk \/ \E d \in dirs : <<d, s>> \in x.disk) /\ Cardinality(dirs) = 1 => ~NotThere(x, m, s)
  BY <1>7 DEF NotThere
<1> HIDE DEF dirs
<1> QED  BY <1>5, <1>6, <1>8, <1>9 DEF dirs, u

\* The report of a checkout is sound.
LEMMA ReportSound ==
    ASSUME NEW x \in Checkouts
    PROVE  LET r == RecoverReport(x) IN
           EvidenceShows(r) /\ NothingDropped(r) /\ SmokeTestSafe(r) /\ GuessesNeeded(x, r) /\ MissingReported(x, r)
BY ReportMerged, EvidenceIsShown, EveryLineKept, SmokeIsSafe, GuessedWhenNeeded, MissingIsReported

\* tb-recover, of every checkout whose paths tell its files apart: what it shows as found has
\* its lines, no line of a recipe or a workflow is lost, the smoke test does not delete, it
\* guesses only where nothing was found, and what is missing is told.
THEOREM RecoverySoundAlways == RecoverySpec => []RecoverySound
<1>1. RecoveryInv => RecoverySound
  <2> SUFFICES ASSUME RecoveryInv, reports # {} PROVE RecoverySound
    BY DEF RecoverySound, Reported
  <2>1. PICK x \in Checkouts : input = x /\ reports \in {{}, {RecoverReport(x)}}
    BY DEF RecoveryInv
  <2>2. reports = {RecoverReport(x)}
    BY <2>1
  <2>3. Report = RecoverReport(x)
    BY <2>2 DEF Report
  <2> QED  BY <2>1, <2>3, ReportSound DEF RecoverySound
<1> QED  BY <1>1, RecoveryInvariant, PTL

=============================================================================
