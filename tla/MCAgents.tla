-------------------------------- MODULE MCAgents --------------------------------
(***************************************************************************)
(* The programs that go through many steps, for TLC: the closure pipeline  *)
(* of spec-to-cov-agent, the mutation scoring of assertion-mutation-agent, *)
(* the plan approval of verification-plan-agent, the scaffold of the       *)
(* factory, the cone of formal-flow-scout and the knowledge graph.  They   *)
(* share nothing: a behaviour is one of one of them, and the variables of  *)
(* the others keep a fixed value.                                          *)
(***************************************************************************)
EXTENDS ClosurePipeline, MutationScoring, PlanApproval, Scaffold, MCGraphs

VARIABLE part

agentsVars == <<part, closureVars, mutationVars, planVars, scaffoldVars, coneVars, graphVars>>

Cov(l, t, b, g) == [line |-> l, toggle |-> t, branch |-> b, gaps |-> g]

\* Nothing measured; below the target by much and by a third of a percent, with
\* something to cover; one metric alone, above the target.
MCMeasured == {Cov(0, 0, 0, FALSE), Cov(60, 50, 0, TRUE), Cov(89, 90, 90, TRUE),
               Cov(0, 95, 0, TRUE)}
MCTarget == 900
MCSkipChoices == {{}, {13}, {16}, {2, 12}}

Decide(id, d) == [item_id |-> id, decision |-> d]

\* A requirement with an assertion and none for coverage, and the reverse.
MCSpecs == {<<"reset", "performance">>}

\* Two reviewers who disagree on one feature, one of them also about an item that
\* is not there; one who defers the feature and says yes and then no to a test.
MCDecisionFiles ==
    LET feature == <<"FEAT", 1, 1>>
        scenario == <<"SCN", 2, 2>>
    IN  {<<Decide(feature, "approved")>>,
         <<Decide(feature, "rejected"), Decide(<<"COV", 1, 1>>, "approved")>>,
         <<Decide(feature, "proposed"),
           Decide(scenario, "approved"), Decide(scenario, "rejected")>>}

\* Two agents of either layout, and one whose manifest is refused.
MCManifest(name, category, roles) ==
    [agent_id |-> [name |-> name, kebab |-> TRUE], version |-> "semantic",
     category |-> category, claim_policy |-> "explicit", credentials |-> FALSE,
     release |-> "public", roles |-> roles]
MCManifests ==
    {MCManifest("a", "sva_generation", {}), MCManifest("b", "rtl_analysis", {}),
     MCManifest("c", "rtl_analysis", {[deterministic_check |-> "blank"]})}

ClosureSleeps  == driver = "pipeline" /\ skip = {} /\ maxIter = 1
MutationSleeps == ~available /\ ~suite /\ ~sound

AgentsInit ==
    /\ part \in {"closure", "mutation", "plan", "scaffold", "cone", "graph"}
    /\ ClosureInit /\ (part # "closure" => ClosureSleeps)
    /\ MutationInit /\ (part # "mutation" => MutationSleeps)
    /\ ConeInit /\ (part # "cone" => ConeSleeps)
    /\ PlanInit /\ ScaffoldInit /\ GraphInit

ClosureMoves ==
    /\ part = "closure" /\ ClosureNext
    /\ UNCHANGED <<part, mutationVars, planVars, scaffoldVars, coneVars, graphVars>>

AgentsNext ==
    \/ ClosureMoves
    \/ /\ part = "mutation" /\ MutationNext
       /\ UNCHANGED <<part, closureVars, planVars, scaffoldVars, coneVars, graphVars>>
    \/ /\ part = "plan" /\ PlanNext
       /\ UNCHANGED <<part, closureVars, mutationVars, scaffoldVars, coneVars, graphVars>>
    \/ /\ part = "scaffold" /\ ScaffoldNext
       /\ UNCHANGED <<part, closureVars, mutationVars, planVars, coneVars, graphVars>>
    \/ /\ part = "cone" /\ ConeNext
       /\ UNCHANGED <<part, closureVars, mutationVars, planVars, scaffoldVars, graphVars>>
    \/ /\ part = "graph" /\ GraphNext
       /\ UNCHANGED <<part, closureVars, mutationVars, planVars, scaffoldVars, coneVars>>

AgentsSpec ==
    /\ AgentsInit /\ [][AgentsNext]_agentsVars
    /\ WF_agentsVars(ClosureMoves)

\* The nested loops of the closure pipeline end.
PipelineEnds == part = "closure" => ClosureEnds

=============================================================================
