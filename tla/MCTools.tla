-------------------------------- MODULE MCTools --------------------------------
(***************************************************************************)
(* The tools that read their input and answer, for TLC.  They share        *)
(* nothing: a behaviour is one call of one of them, and the variables of   *)
(* the others keep a fixed value.                                          *)
(***************************************************************************)
EXTENDS MCDesigns, MCResults, MCProperties, MCRepositories

VARIABLE part

toolsVars == <<part, judgementVars, holdoutVars, passVars>>

PassInit ==
    \/ CrossingsInit
    \/ ResetIntentInit
    \/ RegressionInit
    \/ CoverageInit
    \/ CounterexampleInit
    \/ EquivalenceInit
    \/ PerformanceInit
    \/ HygieneInit
    \/ RegisterInit
    \/ ReviewInit
    \/ ContractInit
    \/ IntentInit
    \/ SecurityInit
    \/ RecoveryInit
    \/ IngestInit
    \/ ScoutInit

PassNext ==
    \/ Triage
    \/ AnalyzeResets
    \/ AnalyzeLedger
    \/ TriageCoverage
    \/ TriageCounterexample
    \/ TriageEquivalence
    \/ Analyze
    \/ AnalyzeConstraints
    \/ BuildPackage
    \/ ReviewText
    \/ MakeContract
    \/ GenerateIntents
    \/ ReviewSecurity
    \/ Recover
    \/ Ingest
    \/ Scout

PassSleeps == tool = "none" /\ input = "none" /\ reports = {}

ToolsInit ==
    /\ part \in {"judgement", "holdout", "pass"}
    /\ JudgementInit /\ (part # "judgement" => JudgementSleeps)
    /\ HoldoutInit /\ (part # "holdout" => HoldoutSleeps)
    /\ IF part = "pass" THEN PassInit ELSE PassSleeps

ToolsNext ==
    \/ /\ part = "judgement" /\ JudgementNext
       /\ UNCHANGED <<part, holdoutVars, passVars>>
    \/ /\ part = "holdout" /\ HoldoutNext
       /\ UNCHANGED <<part, judgementVars, passVars>>
    \/ /\ part = "pass" /\ PassNext
       /\ UNCHANGED <<part, judgementVars, holdoutVars>>

ToolsSpec == ToolsInit /\ [][ToolsNext]_toolsVars

=============================================================================
