SPECIFICATION AgentsSpec
CONSTANTS
    N = 3
    Designs <- MCDesigns
    NodeKinds <- MCNodeKinds
    Modules <- MCModules
    PropertySpecs <- MCPropertySpecs
    Importers = {p1, p2}
    Files <- MCFiles
    Artifact <- MCArtifact
    MaxChanges = 1
    Manifests <- MCManifests
    MaxRuns = 2
    NoCoverage = NoCoverage
    Measured <- MCMeasured
    Target <- MCTarget
    SkipChoices <- MCSkipChoices
    MaxIters = {0, 1, 3}
    MaxMutants = 4
    Vplan = {p1, p2}
    Specs <- MCSpecs
    DecisionFiles <- MCDecisionFiles
    MaxApprovals = 2
    NoFile = NoFile
    TornFile = TornFile
INVARIANT StopsWhenMet
CHECK_DEADLOCK FALSE
