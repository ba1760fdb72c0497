SPECIFICATION ToolsSpec
CONSTANTS
    ScoutDesigns <- MCScoutDesigns
    ScoutResets = {"rst"}
    CrossingModules <- MCCrossingModules
    ResetModules <- MCResetModules
    ClockNames = {"clk"}
    ResetNames = {"rst_n", "por"}
    ActiveLowNames = {"rst_n"}
    Times <- MCTimes
    Sizes <- MCSizes
    Codes <- MCCodes
    Benchmarks <- MCBenchmarks
    Groups <- MCGroups
    GroupOf <- MCGroupOf
    Bucket <- MCBucket
    Threshold = 40
    Features <- MCFeatures
    Ledgers <- MCLedgers
    CoverageBundles <- MCBundles
    FirstId <- MCFirstId
    Counterexamples <- MCCounterexamples
    EquivalenceRuns <- MCEquivalenceRuns
    Datasets <- MCDatasets
    HigherIsBetter = {"throughput"}
    HygieneInputs <- MCHygieneInputs
    RegisterInputs <- MCRegisterInputs
    Normalized <- MCNormalized
    OccursIn <- MCOccursIn
    ReviewInputs <- MCReviewInputs
    GenericNames = {"p1"}
    SemanticNames = {"req_ack"}
    ResetLike = {"rst"}
    ContractRequests <- MCContractRequests
    LowNames = {"rst_n"}
    StopNames <- MCStopNames
    IntentInputs <- MCIntentInputs
    NamesById <- MCNamesById
    SameButForCase <- MCSameButForCase
    Unrenderable = {"recover"}
    SecurityInputs <- MCSecurityInputs
    KeywordsIn <- MCKeywordsIn
    AliasPairs <- MCAliasPairs
    Checkouts <- MCCheckouts
    HdlNames <- MCHdlNames
    FilelistNames <- MCFilelistNames
    OddTargets <- MCOddTargets
    RtlFiles <- MCRtlFiles
    Numerals <- MCNumerals
    ClockHints <- MCClockHints
    ResetHints <- MCResetHints
    LowHints <- MCLowHints
INVARIANTS
    SynchronizersReal
    ResetIntentSound
    NeverFalsePass
    RewardRanks
    FindingsStable
    CoverageHolesSound
    CounterexampleSound
    EquivalenceSound
    PerformanceSound
    HygieneSound
    RegistersSound
    ReviewSound
    ContractSound
    IntentSound
    SecuritySound
    
    ManifestSound
    DependenciesKept
PROPERTIES
    SplitSound
CHECK_DEADLOCK FALSE
