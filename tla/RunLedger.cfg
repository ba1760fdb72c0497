SPECIFICATION Spec
CONSTANTS
    Procs = {p1, p2}
    SuiteIds <- Ids
    Policies <- OnePolicy
    Benchmarks <- MCBenchmarks
    Designs <- MCDesigns
    Suites <- BothKinds
    Configs <- MCConfigs
    Catalogs <- TwoCatalogs
    Choose <- MCChoose
    Outcome <- MCOutcome
    Holds <- MCHolds
    KeepArtifacts = {TRUE}
    Externals <- TwoExternals
    AllowCrash = TRUE
    AllowUpgrade = TRUE
    MaxCommands = 4
SYMMETRY ProcSymmetry
INVARIANTS
    VerdictIsTrue
    LedgerHolds
PROPERTIES
    RowsReproducible
CHECK_DEADLOCK FALSE
