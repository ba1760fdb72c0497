SPECIFICATION Spec
CONSTANTS
    Procs = {p1}
    SuiteIds <- OneId
    Policies <- OnePolicy
    Benchmarks <- MCBenchmarks
    Designs <- MCDesigns
    Suites <- OneSuite
    Configs <- MCConfigs
    Catalogs <- OneCatalog
    Choose <- MCChoose
    Outcome <- MCOutcome
    Holds <- MCHolds
    KeepArtifacts = {TRUE}
    Externals <- PassOfTheFailed
    AllowCrash = FALSE
    AllowUpgrade = FALSE
    MaxCommands = 4
PROPERTIES
    NeverUpgraded
CHECK_DEADLOCK FALSE
