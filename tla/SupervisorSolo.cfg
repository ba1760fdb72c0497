SPECIFICATION FairSpec
CONSTANTS
    Runs = {r1}
    Results = {"PASS", "FAIL", "TIMEOUT", "ERROR", "UNKNOWN"}
    MaxPropertyRetries = 2
    Arguments <- ArgumentSpace
    Proposals <- CandidateSpace
INVARIANTS
    TypeOK
    ExecutionCleared
    AuditJustifiesExecution
PROPERTIES
    ImplementsTable
    RunEnds
CHECK_DEADLOCK FALSE
