SPECIFICATION Spec
CONSTANTS
    Runs = {r1}
    Results = {"PASS"}
    MaxPropertyRetries = 0
    Arguments <- ArgumentSpace
    Proposals <- CandidateSpace
INVARIANTS
    RejectionStands
CHECK_DEADLOCK FALSE
