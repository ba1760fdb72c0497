SPECIFICATION Spec
CONSTANTS
    Runs = {r1, r2}
    Results = {"TIMEOUT"}
    MaxPropertyRetries = 0
    Arguments <- TwoArguments
    Proposals <- UnreviewedProposals
SYMMETRY RunSymmetry
INVARIANTS
    PacketTrue
    AuditChained
CHECK_DEADLOCK FALSE
