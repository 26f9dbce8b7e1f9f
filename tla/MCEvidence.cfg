SPECIFICATION Spec
CONSTANTS
    Chain = {"c1", "c2"}
    PlainChain = {"c2"}
    Client = {u1, u2}
    Node = {1, 2, 3}
    MinWeight <- MCMinWeight
    MAX_PAGE = 2
    MaxWeight = 9
    NoKey = "none"
    Appends <- MCAppends
    GraphCalls <- MCGraphCalls
    TrustUnflushed = FALSE
    Transfer = {1, 2}
    Mixed = FALSE
    MaxAppends = 3
    MaxApplies = 4
    MaxCalls = 1
    MaxFaults = 1
SYMMETRY Clients
CHECK_DEADLOCK FALSE
INVARIANTS ChainReadsExact AcknowledgedKept GraphExact TraversalsExact
