SPECIFICATION FairSpec
CONSTANTS
    n1 = n1
    Node = {n1}
    Operated = {n1}
    NoNode = none
    Ttl = 2
    SafetyMargin = 0
    MaxDelay = 1
    MaxEpoch = 2
INVARIANTS
    PermitHeldByPromotion
PROPERTIES
    UnboundLeaseGivenUp
