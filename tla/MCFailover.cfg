SPECIFICATION Spec
CONSTANTS
    n1 = n1
    n2 = n2
    Node = {n1, n2}
    Operated = {}
    NoNode = none
    Ttl = 3
    SafetyMargin = 1
    MaxDelay = 1
    MaxEpoch = 2
SYMMETRY NodeSymmetry
INVARIANTS
    TypeOK
    EpochNamesOneNode
    ActiveHoldsLease
    WriterBoundToWriter
PROPERTIES
    TokenAdvances
