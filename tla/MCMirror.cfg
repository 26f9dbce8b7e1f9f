SPECIFICATION FairSpec
CONSTANTS
    t1 = t1
    t2 = t2
    k1 = k1
    k2 = k2
    v1 = v1
    v2 = v2
    c1 = c1
    Table = {t1, t2}
    Key = {k1, k2}
    Value = {v1, v2}
    Client = {c1}
    Absent = absent
    Overlap = FALSE
    MaxDataFiles = 1
    MaxDeleteFiles = 2
    MaxVersion = 6
    Budget <- MCBudget
    Unguarded = {}
    AsDocumented = FALSE
CHECK_DEADLOCK FALSE
INVARIANTS
    TypeOK
    NoChangeLost
    OneRowPerKey
    ReadYourWritesUntilRestart
PROPERTIES
    WatermarkGrows
    SealedEventually
