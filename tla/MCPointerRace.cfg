SPECIFICATION Spec
CONSTANTS
    t1 = t1
    t2 = t2
    k1 = k1
    k2 = k2
    v1 = v1
    v2 = v2
    c1 = c1
    Table = {t1, t2}
    Key = {k1, k2}
    Value = {v1, v2}
    Client = {c1}
    Absent = absent
    Overlap = TRUE
    MaxDataFiles = 1
    MaxDeleteFiles = 2
    MaxVersion = 4
    Budget <- MCSteady
    Unguarded = {}
    AsDocumented = FALSE
CHECK_DEADLOCK FALSE
INVARIANT NoChangeLost
