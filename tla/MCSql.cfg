CONSTANTS
    Conn = {s1, s2}
    NoConn = NoConn
    Null = 0
    QuietDDL = TRUE
    AlteredScanned = FALSE
    MaxRequests = 3
    MaxCrashes = 1
    Request <- MCRequest
    Setup <- MCSetup
    N = 2
    FF = 3
    c1 = c1
    c2 = c2
    sweeper = sweeper
    Client = {c1, c2, sweeper}
    Sweeper = sweeper
    Id = {1, 2, 3}
    DocRequest <- MCDocRequest
    InitialDocs <- MCInitialDocs
    FindFilter <- MCFindFilter
    TextOrder <- MCTextOrder
    UNFILTERED_SCAN_CAP = 1
    Trusted = {}
    MaxDocRequests = 3
    MaxDocFaults = 1
    MaxClock = 1
    Disputed = {}
    Pk = {1, 2}
    ColumnName = {"a", "b", "c"}
    AtAnyTime = FALSE
    WithDefault = FALSE
    MaxAlters = 3
    MaxWrites = 2
SYMMETRY Connections
SPECIFICATION MCSpec
INVARIANTS IndexExact SettledExact NoWaitCycle RewriteKeepsAnswer
PROPERTIES NoNewDuplicate RefinesSnapshotTable
CHECK_DEADLOCK FALSE
