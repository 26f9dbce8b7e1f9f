SPECIFICATION MCSpec
CONSTANTS
    Pk = {1, 2}
    a = a
    b = b
    Text = {a, b}
    QueryTerm = {a}
    Null = Null
    Absent = Absent
    Commits <- MCCommits
    Writer = {w1, w2}
    Searcher = {x1}
    Threads = 3
    Careful = TRUE
    Excused <- Disputes
    UnionLimit = 2
    MaxSplits = 2
    MinSplits = 2
    MaxDeadPercent = 30
    MaxCommits = 2
    MaxSearches = 1
    MaxCreates = 1
    MaxFaults = 1
    MaxReadFaults = 0
CHECK_DEADLOCK FALSE
INVARIANTS ManifestNamesSplits SealedVersionsShown  SteadyRowsExact
 
