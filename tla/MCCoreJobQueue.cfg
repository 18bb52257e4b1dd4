SPECIFICATION FairSpec
CONSTANTS
    Types = {1, 2, 3}
    Limit <- Narrow
    Workers = {w1, w2}
    Callers = {c1, c2}
    MaxJobs = 3
    MaxPanics = 1
CHECK_DEADLOCK FALSE
INVARIANTS
    JobsAreAccounted
    JoinedIsDrained
PROPERTIES
    OnlyOrphansAreLost
    StopReturns
