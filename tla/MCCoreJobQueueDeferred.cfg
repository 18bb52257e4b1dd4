SPECIFICATION FairSpec
CONSTANTS
    Types = {1, 2}
    Limit <- Narrow
    Workers = {w1, w2}
    Callers = {c1}
    MaxJobs = 2
    MaxPanics = 0
CHECK_DEADLOCK FALSE
PROPERTY EveryJobRuns
