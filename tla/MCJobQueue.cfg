CONSTANTS
    Workers = {w1, w2}
    Callers = {c1}
    Types <- MCTypes
    Limit <- MCLimit
    MaxJobs = 3
SPECIFICATION FairSpec
INVARIANTS
    CountersExact
    NoJobLost
    StoppedIsDrained
PROPERTIES
    EveryJobRuns
    StopReturns
