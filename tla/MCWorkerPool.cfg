SPECIFICATION FairSpec
CONSTANTS
    Threads = {t1, t2, t3}
    Sizes = {0, 1, 3}
    MaxTasks = 2
    MaxCalls = 4
CHECK_DEADLOCK FALSE
INVARIANTS
    PoolBalance
PROPERTIES
    StopReturns
    EveryTaskRuns
