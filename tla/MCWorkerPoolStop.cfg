SPECIFICATION Spec
CONSTANTS
    Threads = {t1, t2}
    Sizes = {2}
    MaxTasks = 1
    MaxCalls = 2
CHECK_DEADLOCK FALSE
INVARIANT NoCallbackAfterStop
