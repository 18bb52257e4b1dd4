\* The server may refuse to start, or have stopped: no deadlock check.
SPECIFICATION MCSpec
CONSTANTS
    x = x
    Other = c
    Worker = k
    None = None
    Objects = {x}
    Threads = {k, c}
    MaxName = 3
    Backends <- Kinds
    StateMap <- Ledgers
    DeleteInterval = 1
    Policies <- Both
    BatchSize = 1
INVARIANTS
    Recoverable
    RendezvousIsIdle
PROPERTIES
    FetchIsSound
    ImplementsGenerations
    PolicyHonoured
    MaintenanceGoesOn
CHECK_DEADLOCK FALSE
