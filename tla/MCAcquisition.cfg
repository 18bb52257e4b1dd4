SPECIFICATION Spec
CONSTANTS
    Hashes = {1, 2}
    Reasons = {"History"}
    Outcomes = {"idle", "reads", "incremental", "laneWrite", "final"}
    Residents = {FALSE}
    StartModes = {"Full"}
    MaxSessions = 2
    MaxScanOwners = 1
    MaxBurst = 1
    MaxTimeouts = 1
    MaxMinted = 2
    Inputs = {"acquire", "consensus", "transport", "store", "sweep", "shutdown"}
    MaxInputs = 4
CHECK_DEADLOCK FALSE
INVARIANTS
    PermitsAreUsed
    EverySessionIsAwaited
PROPERTIES
    SessionsMoveForward
