SPECIFICATION Spec
CONSTANTS
    Hashes = {1, 2}
    Reasons = {"History"}
    Outcomes = {"idle", "final"}
    Residents = {FALSE, TRUE}
    StartModes = {"Connected", "Full"}
    MaxSessions = 1
    MaxScanOwners = 1
    MaxBurst = 1
    MaxTimeouts = 0
    MaxMinted = 2
    Inputs = {"acquire", "consensus", "divergence", "validation", "peers", "transport", "ledger"}
    MaxInputs = 5
CHECK_DEADLOCK FALSE
INVARIANTS
    OneSessionPerHash
    LatchesAreLive
    DemandIsTakenUp
PROPERTIES
    AnchorIsStable
