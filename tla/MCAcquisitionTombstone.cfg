SPECIFICATION Spec
CONSTANTS
    Hashes = {1}
    Reasons = {"Generic"}
    Outcomes = {"idle", "invalid"}
    Residents = {FALSE, TRUE}
    StartModes = {"Connected"}
    MaxSessions = 1
    MaxScanOwners = 1
    MaxBurst = 1
    MaxTimeouts = 1
    MaxMinted = 2
    Inputs = {"acquire", "peers"}
    MaxInputs = 2
CHECK_DEADLOCK FALSE
INVARIANT TombstonesExpire
