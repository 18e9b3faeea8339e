CONSTANTS
    MaxEpoch = 1
    MaxRev = 2
    Ids = {1, 2, 3, 4}
    Faults = {}
    NoCmd = NoCmd
    NoProj = NoProj
SPECIFICATION SyncSpec
INVARIANTS
    GapsAskedFor
CHECK_DEADLOCK FALSE
