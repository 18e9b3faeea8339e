CONSTANTS
    MaxEpoch = 2
    MaxRev = 2
    Ids = {1, 2, 3, 4}
    Faults = {"close"}
    NoCmd = NoCmd
    NoProj = NoProj
SPECIFICATION SyncSpec
INVARIANTS
    ProjectionFaithful
CHECK_DEADLOCK FALSE
