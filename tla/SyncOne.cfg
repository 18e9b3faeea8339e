CONSTANTS
    MaxEpoch = 1
    MaxRev = 2
    Ids = {1, 2, 3, 4}
    Faults = {"drop", "timeout", "disconnect", "reject"}
    NoCmd = NoCmd
    NoProj = NoProj
SPECIFICATION SyncFairSpec
INVARIANTS
    ProjectionFaithful
PROPERTIES
    NeverBackwards
    GapsHealed
