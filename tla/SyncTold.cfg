CONSTANTS
    MaxEpoch = 2
    MaxRev = 1
    Ids = {1, 2, 3}
    Faults = {"close"}
    NoCmd = NoCmd
    NoProj = NoProj
SPECIFICATION SyncFairSpec
PROPERTIES
    SubscribersTold
CHECK_DEADLOCK FALSE
