CONSTANTS
    Ids = {i1, i2, i3}
    MaxActive = 2
    MaxOutput = 1
    MaxTasks = 1
    QueueFits = 1
    NoOp = NoOp
SPECIFICATION Spec
SYMMETRY Symmetry
INVARIANTS
    PeersAgree
    CleanupMeetsNoOther
    NoLostUpdate
CHECK_DEADLOCK FALSE
