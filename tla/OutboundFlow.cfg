CONSTANTS
    Keys = {tool, history}
    NoKey = NoKey
    Sizes = {1, 2}
    HighWater = 2
    MaxQueue = 3
    Patience = 1
    MaxOffered = 4
SPECIFICATION FairSpec
INVARIANTS
    MemoryBounded
    RetainedIsPolled
PROPERTIES
    ImplementsChannel
    QueueDrains
CHECK_DEADLOCK FALSE
