CONSTANTS
    MaxWorkers = 3
    Managed = TRUE
SPECIFICATION FairSpec
INVARIANTS
    OneNamespace
    TeardownOwnsNothing
PROPERTIES
    RunsSettle
CHECK_DEADLOCK FALSE
