CONSTANTS
    MaxWorkers = 2
    Managed = FALSE
SPECIFICATION Spec
INVARIANTS
    NoCircularWait
CHECK_DEADLOCK FALSE
