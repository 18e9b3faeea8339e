CONSTANTS
    Jobs = {j1}
    Runs = {r1, r2}
    Interval = 2
    MaxTimer = 1
    MaxTime = 3
    MaxManual = 1
    Never = Never
    NoJob = NoJob
SPECIFICATION FairSpec
INVARIANTS
    RunningIsExecuted
    NoOverlap
    OccurrenceOnce
PROPERTIES
    DueIsClaimed
    ExecutionsEnd
