SPECIFICATION FairSpec
CONSTANTS
    Hooks = {h1}
    Sockets = {s1, s2}
    Commands <- MCCommands
    MaxOutput = 1
    MaxEvents = 3
    GraceIsLong = TRUE
    None = None
INVARIANTS
    HooksReaped
    NoLateQuery
    RefreshOwed
PROPERTIES
    ShutdownEnds
