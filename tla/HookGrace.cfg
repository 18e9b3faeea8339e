SPECIFICATION Spec
CONSTANTS
    Hooks = {h1}
    Sockets = {s1}
    Commands <- MCCommands
    MaxOutput = 1
    MaxEvents = 0
    GraceIsLong = FALSE
    None = None
INVARIANTS
    Escalated
