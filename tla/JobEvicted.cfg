CONSTANTS
    Ops = {o1, o2}
    Sessions = {s1, s2}
    MaxLive = 1
    Calls = {"job"}
    MaxPrompted = 1
    NoOp = NoOp
    NoSession = NoSession
SPECIFICATION Spec
SYMMETRY Symmetry
INVARIANTS
    JobRunsNotEvicted
