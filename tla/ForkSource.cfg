CONSTANTS
    Ops = {o1, o2}
    Sessions = {s1, s2, s3}
    MaxLive = 2
    Calls = {"open", "fork"}
    MaxPrompted = 0
    NoOp = NoOp
    NoSession = NoSession
SPECIFICATION Spec
SYMMETRY Symmetry
INVARIANTS
    SourceKept
