SPECIFICATION SearchFairSpec
CONSTANTS
    w1 = w1
    p1 = p1
    p2 = p2
    s1 = s1
    s2 = s2
    Null = Null
    WorkspaceIds = {w1}
    Revisions = {1, 2}
    Paths = {p1, p2}
    Spaces = {1, 2}
    MaxEvents = 2
    Holds <- MCHolds
    Layout <- MCLayout
INVARIANTS
    Whole
    PagesWhole
PROPERTIES
    Converges
CHECK_DEADLOCK FALSE
