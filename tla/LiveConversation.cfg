SPECIFICATION LiveSpec
CONSTANTS
    Calls = {c1, c2}
    MaxEntries = 5
    MaxParts = 2
    MaxDeltas = 1
    MaxReads = 2
    None = None
SYMMETRY Symmetry
INVARIANTS
    EntriesInOrder
    ViewsAgree
CHECK_DEADLOCK FALSE
