SPECIFICATION Spec
CONSTANTS
    r1 = r1
    r2 = r2
    a = a
    b = b
    Requests <- TwoRequests
    Names <- OneName
    Releases <- TwoReleases
    None = None
    MaxChanges = 4
    MaxStarts = 2
SYMMETRY Symmetry
INVARIANTS
    DefaultsCurrent
    ReorderHolds
    OrderIsClear
CHECK_DEADLOCK FALSE
