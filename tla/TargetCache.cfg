SPECIFICATION CacheSpec
CONSTANTS
    r1 = r1
    r2 = r2
    Requests <- TwoRequests
    l1 = l1
    l2 = l2
    l3 = l3
    Looks <- ThreeLooks
    None = None
    MaxChanges = 2
    MaxRotations = 1
    MaxMishaps = 2
SYMMETRY Symmetry
INVARIANTS
    WorkerFresh
    ApiFresh
CHECK_DEADLOCK FALSE
