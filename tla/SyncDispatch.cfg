SPECIFICATION Spec
CONSTANTS
    r1 = r1
    r2 = r2
    t1 = t1
    t2 = t2
    Runs <- TwoRuns
    Targets <- TwoTargets
    TTL = 2
    MaxRetries = 1
    MaxFaults = 0
    MaxBodies = 2
    NoRun = NoRun
SYMMETRY Symmetry
INVARIANTS
    OneRunAtATime
    LockIsTheRun
PROPERTIES
    ImplementsSerialRuns
CHECK_DEADLOCK FALSE
