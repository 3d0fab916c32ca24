SPECIFICATION FairSpec
CONSTANTS
    r1 = r1
    r2 = r2
    t1 = t1
    t2 = t2
    Runs <- OneRun
    Targets <- TwoTargets
    TTL = 1
    MaxRetries = 1
    MaxFaults = 1
    MaxBodies = 3
    NoRun = NoRun
INVARIANTS
    EveryTargetSpawned
PROPERTIES
    EnqueuedRunsEnd
    LockEventuallyFree
CHECK_DEADLOCK FALSE
