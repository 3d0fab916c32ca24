SPECIFICATION Spec
CONSTANTS
    a = a
    b = b
    c = c
    Items <- ThreeItems
    Wanted <- SomeWanted
    Backends <- Both
    MaxAttempts = 3
    MaxTroubles = 2
INVARIANTS
    StraysBounded
PROPERTIES
    CleanSyncExact
    UpdateLosesNothing
CHECK_DEADLOCK FALSE
