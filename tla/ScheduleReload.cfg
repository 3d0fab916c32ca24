SPECIFICATION ReloadSpec
CONSTANTS
    s1 = s1
    s2 = s2
    h1 = h1
    h2 = h2
    h3 = h3
    Schedules <- TwoSchedules
    Handlers <- ThreeHandlers
    MaxChanges = 3
    NoJob = NoJob
SYMMETRY Symmetry
INVARIANTS
    NoneMissing
PROPERTIES
    LoneReloadExact
CHECK_DEADLOCK FALSE
