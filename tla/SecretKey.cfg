SPECIFICATION Spec
CONSTANTS
    s1 = s1
    s2 = s2
    p1 = p1
    p2 = p2
    k1 = k1
    k2 = k2
    MaxRequests = 3
    MaxBusy = 2
    Secrets <- TwoSecrets
    Values <- TwoValues
    Bodies <- ThreeBodies
    NewKeys <- TwoKeys
    EnvKey = EnvKey
    None = None
    MaxTroubles = 1
INVARIANTS
    SavedReadable
PROPERTIES
    LonePutExact
    ListenerStarts
CHECK_DEADLOCK FALSE
