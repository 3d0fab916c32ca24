SPECIFICATION Spec
CONSTANTS
    r1 = r1
    r2 = r2
    Requests <- TwoRequests
    None = None
    TTL = 1
    MaxTime = 1
    MaxChanges = 2
    MaxPayloads = 2
    MaxTroubles = 1
INVARIANTS
    OneThread
    FeedNotOlder
    AuthFresh
PROPERTIES
    CallsEnd
CHECK_DEADLOCK FALSE
