SPECIFICATION Spec
CONSTANTS
    r1 = r1
    r2 = r2
    s1 = s1
    k1 = k1
    k2 = k2
    Requests <- TwoRequests
    Schedules <- OneSchedule
    Keys <- TwoKeys
    MaxTroubles = 1
    Processes = 2
    MaxDeletions = 1
    AdHoc = AdHoc
    None = None
SYMMETRY Symmetry
INVARIANTS
    OneLiveRunPerKey
    NoPhantomSync
    AnswerIsOwn
    KeyIsLastRun
    WorkIsListed
    PollResolves
CHECK_DEADLOCK FALSE
