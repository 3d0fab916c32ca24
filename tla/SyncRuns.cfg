SPECIFICATION Spec
CONSTANTS
    t1 = t1
    t2 = t2
    x = x
    y = y
    a = a
    b = b
    Tasks <- TwoTasks
    Execs <- TwoExecs
    Items <- TwoItems
    Sources <- SomeSources
    MaxRetries = 1
    MaxTroubles = 1
    Refusal = Refusal
    Elsewhere = Elsewhere
    NoLink = NoLink
    NoPhase = NoPhase
SYMMETRY Symmetry
INVARIANTS
    RunsSettle
    SnapshotsFit
    LinksMatchTracks
    PublishedIsRecorded
    
CHECK_DEADLOCK FALSE
