\* One push over one-chunk buffers: sound, lossy or with a client that stops.
CONSTANTS
    Capacity = 1
    AdvUnits = 3
    PackUnits = 4
    Notes = 2
    None = None
SPECIFICATION FairSpec
CHECK_DEADLOCK FALSE
INVARIANTS
    TypeOK
    SuccessMeansApplied
    FailureMeansUntouched
    QuietMeansUntouched
PROPERTIES
    HandlerEnds
    PushReturnsUnlessUnread
