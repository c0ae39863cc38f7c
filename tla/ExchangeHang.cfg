\* The client waits for a git that waits for the pump that has stopped.
CONSTANTS
    Capacity = 1
    AdvUnits = 3
    PackUnits = 4
    Notes = 2
    None = None
SPECIFICATION FairSpec
CHECK_DEADLOCK FALSE
PROPERTY
    PushReturns
