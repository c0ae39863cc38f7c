\* A run is killed, its git step is not, and another run follows.
CONSTANTS
    Runs = {r1, r2}
    tracked = tracked
    ignored = ignored
    b1 = b1
    b2 = b2
    Absent = Absent
    None = None
    Paths <- MCPaths
    Ignored <- MCIgnored
    Blobs <- MCBlobs
    CodeTrees <- MCCodeTrees
    ExtraTrees <- MCExtraTrees
    MaxPushes = 2
    MaxEdits = 1
    Faults = {"orphan"}
SPECIFICATION Spec
CHECK_DEADLOCK FALSE
INVARIANT
    CheckoutMatchesTree
