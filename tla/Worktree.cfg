\* Two contending runs, every fault that leaves no orphan.
CONSTANTS
    Runs = {r1, r2}
    tracked = tracked
    ignored = ignored
    b1 = b1
    b2 = b2
    Absent = Absent
    None = None
    Paths <- MCPaths
    Ignored <- MCIgnored
    Blobs <- MCBlobs
    CodeTrees <- MCCodeTrees
    ExtraTrees <- MCExtraTrees
    MaxPushes = 3
    MaxEdits = 1
    Faults = {"fail", "term", "kill", "index", "forget"}
SPECIFICATION Spec
SYMMETRY Symmetry
CHECK_DEADLOCK FALSE
INVARIANTS
    TypeOK
    MutualExclusion
    CheckoutMatchesTree
    DroppedFilesRemovedUnlessFaulted
    UnchangedMeansNoWork
    RunShowsServerStates
