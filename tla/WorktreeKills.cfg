\* Two contending runs that fail and are killed in every way, alone or with
\* their git step.
CONSTANTS
    Runs = {r1, r2}
    tracked = tracked
    ignored = ignored
    b1 = b1
    b2 = b2
    Absent = Absent
    None = None
    Paths <- MCPaths
    Ignored <- MCIgnored
    Blobs <- MCBlobs
    CodeTrees <- MCCodeTrees
    ExtraTrees <- MCExtraTrees
    MaxPushes = 2
    MaxEdits = 0
    Faults = {"fail", "term", "kill", "orphan"}
SPECIFICATION FairSpec
CHECK_DEADLOCK FALSE
INVARIANT
    OneReadTree
PROPERTY
    RunEnds
