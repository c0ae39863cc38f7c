\* Two overlapping syncs of one stream and a third one after them.
CONSTANTS
    Syncs = {p1, p2, p3}
    Streams = {s1}
    Commits = {k1, k2, k3, k4, k5, k6}
    None = None
    MaxEdits = 0
    Serialised = FALSE
SPECIFICATION Spec
SYMMETRY Symmetry
CHECK_DEADLOCK FALSE
INVARIANTS
    ExtraParentsReceived
