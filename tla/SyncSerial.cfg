\* One stream, three syncs one after the other, each free to fail anywhere.
CONSTANTS
    Syncs = {p1, p2, p3}
    Streams = {s1}
    Commits = {k1, k2, k3, k4, k5, k6}
    None = None
    MaxEdits = 1
    Serialised = TRUE
SPECIFICATION Spec
ACTION_CONSTRAINT StartInOrder
CHECK_DEADLOCK FALSE
INVARIANTS
    TypeOK
    ExtraParentsReceived
    AckedTipIsServerTip
    RetainedExtraIsServerAncestor
    CodeBeforeExtra
PROPERTIES
    StateSpec
