\* Three syncs of four streams against one forget-stream or reap.
CONSTANTS
    Streams <- MCStreams
    Chars <- MCChars
    Slash <- MCSlash
    Code <- MCCode
    Extra <- MCExtra
    Jobs = {j}
    MaxSyncs = 3
    MaxTime = 2
    MaxAge = 0
SPECIFICATION Spec
CHECK_DEADLOCK FALSE
INVARIANTS
    TypeOK
    AckedStreamStays
    ExtraAloneOnlyIfRaced
PROPERTIES
    ReapSparesFresh
    ReapLeavesNoStale
