SPECIFICATION FairSpec
CONSTANTS
    Caller = a
    Callee = b
    RcvBuf = 4
    SndBuf = 6
    Unit = 2
    Levels <- TwoLevels
    Mtus = {}
    PathMss = 2
    Nagling = FALSE
    AckDelay = TRUE
    MaxXmit = 2
    Writers = {a}
    Closers = {}
    MaxBytes = 7
    WriteSizes = {1, 6}
    ReadSizes = {1}
    MaxCwnd = 4
    MaxNet = 2
    Reorder = FALSE
    HandshakeFaults = TRUE
    Faults = {"slow", "abort"}
    MaxFaults = 1
INVARIANTS WaitingIsRight
PROPERTIES EverythingIsRead
CHECK_DEADLOCK FALSE
