SPECIFICATION Spec
CONSTANTS
    Caller = a
    Callee = b
    RcvBuf = 2
    SndBuf = 4
    Unit = 1
    Levels <- TwoLevels
    Mtus = {1}
    PathMss = 1
    Nagling = FALSE
    AckDelay = FALSE
    MaxXmit = 2
    Writers = {a}
    Closers = {a}
    MaxBytes = 3
    WriteSizes = {3}
    ReadSizes = {2}
    MaxCwnd = 4
    MaxNet = 2
    Reorder = TRUE
    HandshakeFaults = FALSE
    Faults = {"lose", "repeat", "slow", "fail", "idle"}
    MaxFaults = 1
INVARIANTS SegmentsCoverBuffer UnackedIsTimed WindowIsKept GracefulCloseFlushes
PROPERTIES ImplementsByteStream
CHECK_DEADLOCK FALSE
