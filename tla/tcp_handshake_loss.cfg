SPECIFICATION Spec
CONSTANTS
    Caller = a
    Callee = b
    RcvBuf = 4
    SndBuf = 6
    Unit = 1
    Levels <- OneLevel
    Mtus = {}
    PathMss = 1
    Nagling = TRUE
    AckDelay = TRUE
    MaxXmit = 3
    Writers = {b}
    Closers = {}
    MaxBytes = 2
    WriteSizes = {2}
    ReadSizes = {4}
    MaxCwnd = 4
    MaxNet = 4
    Reorder = FALSE
    HandshakeFaults = TRUE
    Faults = {"lose", "slow"}
    MaxFaults = 3
PROPERTIES ImplementsByteStream
CHECK_DEADLOCK FALSE
