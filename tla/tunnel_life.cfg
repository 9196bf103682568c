SPECIFICATION FairSpec
CONSTANTS
    Unhandled = {}
    MaxQueue = 1
INVARIANTS SafeToHandle NoDangling ClockIsKept StreamIsTold DataIsAnnounced
PROPERTIES Released
CHECK_DEADLOCK FALSE
