SPECIFICATION Spec
CONSTANTS
    Initiator = alice
    Responders = {bob, rob}
    Foreign = carol
    NoJid = none
    Contents <- Audio
    Candidates = {}
    Protocols = {"HYBRID"}
    Reorder = FALSE
    Batch = {}
    Faults = {"redirect", "repeat", "lose", "bounce", "slow"}
    MaxFaults = 2
    MaxQueue = 0
    MaxInfo = 0
INVARIANTS
    AckIsAwaitedWithTimeout
    TypeOK
    AcceptedByRemote
    OneOfferOneAnswer
CHECK_DEADLOCK FALSE
