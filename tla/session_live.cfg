SPECIFICATION FairSpec
CONSTANTS
    Initiator = alice
    Responders = {bob}
    Foreign = carol
    NoJid = none
    Contents <- Audio
    Candidates = {c1}
    Protocols = {"HYBRID"}
    Reorder = FALSE
    Batch = {"set", "error"}
    Faults = {}
    MaxFaults = 0
    MaxQueue = 1
    MaxInfo = 0
INVARIANTS
    NoCandidateStranded
PROPERTIES
    ErrorEndsSession
    BothSidesEnd
CHECK_DEADLOCK FALSE
