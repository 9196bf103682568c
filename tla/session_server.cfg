SPECIFICATION Spec
CONSTANTS
    Initiator = alice
    Responders = {bob}
    Foreign = carol
    NoJid = none
    Contents <- NoContents
    Candidates = {}
    Protocols = {"HYBRID"}
    Reorder = FALSE
    Batch = {"set", "result", "error"}
    Faults = {"lose", "repeat", "bounce", "slow"}
    MaxFaults = 1
    MaxQueue = 0
    MaxInfo = 1
INVARIANTS
    TransientStateIsPosted
PROPERTIES
    ResponderStaysEnded
CHECK_DEADLOCK FALSE
