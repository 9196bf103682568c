SPECIFICATION Spec
CONSTANTS
    A = a
    B = b
    Suites <- OneSuite
    MaxKey = 2
    DtlsModes = {TRUE, FALSE}
    Outcomes = {"ok", "recv"}
    MaxOffers = 2
    MaxNet = 2
    Repeat = FALSE
    Conflict = FALSE
INVARIANTS AppliedIsInstalled NegotiatedIsKeyed KeysAgree MuxAgrees
PROPERTIES AnswerIsAccepted
CHECK_DEADLOCK FALSE
