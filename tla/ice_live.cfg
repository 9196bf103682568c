SPECIFICATION FairSpec
CONSTANTS
    a = a
    b = b
    direct = direct
    relay = relay
    End = {a, b}
    Path = {direct, relay}
    Priority <- TwoPriorities
    Network <- OneNetwork
    Told <- ToldEach
    Initiator = {a, b}
    Tiebreaker <- Tiebreakers
    NoPath = none
    MaxFailures = 1
    MaxUnderWay = 1
    MaxFaults = 0
PROPERTIES RolesSettle EndsMeet
