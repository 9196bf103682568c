SPECIFICATION Spec
CONSTANTS
    rtp = rtp
    rtcp = rtcp
    Content = {1, 2}
    Component = {rtp, rtcp}
    Uses <- OneRtcp
    Rtcp = rtcp
    MaxOffers = 2
    MaxFlips = 1
INVARIANTS ReferencesMatch ProxyIsCurrent WritableIsNoticed ChannelsGather
CHECK_DEADLOCK FALSE
