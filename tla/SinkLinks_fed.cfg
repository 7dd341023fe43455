CONSTANTS
    MaxLinkObjects = 3
    MaxOffers = 5
    MaxDeskPeers = 2
    MaxLinkFaults = 3
SPECIFICATION LinksSpec
CHECK_DEADLOCK FALSE
INVARIANT OpenIsFed
