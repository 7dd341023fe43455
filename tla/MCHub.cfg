CONSTANTS
    Desk = {"a", "b"}
    Socket = {"a1", "b1"}
    DeskAt <- mcDeskAt
    MaxCollabRooms = 2
    MaxTrouble = 1
    AlignStream = {"x", "y", "z"}
    TrueLag <- mcTrueLag
    BufferLength <- mcBufferLength
    Interval = 10
    Sweep = {0, 1}
    NoSweep = 99
    SweepChoice <- mcSweepChoice
    MatchChoice <- mcMatchChoice
    StoreDesk = {"d", "e"}
    Shadowless = {}
    Skew <- mcSkew
    MaxRank = 3
    MaxSettles = 2
    MaxReloads = 1
    MaxLinkObjects = 3
    MaxOffers = 5
    MaxDeskPeers = 2
    MaxLinkFaults = 3
    MaxTracks = 5
    MaxHalts = 2
    MaxMicFaults = 2
    HurriedTap = FALSE
    LateFailure = FALSE
SPECIFICATION Spec
CHECK_DEADLOCK FALSE
INVARIANTS
    RoomsSafe
    OneTimeBase
    VerdictsAgree
    SinkIsServed
    MicIsAccounted
PROPERTIES
    EditsLast
