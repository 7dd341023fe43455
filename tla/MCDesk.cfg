CONSTANTS
    MidiTake = {"A", "B"}
    OldTake = {"L"}
    NoMidiTake = "none"
    MidiCap = 1
    MaxEvents <- mcMaxEvents
    MaxChain = 2
    MaxIncidents = 2
    ListDesk = {"d", "e"}
    ItemId = {"m", "n"}
    Payload = {0, 1}
    LocalChoice <- mcLocalChoice
    MaxTag = 4
    MaxArrayRank = 2
    MaxListEdits = 3
    MaxListReloads = 1
    MixPage = {"p", "q"}
    MixSession = {"A", "B"}
    FirstSession <- mcFirstSession
    Lane = {"k", "l"}
    NoLane = "none"
    Persisted <- mcPersisted
    MaxMixEdits = 2
    MaxMixMoves = 1
    MaxMixRank = 3
    LanePeer = {"p", "q"}
    LaneStream = {"s"}
    NoOwner = "nobody"
    OwnerOf <- mcOwnerOf
    TakeWith <- mcTakeWith
    JoinedAt <- mcJoinedAt
    LaneFinished = {"s"}
    RemoteOrders <- mcRemoteOrders
    MaxLaneMoves = 1
    MaxLaneIncidents = 1
SPECIFICATION Spec
CHECK_DEADLOCK FALSE
INVARIANTS
    MixAgrees
PROPERTIES
    MidiIsKept
    ListsConverge
    LanesKeepPlace
