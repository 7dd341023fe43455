CONSTANTS
    MidiTake = {"A", "B"}
    OldTake = {"L"}
    NoMidiTake = "none"
    MidiCap = 1
    MaxEvents <- mcMaxEvents
    MaxChain = 2
    MaxIncidents = 2
    ListDesk = {"d", "e", "f"}
    ItemId = {"m"}
    Payload = {0, 1}
    LocalChoice <- mcLocalChoice
    MaxTag = 4
    MaxArrayRank = 1
    MaxListEdits = 3
    MaxListReloads = 0
    MixPage = {"p", "q"}
    MixSession = {"A", "B"}
    FirstSession <- mcFirstSession
    Lane = {"k", "l"}
    NoLane = "none"
    Persisted <- mcPersisted
    MaxMixEdits = 2
    MaxMixMoves = 1
    MaxMixRank = 3
    LanePeer = {"p", "q"}
    LaneStream = {"s"}
    NoOwner = "nobody"
    OwnerOf <- mcOwnerOf
    TakeWith <- mcTakeWith
    JoinedAt <- mcJoinedAt
    LaneFinished = {"s"}
    RemoteOrders <- mcRemoteOrders
    MaxLaneMoves = 1
    MaxLaneIncidents = 1
SPECIFICATION ListsAlone
CHECK_DEADLOCK FALSE
INVARIANT NeverZero
