CONSTANTS
    Conn = {"m1", "m2", "k"}
    Device = {"mic", "desk"}
    NoDevice = "none"
    DeviceOf <- mcDeviceOf
    IsDesk <- mcIsDesk
    MaxPeers = 2
    MaxRooms = 2
    MaxEvents = 1
    SweepWaits = TRUE
    Request = {"a-open", "b-open", "b-read", "a-share", "a-unshare", "b-delete"}
    UserOf <- mcUserOf
    KindOf <- mcKindOf
    EmailsOf <- mcEmailsOf
    Email <- mcEmail
    NoUser = "nobody"
    MaxShares = 1
    Address = {"p", "q"}
    Capacity = 2
    TokenUnits = 2
    RefillUnits = 1
    MaxBuckets = 1
    MaxTick = 4
    DelStream = {"s", "u"}
    LastSeq = 0
    Recorded <- mcRecorded
    MaxDelFaults = 2
    MaxDeletes = 1
    MaxHardDeletes = 1
    MaxValue = 5
    MaxList = 2
    Sink = {"k1"}
    MaxSeq = 2
    Cost <- mcCost
    Budget = 2
    ReportCap = 1
SPECIFICATION Spec
CHECK_DEADLOCK FALSE
INVARIANTS
    RosterSound
    OwnerIsTrue
    RateHeld
    ArchiveInStep DeletionHolds
    RangesExact
    SenderSound
PROPERTIES
    SameDeviceSamePeer
