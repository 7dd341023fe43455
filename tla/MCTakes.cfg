CONSTANTS
    MaxStream = 3
    MaxSwitch = 1
    FinalSeqs = {1, 2}
    MaxTake = 3
    MaxFaults = 1
    Faults = {"cut", "crash", "fatal"}
    Disarms = TRUE
    Hurried = {"start"}
    StatusStream = {"s", "t"}
    LastChunk = 0
    MaxTicks = 1
    MaxPollTrouble = 1
    OrphanHold = 1
    MaxNow = 1
SPECIFICATION MCSpec
CHECK_DEADLOCK FALSE
INVARIANTS
    TakeTruth
PROPERTIES
    NothingDiscarded
    SwapBetweenTakes
    RollingTakeKept
    CalmTakeServed
    ShownAsArchived
