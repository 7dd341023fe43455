CONSTANTS
    MaxTracks = 5
    MaxHalts = 2
    MaxMicFaults = 2
    HurriedTap = FALSE
    LateFailure = TRUE
SPECIFICATION JoinSpec
CHECK_DEADLOCK FALSE
INVARIANT JoinedRecords
