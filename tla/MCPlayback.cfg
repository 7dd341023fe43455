CONSTANTS
    Take = {"A", "B"}
    NoTake = "none"
    StreamsOf <- mcStreamsOf
    LenOf <- mcLenOf
    StartAt <- mcStartAt
    OtherStart <- mcOtherStart
    Deletable = {"a1"}
    Lookahead = 1
    Margin = 0
    Verdict = {1}
    Declined = 9
    MaxRequests = 2
    MaxEdits = 1
    FlowTake = {"A", "B", "C"}
    NoFlowTake = "none"
    Scopes <- mcScopes
    MaxPicks = 3
    MaxFlows = 2
    MaxRecordings = 1
    MaxClicks = 4
    MaxPlugs = 2
    MaxRolls = 1
    SourceLen = 4
    HeadTrim = 1
    Slot = 1
    Shift <- mcShift
    MaxStart = 6
    MaxRegions = 3
    MaxArrangeEdits = 3
SPECIFICATION Spec
CHECK_DEADLOCK FALSE
INVARIANTS
    PlaysAsShown
    PickIsServed
    ArrangementPlays
    CardIsTrue
PROPERTIES
    EditsHoldPlace
    NothingHangs
