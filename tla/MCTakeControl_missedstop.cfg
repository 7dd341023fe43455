CONSTANTS
  MaxStream = 2
  MaxSwitch = 0
  FinalSeqs = {1}
  MaxTake = 1
  MaxFaults = 1
  Faults = {"cut"}
  Disarms = FALSE
  Hurried = {}
SPECIFICATION FairSpec
PROPERTIES StopReachesRecorder
CHECK_DEADLOCK FALSE
