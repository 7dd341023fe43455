CONSTANTS
  server = server
  desk = desk
  Sink = {desk}
  FailStop = {}
  Failing = {desk}
  KeyedByStart = {}
  MaxSeq = 3
  Cost <- MixedCost
  Budget = 3
  WireCap = 2
  AckCap = 1
  ControlCap = 2
  MaxFaults = 1
SPECIFICATION Spec
CHECK_DEADLOCK FALSE
INVARIANT ProvenIsDurable
