CONSTANTS
  server = server
  desk = desk
  Sink = {server}
  FailStop = {server}
  Failing = {server}
  KeyedByStart = {server}
  MaxSeq = 3
  Cost <- UnitCost
  Budget = 2
  WireCap = 1
  AckCap = 1
  ControlCap = 2
  MaxFaults = 1
SPECIFICATION FairSpec
INVARIANTS TypeOK Accounted ProvenIsDurable EvictedIsDurable GapReportsTrue
PROPERTIES ImplementsArchive DrainsToClosed
CHECK_DEADLOCK FALSE
