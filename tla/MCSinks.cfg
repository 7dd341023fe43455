CONSTANTS
  server = server
  desk = desk
  Sink = {server, desk}
  FailStop = {server}
  Failing = {server}
  KeyedByStart = {server}
  MaxSeq = 3
  Cost <- UnitCost
  Budget = 2
  WireCap = 2
  AckCap = 1
  ControlCap = 1
  MaxFaults = 2
SPECIFICATION SceneSpec
INVARIANTS GapsRemembered
PROPERTIES CloseIsSafe CloseIsTold
CHECK_DEADLOCK FALSE
