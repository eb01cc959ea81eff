SPECIFICATION LivesSpec
CONSTANTS
  N = 2
  MaxInFlight = 2
  Datagrams = {d1, d2, d3}
  d1 = d1
  d2 = d2
  d3 = d3
  BindFails = TRUE
  ReadFails = TRUE
  MaxFrames = 2
INVARIANTS
  SlotsExact
  DrainedMeansQuiet
  StopsClean
PROPERTIES
  EveryStopEnds
CHECK_DEADLOCK FALSE
