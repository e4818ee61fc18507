SPECIFICATION FairLoggedSpec
CONSTANTS
  FullSpeed = 10
  StationSpeed = 12
  HatFaults = FALSE
  LogFaults = TRUE
  Part = {p1, p2}
  PartId = {p1, p2}
  NoPart = NoPart
  MaxCycleTimes = 2
  MaxRuntime = 3
  MaxVisits = 3
INVARIANTS
  StationTypeOK
  StationConsistent
  BeltStandsStill
  LoggerTypeOK
  LoggerFollowsStations
  CycleTimesMatchBusyTime
PROPERTIES
  TraceHasNoGap
  PartLeaves
CHECK_DEADLOCK FALSE
