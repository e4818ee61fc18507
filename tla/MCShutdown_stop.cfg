SPECIFICATION FairShutdownSpec
CONSTANTS
  FullSpeed = 10
  PushSpeed = 7
  ConveyorSpeed = 5
  StationSpeed = 4
  MinInterval = 0
  HatFaults = FALSE
  LogFaults = FALSE
  MaxTimeoutThreads = 0
  Part = {p1}
  NoPart = NoPart
  BusyCorners = {1, 2}
  BusyStations = {1}
  MaxSignals = 2
INVARIANTS
  ShutdownTypeOK
  OnlyLateTimersMove
  ExclusionSurvivesStop
PROPERTIES
  SignalEndsMain
CHECK_DEADLOCK FALSE
