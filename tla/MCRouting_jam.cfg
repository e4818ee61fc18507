SPECIFICATION RoutingSpec
CONSTANTS
  FullSpeed = 10
  PushSpeed = 7
  ConveyorSpeed = 5
  MinInterval = 1
  HatFaults = FALSE
  LogFaults = FALSE
  MaxTimeoutThreads = 1
PROPERTIES
  JamMeansNoArrival
