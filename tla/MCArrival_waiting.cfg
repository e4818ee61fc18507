SPECIFICATION FairArrivalSpec
CONSTANTS
  FullSpeed = 10
  PushSpeed = 7
  ConveyorSpeed = 5
  MinInterval = 0
  HatFaults = FALSE
  LogFaults = FALSE
  MaxTimeoutThreads = 1
PROPERTIES
  WaitingPartTaken
