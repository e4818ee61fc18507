SPECIFICATION CornerSpec
CONSTANTS
  FullSpeed = 10
  PushSpeed = 7
  ConveyorSpeed = 5
  MinInterval = 0
  HatFaults = TRUE
  LogFaults = TRUE
  MaxTimeoutThreads = 1
INVARIANTS
  NeighboursNotBothReserved
  ReservedWhilePushing
  TimersMatchState
