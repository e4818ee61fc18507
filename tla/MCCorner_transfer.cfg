SPECIFICATION FairCornerSpec
CONSTANTS
  FullSpeed = 10
  PushSpeed = 12
  ConveyorSpeed = 5
  MinInterval = 0
  HatFaults = FALSE
  LogFaults = TRUE
  MaxTimeoutThreads = 1
INVARIANTS
  CornerTypeOK
  NeighboursNotBothOut
  PusherFollowsState
  ConveyorRunsWhenIdle
PROPERTIES
  NeverReversedUnderWay
  ImplementsPusherExclusion
  HandshakeWaitEnds
  PusherStops
