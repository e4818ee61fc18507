SPECIFICATION FairSensorSpec
CONSTANTS
  GpioPin <- MCGpioPin
  McpPin <- MCMcpPin
  DebounceTime = 1
  QueueSize = 1
  ReadFaults = TRUE
  MaxAge = 1
  MaxClosings = 1
INVARIANTS
  SensorTypeOK
  DebounceSpacing
  NoPhantomEdge
PROPERTIES
  ClosingReported
CHECK_DEADLOCK FALSE
