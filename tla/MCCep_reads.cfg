SPECIFICATION CepSpec
CONSTANTS
  GpioBarrier <- MCGpioBarrier
  McpBarrier <- MCMcpBarrier
  QueueSize = 2
  FuseWindow = 1
  ExpiryTimeout = 1
  LogFaults = FALSE
  MaxSensorEvents = 3
  MaxReads = 2
  MaxAge = 2
PROPERTIES
  ReadNotLost
CHECK_DEADLOCK FALSE
