SPECIFICATION CepSpec
CONSTANTS
  GpioBarrier <- MCGpioBarrier
  McpBarrier <- MCMcpBarrier
  QueueSize = 2
  FuseWindow = 1
  ExpiryTimeout = 1
  LogFaults = TRUE
  MaxSensorEvents = 3
  MaxReads = 2
  MaxAge = 2
INVARIANTS
  CepTypeOK
  DeliveredOnce
PROPERTIES
  SensorEventNotLost
  DeliveredInOrder
CHECK_DEADLOCK FALSE
