SPECIFICATION FairReaderSpec
CONSTANTS
  GpioBarrier <- MCGpioBarrier
  McpBarrier = {}
  QueueSize = 1
  FuseWindow = 1
  ExpiryTimeout = 1
  LogFaults = TRUE
  MaxSensorEvents = 3
  MaxReads = 1
  MaxAge = 2
  Part = {p1, p2}
  NoPart = NoPart
  MinGap = 2
PROPERTIES
  FusedWithOwnTag
  SensorEventSettled
CHECK_DEADLOCK FALSE
