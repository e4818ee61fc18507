SPECIFICATION FairEntranceSpec
CONSTANTS
  FullSpeed = 10
  StationSpeed = 4
  HatFaults = FALSE
  LogFaults = FALSE
  Part = {p1, p2}
  NoPart = NoPart
PROPERTIES
  WaitingPartAdmitted
