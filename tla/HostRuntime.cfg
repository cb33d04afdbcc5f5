SPECIFICATION FairSpec
CONSTANTS
  MinInterval = 4
  Fallback = 3
  MaxEncode = 2
  MaxFaults = 2
CHECK_DEADLOCK FALSE
INVARIANTS
  TypeOK
  PartsAlive
  CaptureInTime
PROPERTIES
  ChangesCaptured
  StopReturns
