SPECIFICATION FairSpec
CONSTANTS
  MaxInFlight = 1
  MaxRequests = 1
  MaxFaults = 1
  MaxEncodeFaults = 0
PROPERTIES
  CorruptionNoticed
