SPECIFICATION FairSpec
CONSTANTS
  MaxInFlight = 1
  MaxRequests = 1
  MaxFaults = 2
  MaxEncodeFaults = 1
INVARIANTS
  TypeOK
  NoLostWakeup
  ForceIdrHonoured
PROPERTIES
  DecoderRecovers
  RequestsSubside
