SPECIFICATION FairSpec
CONSTANTS
  Hosts = {h1, h2}
  Clients = {c1}
  ScreenClients = {c1}
  Codes = {k1}
  MaxTries = 2
  MaxRuns = 2
  MaxAttempts = 2
  Backlog = 1
CHECK_DEADLOCK FALSE
INVARIANTS
  TypeOK
  SessionAgreed
  ExclusiveSession
  CodesDistinct
  LeftoverNeedsFailure
PROPERTIES
  HandshakeEnds
