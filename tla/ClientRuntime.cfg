SPECIFICATION FairSpec
CONSTANTS
  FrameModulus = 4
  MapBits = 3
  Jumps = {1, 3}
  MaxFrames = 3
CHECK_DEADLOCK FALSE
INVARIANTS
  TypeOK
  OpenWhileNeeded
  FeedbackTruthful
PROPERTIES
  FeedbackCatchesUp
  StopReturns
