SPECIFICATION FairSpec
CONSTANTS
  MaxFrames = 7
INVARIANTS
  TypeOK
  InUseLive
  LossNeedsRace
PROPERTIES
  LatestTaken
  StopReturns
CHECK_DEADLOCK FALSE
