SPECIFICATION Spec
CONSTANTS
  MaxFrames = 4
INVARIANTS
  FreedOnce
CHECK_DEADLOCK FALSE
