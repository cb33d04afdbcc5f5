SPECIFICATION Spec
CONSTANTS
  w = w
  x1 = x1
  f1 = f1
  Sessions <- MCSessions
  Keys <- MCKeys
  XButtons <- MCXButtons
  PanelKey = f1
  Sticks <- MCSticks
  Moves <- MCMoves
  SeqModulus = 1
  Width = 4
  MaxEvents = 3
  MaxSends = 3
  MaxCauses = 2
CHECK_DEADLOCK FALSE
INVARIANTS
  StuckKeyNeedsCause
  PadFollows
  MotionConserved
