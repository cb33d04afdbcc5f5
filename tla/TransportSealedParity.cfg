SPECIFICATION Spec
CONSTANTS
  FrameMod = 65536
  ByteMod = 256
  GroupMod = 256
  RingSize = 16
  MaxFrames = 2
  PacketCounts = {2, 3}
  IdrFlags = {TRUE, FALSE}
  FecPercent = 50
  Encrypted = TRUE
  MaxReorder = 0
  MaxLoss = 1
  MaxDup = 0
INVARIANTS
  RecoveryGenuine
CHECK_DEADLOCK FALSE
