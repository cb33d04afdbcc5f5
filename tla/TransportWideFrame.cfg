SPECIFICATION Spec
CONSTANTS
  FrameMod = 65536
  ByteMod = 256
  GroupMod = 256
  RingSize = 16
  MaxFrames = 1
  PacketCounts = {257}
  IdrFlags = {TRUE, FALSE}
  FecPercent = 0
  Encrypted = FALSE
  MaxReorder = 0
  MaxLoss = 0
  MaxDup = 0
INVARIANTS
  DeliveredWhole
CHECK_DEADLOCK FALSE
