SPECIFICATION Spec
CONSTANTS
  FrameMod = 65536
  ByteMod = 256
  GroupMod = 256
  RingSize = 16
  MaxFrames = 3
  PacketCounts = {1, 3}
  IdrFlags = {TRUE, FALSE}
  FecPercent = 0
  Encrypted = TRUE
  MaxReorder = 1
  MaxLoss = 1
  MaxDup = 1
INVARIANTS
  TypeOK
  ReassemblyConsistent
  DeliveredGenuine
  DeliveredAtMostCopies
  KeyTakesEffectOnce
CHECK_DEADLOCK FALSE
