SPECIFICATION FairSpec
CONSTANTS
  FrameMod = 3
  ByteMod = 256
  GroupMod = 2
  RingSize = 2
  MaxFrames = 4
  PacketCounts = {1, 2, 4}
  IdrFlags = {FALSE}
  FecPercent = 50
  Encrypted = FALSE
  MaxReorder = 0
  MaxLoss = 2
  MaxDup = 0
INVARIANTS
  DeliveredWhole
PROPERTIES
  WrongRepairNeedsLeftover
  InOrderStream
  UndamagedFramesArrive
  RepairableFramesArrive
CHECK_DEADLOCK FALSE
