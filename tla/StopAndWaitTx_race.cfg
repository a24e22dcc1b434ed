SPECIFICATION FairSpec
CONSTANTS
  NumSeq = 2
  SendSizes = {1, 2}
  MaxPackets = 3
  Spurious = TRUE
  MaxStream = 2
  MaxCount = 2
  MaxCollisions = 1
INVARIANTS StopAndWaitInv NoPacketDropped
PROPERTY StopEnds
CHECK_DEADLOCK FALSE
