SPECIFICATION FairSpec
CONSTANTS
  NumSeq = 5
  RetryLimit = 2
  NDEBUG = FALSE
  MaxQueue = 3
  MaxPackets = 6
INVARIANTS TransmitterInv NeverThrows PacketAccounting
PROPERTIES BufferLocks RoundPastSensingEnds
CHECK_DEADLOCK FALSE
