SPECIFICATION FairLinkSpec
CONSTANTS
  NumSeq = 5
  RetryLimit = 1
  NDEBUG = TRUE
  MaxQueue = 2
  MaxPackets = 3
  LossyFeedback = TRUE
  MaxAir = 2
  MaxFeedback = 1
  MaxAlarms = 2
  MaxDamaged = 1
INVARIANTS LinkTypeOK CleanLinkLosesNothing ThroughputComplete
PROPERTIES EveryPacketSettled IndexedRoundDelivers
CHECK_DEADLOCK FALSE
