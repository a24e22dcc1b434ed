SPECIFICATION LinkSpec
CONSTANTS
  NumSeq = 6
  RetryLimit = 1
  NDEBUG = FALSE
  MaxQueue = 2
  MaxPackets = 4
  LossyFeedback = FALSE
  MaxAir = 2
  MaxFeedback = 3
  MaxAlarms = 2
  MaxDamaged = 0
INVARIANT AssertionsHold
CHECK_DEADLOCK FALSE
