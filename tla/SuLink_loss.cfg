SPECIFICATION LinkSpec
CONSTANTS
  NumSeq = 4
  RetryLimit = 1
  NDEBUG = TRUE
  MaxQueue = 2
  MaxPackets = 2
  LossyFeedback = FALSE
  MaxAir = 2
  MaxFeedback = 2
  MaxAlarms = 1
  MaxDamaged = 0
INVARIANT NoSilentLoss
CHECK_DEADLOCK FALSE
