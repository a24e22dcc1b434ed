CONSTANTS
  QueueLim = 3
  Timeout = 2
  MaxSeq = 4
  MaxQueue = 3
  MaxAnswers = 1
SPECIFICATION LiveSpec
INVARIANT DumpTxInv
PROPERTIES AnswerCountsOnce EveryPacketRepeated
