CONSTANTS
  MinLen = 2
  Valid = 1
  SfdLen = 3
  PreLen = 0
  Burst = 2
  CtrlCap = 3
  SinkCap = 3
  MaxCollisions = 2
SPECIFICATION LiveSpec
INVARIANTS CollisionsAgree CollidedNotPublished OneWithheldPerReport
PROPERTIES ClearAfterReport EveryStopIsCleared
CHECK_DEADLOCK TRUE
