SPECIFICATION FairSpec
CONSTANTS
    NumLines = 3
    Sizes = {0, 119, 124}
    RetryLimit = 2
    ResetLimit = 2
    MaxFlight = 2
INVARIANTS OnlyLossFails FileArrives
PROPERTIES LinkIsReliable EveryLineSettled
CHECK_DEADLOCK FALSE
