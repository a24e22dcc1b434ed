SPECIFICATION FairLinkSpec
CONSTANTS
    Timeout = 2
    AvgSize = 2
    MaxLines = 4
    MaxTries = 3
    LineLen = 119
    ResetLimit = 3
    MaxFlight = 2
    MaxLost = 2
INVARIANTS ArqInv ChannelUseAccounted RepeatsAreForced
PROPERTIES LinkIsReliable EveryLineAcked
CHECK_DEADLOCK FALSE
