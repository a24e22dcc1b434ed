SPECIFICATION FairSpec
CONSTANTS
    NumChunks = 7
    ChunkLen = 119
    ResetLimit = 4
    MaxDownloads = 2
    MaxFlight = 2
    MaxLost = 3
    MaxEarly = 2
INVARIANTS FirstDownloadInOrder DropsPerDownload
PROPERTIES LinkIsReliable EveryDownloadEnds
CHECK_DEADLOCK FALSE
