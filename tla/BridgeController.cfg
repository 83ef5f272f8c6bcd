CONSTANTS
    a = a
    b = b
    Byte <- MCByte
    Text <- MCText
    kBufferSize = 2
    UINT32 = 4096
    Configs <- MCConfigs
    Chunks <- MCChunks
    TickSteps = {900}
    StartupConfig <- File
    Threaded = TRUE
    HasStorage = TRUE
    ClientData = {1}
    kThroughputIntervalMs = 1000
    Digits = 10
    Intervals = {1000, 1010, 1500, 1999}
    MaxWindow = 3
SPECIFICATION CLiveSpec
PROPERTIES
    RatesAreAccurate
    IdleIsRearmed
