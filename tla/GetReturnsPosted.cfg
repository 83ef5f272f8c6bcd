CONSTANTS
    a = a
    b = b
    Byte <- MCByte
    Text <- MCText
    kBufferSize = 2
    UINT32 = 4096
    Configs <- FilePosted
    Chunks <- MCChunks
    TickSteps = {600}
    StartupConfig <- File
    Threaded = FALSE
    HasStorage = TRUE
    ClientData = {1}
    kThroughputIntervalMs = 1000
    Digits = 10
    Intervals = {1000, 1010, 1500, 1999}
    MaxWindow = 2
SPECIFICATION CSpec
INVARIANT GetReturnsPosted
