CONSTANTS
    a = a
    b = b
    Byte <- MCByte
    Text <- MCText
    kBufferSize = 3
    UINT32 = 8
    Configs <- MCConfigs
    Chunks <- MCChunks
    TickSteps = {0, 1, 2}
    MaxReceived = 5
SPECIFICATION HFairSpec
INVARIANTS
    Consistent
    BufferIsUnusedTail
    AnsweredIffMatched
    NothingOverlooked
    WaitsKeepTheirLimits
PROPERTIES
    ImplementsScript
    Completes
