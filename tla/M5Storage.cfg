CONSTANTS
    maxFileSize_ = 3
    maxFiles_ = 3
    FLUSH_THRESHOLD = 2
    Lengths = {1, 2}
    MaxBytes = 9
    OpenMayFail = TRUE
    MaxFailures = 1
    QuickSwap = FALSE
SPECIFICATION FairStorageSpec
INVARIANTS
    LogIsInOrder
    CardKeepsUp
PROPERTIES
    OnlyOldestIsRemoved
    CardIsTakenUp
