CONSTANTS
    maxFileSize_ = 2
    maxFiles_ = 3
    FLUSH_THRESHOLD = 3
    Lengths = {1, 2}
    MaxBytes = 8
    OpenMayFail = TRUE
    MaxFailures = 1
    QuickSwap = FALSE
SPECIFICATION FairStorageSpec
INVARIANT InsertedCardIsUsed
