CONSTANTS
    maxFileSize_ = 4
    maxFiles_ = 3
    FLUSH_THRESHOLD = 3
    Lengths = {1, 2}
    Faults <- AllFaults
    MaxWritten = 14
    MaxFaults = 3
SPECIFICATION Spec
INVARIANT AvailableIsWritable
CHECK_DEADLOCK FALSE
