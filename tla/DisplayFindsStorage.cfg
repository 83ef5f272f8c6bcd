CONSTANTS
    MaxFd = 3
    Indeterminate <- MCIndeterminate
    Documents <- MCDocuments
    MayFail = {"wifi", "telnet", "http"}
SPECIFICATION FairSpec
INVARIANT DisplayFindsStorage
CHECK_DEADLOCK FALSE
