CONSTANTS
    MaxFd = 3
    Indeterminate <- MCIndeterminate
    Documents <- MCDocuments
    MayFail = {"wifi", "telnet", "http"}
SPECIFICATION FairSpec
INVARIANTS
    NothingIsLeft
    CallbacksFindTheirObjects
    OnlyThePortIsUsed
    OpenPortIsRead
    ConfigIsSound
PROPERTIES
    SignalEnds
CHECK_DEADLOCK FALSE
