CONSTANTS
    Clients = {c1, c2}
    Talkers = {c2}
    Laggards = {c1}
    MaxFd = 4
    MaxRotations = 0
SPECIFICATION FairSpec
PROPERTIES
    StopReturns
    LeaversAreReleased
    OnlyOnePeerHoldsUpBroadcast
CHECK_DEADLOCK FALSE
