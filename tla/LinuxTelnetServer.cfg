CONSTANTS
    Clients = {c1, c2}
    Talkers = {c1, c2}
    Laggards = {c1, c2}
    MaxFd = 4
    MaxRotations = 1
SPECIFICATION Spec
SYMMETRY AnyClient
INVARIANTS
    ListedAreOpen
    NothingLeaks
    NoThreadOutlivesStop
CHECK_DEADLOCK FALSE
