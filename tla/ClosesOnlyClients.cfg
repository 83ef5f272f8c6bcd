CONSTANTS
    Clients = {c1}
    Talkers = {c1}
    Laggards = {c1}
    MaxFd = 3
    MaxRotations = 1
SPECIFICATION Spec
PROPERTY ClosesOnlyClients
CHECK_DEADLOCK FALSE
