CONSTANTS
    Data <- MCData
    Options <- MCOptions
    Offers <- MCOffers
    DeviceBytes <- MCDevice
    BufSize = 3
    MaxTyped = 2
    MaxAsks = 1
SPECIFICATION FairSpec
INVARIANTS
    InStep
PROPERTIES
    FilterIsExact
    NegotiationSettles
CHECK_DEADLOCK FALSE
