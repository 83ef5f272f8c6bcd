CONSTANTS
    Sizes <- MCSizes
    Awaits <- FirstAwaits
    MaxReceived = 3
SPECIFICATION FairSpec
INVARIANTS
    NotWedged
    CountIsExact
PROPERTY PostOverrunHeals
