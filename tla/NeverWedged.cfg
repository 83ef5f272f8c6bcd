CONSTANTS
    Sizes <- OneEach
    Awaits <- FirstAwaits
    MaxReceived = 2
SPECIFICATION Spec
INVARIANT NeverWedged
