\* The world goes on when the program has halted, so there is no deadlock.
CONSTANTS
    Clients = {"a", "b", "c"}
    MAX_TELNET_CLIENTS = 2
    maxRetries = 2
    kThroughputInterval = 2
    BACKLIGHT_TIMEOUT = 3
    Rounds <- MCRounds
SPECIFICATION FairSpec
INVARIANTS OpenHaveTheirSlot
PROPERTY BacklightGoesOff
