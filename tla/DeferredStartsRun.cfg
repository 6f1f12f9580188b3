SPECIFICATION FairSpec
CONSTANTS
    MaxMessages = 3
    MaxTurns = 6
    MaxFaults = 0
PROPERTY DeferredStartsRun
CHECK_DEADLOCK FALSE
