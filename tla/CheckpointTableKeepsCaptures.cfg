SPECIFICATION Spec
CONSTANTS
    MaxTurns = 2
    MaxDiffs = 1
    MaxReverts = 0
    MaxFaults = 0
PROPERTY TableKeepsCaptures
CHECK_DEADLOCK FALSE
