SPECIFICATION FairSpec
CONSTANTS
    MaxTurns = 2
    MaxDiffs = 1
    MaxReverts = 1
    MaxFaults = 0
PROPERTY PlaceholdersAreReplaced
CHECK_DEADLOCK FALSE
