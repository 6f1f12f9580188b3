SPECIFICATION FairSpec
CONSTANTS
    Budget = 1
    Outcomes = {"complete"}
    MaxLives = 2
    MaxTurns = 2
    MaxChanges = 1
    MaxFaults = 1
INVARIANTS
    TypeOK
    ChargedToItsGoal
PROPERTIES
    
    GoalIsPursued
CHECK_DEADLOCK FALSE
