SPECIFICATION Spec
CONSTANTS
    MaxLines = 1
    MaxTime = 1
    Grain = 2
    LostForGood = 2
INVARIANTS GivesUpOnlyWhenLost
CHECK_DEADLOCK FALSE
