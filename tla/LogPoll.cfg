SPECIFICATION PollSpec
CONSTANTS
    Pods = 2
    MaxLines = 4
    MaxTime = 2
    Grain = 2
    LostForGood = 1
INVARIANTS WholeLogs NoPollPastADeath
CHECK_DEADLOCK FALSE
