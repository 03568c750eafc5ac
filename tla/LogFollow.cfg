SPECIFICATION FairSpec
CONSTANTS
    MaxLines = 4
    MaxTime = 2
    Grain = 2
    LostForGood = 2
INVARIANTS WholeLog
PROPERTIES FollowEnds
CHECK_DEADLOCK FALSE
