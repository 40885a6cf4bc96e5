CONSTANTS
    Fills = {f1, f2}
    Others = {o1}
    MaxQueue = 2
    MaxEvents = 4
SPECIFICATION FairSpec
INVARIANT FillsFollowedUp
PROPERTY FillsTaken
CHECK_DEADLOCK FALSE
