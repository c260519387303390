SPECIFICATION FairSpec
CONSTANTS
    QUEUE_LEN = 1
    Feeds = {0, 1, 2}
    Angles = {0, 2}
    RESET_ANGLE = 0
    MaxLines = 5
    MaxTimeouts = 1
    MaxResets = 1
INVARIANTS
    ServoAlone
PROPERTIES
    FeedNotCut
    WaitEnds
CHECK_DEADLOCK FALSE
