SPECIFICATION FairSpec
CONSTANTS
    Workers = {w1}
    Keys = {k1}
    NumFiles = 2
    Creators = {}
    StaleTimeout = 0
    MaxTime = 2
    MaxCrashes = 3
    None = None
    Unread = Unread
PROPERTIES
    TaskCompletes
CHECK_DEADLOCK FALSE
