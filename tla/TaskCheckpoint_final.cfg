SPECIFICATION Spec
CONSTANTS
    Workers = {w1, w2}
    Keys = {k1, k2}
    NumFiles = 2
    Creators = {}
    StaleTimeout = 0
    MaxTime = 2
    MaxCrashes = 0
    None = None
    Unread = Unread
PROPERTIES
    CompleteIsFinal
