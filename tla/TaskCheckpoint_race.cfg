SPECIFICATION Spec
CONSTANTS
    Workers = {w1, w2}
    Keys = {k1, k2}
    NumFiles = 2
    Creators = {w2}
    StaleTimeout = 0
    MaxTime = 2
    MaxCrashes = 1
    None = None
    Unread = Unread
SYMMETRY KeySymmetry
INVARIANTS
    OutputsWritten
PROPERTIES
    TakeoverOnlyWhenStale
CHECK_DEADLOCK FALSE
