SPECIFICATION FairSpec
CONSTANTS
    N = 6
    MaxConcurrent = 2
    MaxBuffered = 3
INVARIANTS
    Bounded
    DoneIsComplete
PROPERTIES
    Settles
CHECK_DEADLOCK FALSE
