SPECIFICATION FairSpec
CONSTANTS
    Reads = {r1, r2, r3, r4}
    Limit = 2
INVARIANTS
    SlotsHeld
    WaitOnlyWhenFull
PROPERTIES
    AbortStopsReads
    WaitersServed
