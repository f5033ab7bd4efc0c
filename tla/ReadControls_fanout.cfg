SPECIFICATION Spec
CONSTANTS
    Reads = {r1, r2, r3}
    Limit = 1
INVARIANTS
    FanoutWithinLimit
