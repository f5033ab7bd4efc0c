SPECIFICATION MCSpec
CONSTANTS
    Paths = {p}
    Callers = {c1, c2}
    Policy = "balanced"
    ObjectBytes = 2
    RangeBytes = 1
    MaxBytes = 2
    Ttl = 1
    Forever = Forever
    MaxWrites = 2
    MaxTime = 2
    None = None
    RangeLengths <- MCRangeLengths
    MaxRangeBytes = 4
    MaxEntryBytes = 3
    Snapshots <- MCSnapshots
    ListOf <- MCListOf
    ManifestsOf <- MCManifestsOf
    Generations = 2
    MaxFailures = 1
    PathCount = 2
    Rows <- MCRows
    Size <- MCSize
    Queries <- MCQueries
    MaxRows = {1, 2}
    RowSet = {"x", "y", "z", "w"}
    SliceWrites = 2
SYMMETRY CallerSymmetry
INVARIANTS
    BytesAccounted
    CoherentUnlessOverlapped
    RangesAccounted
    HydrationExact
    SlicesReadOnce
PROPERTIES
    EvictsLowestFirst
CHECK_DEADLOCK FALSE
