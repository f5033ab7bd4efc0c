SPECIFICATION Spec
CONSTANTS
    SnapshotIds = {1, 2, 3}
    Base = 1
    Appends <- MCAppends
    FilesPerAppend = 2
    Writers = {w1, w2}
    MaxAppends = 1
    MaxRewrites = 1
    HintAtStart = FALSE
    ReuseIds = TRUE
    None = None
SYMMETRY WriterSymmetry
INVARIANTS
    PublishedComplete
