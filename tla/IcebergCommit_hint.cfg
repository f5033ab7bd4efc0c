SPECIFICATION Spec
CONSTANTS
    SnapshotIds = {1, 2, 3, 4}
    Base = 1
    Appends <- MCAppends
    FilesPerAppend = 2
    Writers = {w1, w2}
    MaxAppends = 2
    MaxRewrites = 0
    HintAtStart = TRUE
    ReuseIds = FALSE
    None = None
SYMMETRY WriterSymmetry
INVARIANTS
    TypeOK
    PublishedComplete
    SequenceNumbersDistinct
    RejectedInvisible
    HandlesPublished
PROPERTIES
    FreshCommitKeepsAppends
    CommitPublishesOwnFiles
