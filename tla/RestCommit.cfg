SPECIFICATION Spec
CONSTANTS
    SnapshotIds = {1, 2, 3, 4}
    Base = 1
    Appends <- MCAppends
    FilesPerAppend = 1
    Writers = {w1, w2}
    MaxAppends = 2
    MaxEngine = 1
    None = None
SYMMETRY WriterSymmetry
INVARIANTS
    OneLineage
    ManifestBeforeSnapshot
    ReportedMetadataComplete
PROPERTIES
    IsAppendTable
