SPECIFICATION GFairSpec
CONSTANTS
    Modes = {"backfill"}
    MaxStamp = 6
    Kinds = 1
    RowsPerFile = 1
    BatchCap = 2
    MaxFiles = 4
    Windows <- NoWindow
    MaxRecords = 0
    Faults = {}
    MaxStops = 1
    NoState = NoState
    Workers = 2
INVARIANTS
    NoEarlyRead
    DownloadsBounded
    NoneLeftBehind
    ResumesAtTheRightFile
PROPERTIES
    ImplementsSource
    EventuallyCollected
