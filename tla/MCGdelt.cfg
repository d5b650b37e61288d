SPECIFICATION Spec
CONSTANTS
    Modes = {"latest", "backfill"}
    MaxStamp = 2
    Kinds = 2
    RowsPerFile = 3
    BatchCap = 2
    MaxFiles = 0
    Windows <- SomeWindows
    MaxRecords = 7
    Faults = {"list", "download", "query", "zip", "flush"}
    MaxStops = 1
    NoState = NoState
INVARIANTS
    FileRowMeansWhole
    SavedStampCollected
    CleanRunIsComplete
