SPECIFICATION Spec
CONSTANTS
    Modes = {"backfill"}
    MaxStamp = 2
    Kinds = 2
    RowsPerFile = 1
    BatchCap = 1
    MaxFiles = 0
    Windows <- NoWindow
    MaxRecords = 0
    Faults = {}
    MaxStops = 1
    NoState = NoState
INVARIANTS
    ResumesAtTheRightFile
