SPECIFICATION WriterSpec
CONSTANTS
    Records <- Mixed
    Conflict <- Verbs
    Columns <- Widths
    MaxVars = 2
    MaxRowsPerStmt = 2
    BatchCap = 2
    BatchSize = 3
    QueueSize = 1
    MaxStmts = 1
    WriterFaults = {"begin", "prepare", "insert", "state", "commit"}
    MaxEmitted = 4
INVARIANTS
    LikeOneByOne
    CountersExact
