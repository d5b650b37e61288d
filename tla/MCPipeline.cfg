\* Two emitters, two runs, every fault, a limit of two records.
CONSTANTS
    d1 = d1
    d2 = d2
    NoState = NoState
    Emitters = {e1, e2}
    Record <- MCRecord
    DataRecord <- MCRecord
    Replaced <- MCReplaced
    Batches <- MCBatches
    QueueSize = 1
    BatchSize = 2
    MaxRecords = 2
    Faults = {"load", "flush", "finish"}
    MaxCalls = 3
    MaxRuns = 2
SPECIFICATION FairSpec
INVARIANTS
    TypeOK
    StateCovered
    AckedIsDurable
    RecordsColumn
    LimitIsExact
PROPERTIES
    ImplementsIngest
    EmitReturns
    InterruptEndsRun
    SlowWorkIsFlushed
