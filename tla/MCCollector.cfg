SPECIFICATION FairSpec
CONSTANTS
    daily = daily
    other = other
    Procs = {daily, other}
    Sources = {"rss", "test"}
    Commands <- TwoProcesses
    LastVersion = 2
    MaxBatches = 1
    MaxStarts = 2
    MaxTrouble = 1
    Faults = {"sql", "lock", "load", "flush", "collect", "finish", "checkpoint"}
INVARIANTS
    SchemaIsWhole
    CollectsOnNewestSchema
    RecordsSurvive
    RunningIsLive
    ExitIsHonest
PROPERTIES
    InterruptEnds
