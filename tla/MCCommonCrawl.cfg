SPECIFICATION FairSpec
CONSTANTS
    Configs <- Three
    Workers = {w1, w2}
    Broken = {2}
    MaxRecords = 4
    Faults = {"list", "open", "read", "query", "fetch", "flush"}
    NoState = NoState
INVARIANTS
    CursorsCovered
    ShardRowMeansWhole
PROPERTIES
    IndexIngested
    WorksThroughIndex
