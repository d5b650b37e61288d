SPECIFICATION FairSpec
CONSTANTS
    Datasets <- AllDatasets
    LastRepo = 3
    PageSize = 2
    MaxPages = 2
    MaxUpdates = 1
    Exposed = 2
    EventPages = 2
    Refresh = TRUE
    DetailBatch = 3
    PerQuery = 1
    Workers = {w1, w2}
    Gone = {2}
    MaxRecords = 2
    Faults = {"request", "quota", "query", "flush"}
    MaxStops = 2
    NoState = NoState
INVARIANTS
    RepositoriesCovered
    EtagCovered
    DetailsCovered
PROPERTIES
    SnapshotsTaken
