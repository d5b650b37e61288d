SPECIFICATION Spec
CONSTANTS
    Feeds = 2
    Workers = {w1}
    MaxUpdates = 0
    SaveEvery = 64
    MaxRecords = 3
    Faults = {}
    MaxStops = 0
    NoState = NoState
INVARIANTS
    EtagCovered
