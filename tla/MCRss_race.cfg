SPECIFICATION Spec
CONSTANTS
    Feeds = 3
    Workers = {w1, w2}
    MaxUpdates = 0
    SaveEvery = 64
    MaxRecords = 0
    Faults = {}
    MaxStops = 0
    NoState = NoState
INVARIANTS
    MapHasOneUser
