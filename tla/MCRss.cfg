SPECIFICATION FairSpec
CONSTANTS
    Feeds = 2
    Workers = {w1, w2}
    MaxUpdates = 1
    SaveEvery = 1
    MaxRecords = 0
    Faults = {"fetch", "flush"}
    MaxStops = 1
    NoState = NoState
INVARIANTS
    EtagCovered
    EveryFeedGathered
PROPERTIES
    CollectEnds
