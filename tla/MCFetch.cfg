SPECIFICATION FairSpec
CONSTANTS
    Workers = {w1, w2, w3}
    Hosts = {h1, h2}
    Limits = {"none", "global", "host"}
    Burst = 1
    Concurrency = 2
    MaxRetries = 1
    MaxCalls = 1
    MaxTicks = 2
INVARIANTS
    SlotsExact
    LongRunRate
PROPERTIES
    CallsReturn
