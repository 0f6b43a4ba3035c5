SPECIFICATION FairSpec
CONSTANTS
    Callers = {a, b}
    Tags = {v1, v2}
    TTL = 2
    CallTime = 1
    Faults = {"redis", "net", "403", "429", "other", "change"}
    None = None
INVARIANTS TypeOK StaleBound
PROPERTY CacheCatchesUp
