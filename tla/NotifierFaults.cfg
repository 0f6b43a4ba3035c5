SPECIFICATION SystemSpec
CONSTANTS
    r1 = r1  p1 = p1
    Instances = {a, b}
    Server = a
    Workers = {w}
    Subs <- OneSub
    Repos = {r1}
    RepoOf <- SameRepo
    Tags = {v1}
    StableTags = {v1}
    Faults = {"db", "smtp", "session", "sigterm", "kill"}
    NoTag = NoTag
    Nobody = Nobody
    Orphan = Orphan
    Pairs = {p1}
    PairOf <- SamePair
    Handlers = {h1}
    Mailers = {m}
    QueueSize = 1
    MaxGauge = 1
    None = None
CHECK_DEADLOCK FALSE
INVARIANTS OptedIn LockExclusion RecordedWasMailed
PROPERTIES ScannerImplemented ServiceImplemented
