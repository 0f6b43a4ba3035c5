SPECIFICATION SystemSpec
CONSTANTS
    r1 = r1  p1 = p1
    Instances = {a, b}
    Server = a
    Workers = {w}
    Subs <- TwoSubs
    Repos = {r1}
    RepoOf <- SameRepo
    Tags = {v1, v2}
    StableTags = {v1, v2}
    Faults = {}
    NoTag = NoTag
    Nobody = Nobody
    Orphan = Orphan
    Pairs = {p1}
    PairOf <- SamePair
    Handlers = {h1, h2}
    Mailers = {m}
    QueueSize = 1
    MaxGauge = 2
    None = None
SYMMETRY Symmetry
CHECK_DEADLOCK FALSE
INVARIANTS NoDuplicateMail GaugeNotBelowConfirmed OneMailPerAddress
PROPERTIES ScannerImplemented LastSeenFollowsLog
