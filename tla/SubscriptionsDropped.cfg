SPECIFICATION FairSpec
CONSTANTS
    q1 = q1  q2 = q2  q3 = q3  p1 = p1  p2 = p2
    Requests = {q1}
    Pairs = {p1}
    PairOf <- OnePair
    Handlers = {h1}
    Workers = {w1}
    QueueSize = 1
    MaxGauge = 1
    Faults = {"sigterm"}
    None = None
CHECK_DEADLOCK FALSE
PROPERTY NothingDropped
