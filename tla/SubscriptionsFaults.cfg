SPECIFICATION FairSpec
CONSTANTS
    q1 = q1  q2 = q2  q3 = q3  p1 = p1  p2 = p2
    Requests = {q1, q2, q3}
    Pairs = {p1, p2}
    PairOf <- TwoPairs
    Handlers = {h1, h2}
    Workers = {w1, w2}
    QueueSize = 1
    MaxGauge = 2
    Faults = {"db", "smtp", "sigterm", "kill"}
    None = None
CHECK_DEADLOCK FALSE
INVARIANTS TypeOK SuccessIsReal
PROPERTY ImplementsOutbox
