SPECIFICATION Spec
CONSTANTS
    Callers = {a, b}
    Tags = {v1}
    TTL = 2
    CallTime = 1
    Faults = {"other"}
    None = None
INVARIANT NotFoundIsMissing
