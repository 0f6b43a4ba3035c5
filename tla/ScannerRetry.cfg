SPECIFICATION RetrySpec
CONSTANTS
    r1 = r1  r2 = r2
    Instances = {a, b}
    Workers = {w}
    Subs <- OneSub
    Repos = {r1}
    RepoOf <- SameRepo
    Tags = {v1, rc}
    StableTags = {v1}
    Faults = {"db", "github", "smtp", "sigterm", "kill"}
    NoTag = NoTag
    Nobody = Nobody
    Orphan = Orphan
INVARIANT MailedConfirmedStable
PROPERTIES Delivery ChecksRecur ShutdownStops
