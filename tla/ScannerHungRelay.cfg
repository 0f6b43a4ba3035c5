SPECIFICATION FairSpec
CONSTANTS
    r1 = r1  r2 = r2
    Instances = {a}
    Workers = {w}
    Subs <- OneSub
    Repos = {r1}
    RepoOf <- SameRepo
    Tags = {v1}
    StableTags = {v1}
    Faults = {}
    NoTag = NoTag
    Nobody = Nobody
    Orphan = Orphan
PROPERTY ChecksRecur
