SPECIFICATION Spec
CONSTANTS
    r1 = r1  r2 = r2
    Instances = {a, b}
    Workers = {w, x}
    Subs <- ThreeSubs
    Repos = {r1, r2}
    RepoOf <- LastOwnRepo
    Tags = {v1}
    StableTags = {v1}
    Faults = {"db", "github", "redis", "smtp", "kill"}
    NoTag = NoTag
    Nobody = Nobody
    Orphan = Orphan
SYMMETRY Symmetry
INVARIANTS TypeOK LockExclusion NoSendOfRecorded RecordedWasMailed NoWorkerOutlivesScan LastSeenWasRecorded
PROPERTY ImplementsLedger
