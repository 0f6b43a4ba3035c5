SPECIFICATION FairSpec
CONSTANTS
    Instances = {a, b}
    Attempts = 3
    Environments <- FewEnvironments
INVARIANTS TypeOK ServingReady
PROPERTY ComesUp
