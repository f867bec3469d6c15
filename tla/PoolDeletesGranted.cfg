SPECIFICATION Spec
CONSTANTS
    CIRs = {1, 2}
    Pools = {p1}
    FallbackPools = {}
    NoPool = NoPool
    Readers = {"informer", "pool reconciler"}
    MaxSize = 1
    Mishaps = {"resize", "acquire"}
    MaxMishaps = 2
    p1 = p1
INVARIANTS
    GrantedNotDeleted
CHECK_DEADLOCK FALSE
