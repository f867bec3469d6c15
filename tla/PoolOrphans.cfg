SPECIFICATION Spec
CONSTANTS
    CIRs = {1, 2}
    Pools = {p1}
    FallbackPools = {}
    NoPool = NoPool
    Readers = {"informer", "pool reconciler"}
    MaxSize = 1
    Mishaps = {"delete pool"}
    MaxMishaps = 1
    p1 = p1
INVARIANTS
    NoOrphans
CHECK_DEADLOCK FALSE
