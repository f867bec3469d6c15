SPECIFICATION FairSpec
CONSTANTS
    CIRs = {1, 2, 3}
    Pools = {p1}
    FallbackPools = {}
    NoPool = NoPool
    Readers = {"informer", "pool reconciler"}
    MaxSize = 2
    Mishaps = {"fault", "resize", "delete pool", "acquire"}
    MaxMishaps = 2
    p1 = p1
PROPERTIES
    PoolConverges
    PoolDeletionCompletes
CHECK_DEADLOCK FALSE
