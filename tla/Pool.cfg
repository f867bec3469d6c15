SPECIFICATION Spec
CONSTANTS
    CIRs = {1, 2}
    Pools = {p1, p2}
    FallbackPools = {}
    NoPool = NoPool
    Readers = {"informer", "pool reconciler"}
    MaxSize = 1
    Mishaps = {"fault", "resize", "offline", "delete pool", "delete", "acquire", "maintenance"}
    MaxMishaps = 2
    p1 = p1
    p2 = p2
SYMMETRY Symmetry
INVARIANTS
    TypeOK
    NoSurplus
PROPERTIES
    RespectsPhases
CHECK_DEADLOCK FALSE
