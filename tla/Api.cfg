SPECIFICATION Spec
CONSTANTS
    first = first
    second = second
    spare = spare
    CIRs = {1, 2}
    Pools = {first, second, spare}
    FallbackPools = {spare}
    NoPool = NoPool
    Readers = {k1, k2}
    Priority <- MCPriority
    Authorized <- MCAuthorized
    OfType <- MCOfType
    MaxMishaps = 1
    k1 = k1
    k2 = k2
INVARIANTS
    TypeOK
    ExclusiveLease
PROPERTIES
    GrantsByPriority
    NoFalseNotFound
    ImplementsPhases
CHECK_DEADLOCK FALSE
