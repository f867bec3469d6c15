SPECIFICATION Spec
CONSTANTS
    CIRs = {c1, c2}
    Pools = {hosts}
    FallbackPools = {}
    NoPool = NoPool
    Instances = {i1}
    ResourceIds = {i1, NoInstance, FallbackResource}
    NoInstance = NoInstance
    FallbackResource = FallbackResource
    Readers = {"informer", "reconciler"}
    ReusesIds = TRUE
    TypedNotFound = TRUE
    InstancesMayFail = FALSE
    AdminEdits = "never"
    MaxFaults = 0
    c1 = c1
    c2 = c2
    hosts = hosts
    i1 = i1
SYMMETRY Symmetry
INVARIANTS
    NoSharedInstance
CHECK_DEADLOCK FALSE
