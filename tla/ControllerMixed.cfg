SPECIFICATION Spec
CONSTANTS
    CIRs = {c1, c2}
    Pools = {hosts, spare}
    FallbackPools = {spare}
    NoPool = NoPool
    Instances = {i1}
    ResourceIds = {i1, NoInstance, FallbackResource}
    NoInstance = NoInstance
    FallbackResource = FallbackResource
    Readers = {"informer", "reconciler"}
    ReusesIds = FALSE
    TypedNotFound = TRUE
    InstancesMayFail = FALSE
    AdminEdits = "never"
    MaxFaults = 0
    c1 = c1
    c2 = c2
    hosts = hosts
    spare = spare
    i1 = i1
SYMMETRY Symmetry
INVARIANTS
    AssignedInstanceReady
    IInv
CHECK_DEADLOCK FALSE
