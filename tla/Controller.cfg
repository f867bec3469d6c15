SPECIFICATION Spec
CONSTANTS
    CIRs = {c1}
    Pools = {hosts, spare}
    FallbackPools = {spare}
    NoPool = NoPool
    Instances = {i1, i2, i3}
    ResourceIds = {i1, i2, i3, NoInstance, FallbackResource}
    NoInstance = NoInstance
    FallbackResource = FallbackResource
    Readers = {"informer", "reconciler"}
    ReusesIds = FALSE
    TypedNotFound = TRUE
    InstancesMayFail = TRUE
    AdminEdits = "idle"
    MaxFaults = 1
    c1 = c1
    hosts = hosts
    spare = spare
    i1 = i1
    i2 = i2
    i3 = i3
SYMMETRY Symmetry
INVARIANTS
    TypeOK
    CleanBeforeReuse
    IdleFallbackHasNoInstance
PROPERTIES
    ImplementsLifecycle
    ImplementsPhases
    InstanceReleasedBeforeUnlink
CHECK_DEADLOCK FALSE
