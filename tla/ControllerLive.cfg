SPECIFICATION FairSpec
CONSTANTS
    CIRs = {c1}
    Pools = {hosts, spare}
    FallbackPools = {spare}
    NoPool = NoPool
    Instances = {i1, i2, i3}
    ResourceIds = {i1, i2, i3, NoInstance, FallbackResource}
    NoInstance = NoInstance
    FallbackResource = FallbackResource
    Readers = {"informer", "reconciler"}
    ReusesIds = FALSE
    TypedNotFound = TRUE
    InstancesMayFail = FALSE
    AdminEdits = "never"
    MaxFaults = 2
    c1 = c1
    hosts = hosts
    spare = spare
    i1 = i1
    i2 = i2
    i3 = i3
PROPERTIES
    LeaseEnds
    GrantTakesEffect
    DeletionCompletes
CHECK_DEADLOCK FALSE
