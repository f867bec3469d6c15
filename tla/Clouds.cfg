SPECIFICATION FairSpec
CONSTANTS
    hosts = hosts
    spare = spare
    c1 = c1
    c2 = c2
    c3 = c3
    m1 = m1
    m2 = m2
    m3 = m3
    m4 = m4
    m5 = m5
    CIRs = {c1, c2, c3}
    Fallback = {c3}
    Machines = {m1, m2, m3, m4, m5}
    NoMachine = NoMachine
    MaxMishaps = 2
    Pools = {hosts, spare}
    PoolOf <- MCPoolOf
    TagOf <- MCTagOf
    Size <- MCSize
INVARIANTS
    TypeOK
    OnlyLossesLeak
    PoolCap
    HandedOutClean
PROPERTIES
    KeepsContract
    GetsReady
CHECK_DEADLOCK FALSE
