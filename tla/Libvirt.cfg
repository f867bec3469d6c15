SPECIFICATION FairSpec
CONSTANTS
    c1 = c1
    c2 = c2
    CIRs = {c1, c2}
    Fallback = {c2}
    Machines = {m1, m2, m3}
    NoMachine = NoMachine
    MaxMishaps = 3
INVARIANTS
    TypeOK
    HandedOutClean
    OnlyMishapsLeave
PROPERTIES
    ImplementsProvider
    ReleaseCompletes
    GetsReady
CHECK_DEADLOCK FALSE
