SPECIFICATION FairSpec
CONSTANTS
    CIRs = {c1, c2, c3}
    Fallback = {c3}
    Machines = {h1, h2}
    NoMachine = NoMachine
    MaxMishaps = 3
    c1 = c1
    c2 = c2
    c3 = c3
INVARIANTS
    TypeOK
    OneUser
    HandedOutClean
    OnlyLossesKeepMarks
PROPERTIES
    KeepsContract
    GetsReady
CHECK_DEADLOCK FALSE
