SPECIFICATION FairSpec
CONSTANTS
    a1 = a1
    a2 = a2
    a3 = a3
    k1 = k1
    k2 = k2
    Consumers = {a1, a2, a3}
    Keys = {k1, k2}
    KeyOf <- Shared
    MaxOpens = 3
    MaxAcquires <- Tries
    None = None
CHECK_DEADLOCK FALSE
INVARIANTS
    LeaseIsOpen
    CountIsHolders
    OneConnectionPerKey
    NoLostRegistration
PROPERTIES
    ShutdownClosesAll
    AcquireSettles
