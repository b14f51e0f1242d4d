SPECIFICATION Spec
CONSTANTS
    t1 = t1
    t2 = t2
    n1 = n1
    n2 = n2
    Transport = {t1, t2}
    Node = {n1, n2}
    Identities <- MCIdentities
    Dialled = {t2}
    LimitOf <- MCLimitOf
    SyncWindow = 4
    LocalHeights <- MCLocalHeights
    MaxU64 = 5
    MaxLinks = 2
    MaxDials = 2
    MaxHellos = 2
    MaxFailures = 1
    MaxRequests = 1
    MaxEvents = 2
INVARIANTS
    MapsInverse
    EventsInSession
    RegisteredIsReachable
    RequestWithinLimit
PROPERTY
    DialledRegisters
CHECK_DEADLOCK FALSE
