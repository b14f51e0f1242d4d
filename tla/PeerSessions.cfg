SPECIFICATION Spec
CONSTANTS
    n1 = n1
    n2 = n2
    a1 = a1
    a2 = a2
    None = None
    Node = {n1, n2}
    Bootstrap <- MCBootstrap
    MaxPeers = 2
    MaxOutboundDials = 1
    MaxSessions = 3
    MaxFrames = 1
SYMMETRY Symmetry
INVARIANTS
    RegistryConsistent
    MessagesMeetTheirSession
    NodeFollowsRegistry
    SlotsFreed
    AnswerUnderWay
CHECK_DEADLOCK FALSE
