SPECIFICATION Spec
CONSTANTS
    MaxU64 = 100
    ValidKeys = {1, 2}
    UnlockDelay = 2
    MempoolSize = 2
    Hash <- MCHash
    BlockOf <- MCBlockOf
    Genesis = 1
    ZeroHash = 0
    RequestTimeout = 3
    SyncWindow = 2
    Peer = {1}
    Announced = {2, 3, 4, 5, 6, 7}
    Responses <- MCResponses
    ChannelSize = 2
    MaxFrames = 3
    MaxCrashes = 1
INVARIANTS
    StatesAreReplays
    KnownIsPersisted
    ChildrenFollow
PROPERTY
    NothingDropped
    ComesToRest
    ImplementsStore
CHECK_DEADLOCK FALSE
