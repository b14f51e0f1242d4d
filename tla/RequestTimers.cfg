SPECIFICATION Spec
CONSTANTS
    MaxU64 = 30
    ValidKeys = {1, 2}
    UnlockDelay = 2
    MempoolSize = 2
    Hash = {1, 2, 3}
    BlockOf <- MCBlockOf
    Genesis = 1
    ZeroHash = 0
    RequestTimeout = 2
    SyncWindow = 2
    Peer = {1, 2}
    Orphan = 3
    NextHeights = {3}
    StartTime = 3
    StartupDelay = 1
    MaxTime = 7
    MaxRequests = 3
INVARIANTS
    WakeFollowsDeadlines
PROPERTIES
    RequestsEnd
    AnswerInTimeContinues
CHECK_DEADLOCK FALSE
