SPECIFICATION Spec
CONSTANTS
    MaxU64 = 100
    ValidKeys = {1, 2}
    UnlockDelay = 2
    MempoolSize = 2
    Hash <- MCHash
    BlockOf <- MCBlockOf
    Genesis = 1
    ZeroHash = 0
    Transactions <- MCTransactions
INVARIANTS
    HeadIsBest
    OneTree
    StateIsReplay
    ServedBlocksLinked
    MempoolExcludesHead
