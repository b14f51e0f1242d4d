SPECIFICATION Spec
CONSTANTS
    MaxU64 = 4
    ValidKeys = {1, 2}
    UnlockDelay = 5
    Account = {1, 2}
    Transactions <- MCTransactions
    SlashProofs <- MCSlashProofs
    StartState <- MCStartState
    MaxBlockTxs = 2
    MaxBlockProofs = 1
    MaxSlot = 3
    MaxApplied = 4
INVARIANTS
    NoReplay
    SequencesUnbroken
    SelectionProportional
PROPERTIES
    FundsFollowTransfers
    SlashIsTotal
