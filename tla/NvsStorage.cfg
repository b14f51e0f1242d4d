SPECIFICATION Spec
CONSTANTS
    Hash = {1, 2, 3, 4}
    Bucket = {1, 2}
    BucketOf <- MCBucketOf
    MaxSlot = 1
    State <- MCState
    StateOf <- MCStateOf
    None = None
    MaxCommands = 3
    MaxWaiting = 2
    MaxCrashes = 1
INVARIANTS
    BucketsInOrder
PROPERTY
    ImplementsStore
CHECK_DEADLOCK FALSE
