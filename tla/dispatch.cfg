SPECIFICATION Spec
CONSTANTS
    Copies = {m1, m2}
    First = m1
    Chunks <- MCChunks
    MaxAttempts = 1
    MaxRetries = 1
    MaxTransients = 2
    MaxCrashes = 1
CHECK_DEADLOCK FALSE
INVARIANTS TypeOK NothingLost
PROPERTY ImplementsContract
