SPECIFICATION ChunkSpec
CONSTANTS
    Limits <- MCLimits
    Batches <- MCBatches
    MaxLen = 5
    Sizes = {1, 3, 5, 6}
CHECK_DEADLOCK FALSE
INVARIANTS NothingDropped WithinLimits FewestChunks
