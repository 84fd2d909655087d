CONSTANTS
    k1 = k1
    k2 = k2
    k3 = k3
    v1 = v1
    None = None
    Keys <- MCKeys
    Vals <- MCVals
    HashOf <- MCHashOf
    ChunksFor <- MCChunksFor
    Buckets <- MCBuckets
    NChunks = 2
    EraseMode = 0
    AutoErase = TRUE
    EraseCount = 1
    SyncAge = 0
    MaxTime = 0
    Radios = {50}
    ItemLocked = TRUE
SPECIFICATION IterSpec
INVARIANTS
    HashSweepExact
    DirtyCovered
    LockIterationExact
    DirtyIterationCovers
SYMMETRY MCSymmetry
