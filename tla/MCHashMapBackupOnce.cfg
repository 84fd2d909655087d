CONSTANTS
    k1 = k1
    k2 = k2
    k3 = k3
    v1 = v1
    v2 = v2
    None = None
    Keys <- MCKeys
    Vals <- MCVals
    HashOf <- MCHashOf
    ChunksFor <- MCChunksFor
    Buckets <- MCBuckets
    NChunks = 2
    EraseMode = 0
    AutoErase = TRUE
    EraseCount = 1
    SyncAge = 1
    MaxTime = 1
    Radios = {50}
SPECIFICATION Spec
INVARIANT
    BackupOnce
SYMMETRY MCSymmetry
