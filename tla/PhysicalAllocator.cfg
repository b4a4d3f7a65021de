SPECIFICATION FairSpec
CONSTANTS
    Thread = {t1, t2}
    ChunkBits = 2
    NumChunks = 6
    Usable = {2, 4, 5}
    MaxOut = 2
    MaxLost = 1
CHECK_DEADLOCK FALSE
INVARIANTS NoDoubleAllocation MarksAndSearchExact
PROPERTIES LockIsReleased
