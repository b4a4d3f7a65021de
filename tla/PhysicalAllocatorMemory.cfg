SPECIFICATION Spec
CONSTANTS
    Thread = {t1}
    ChunkBits = 2
    NumChunks = 6
    Usable = {1, 2, 7}
    MaxOut = 3
    MaxLost = 1
CHECK_DEADLOCK FALSE
INVARIANT OutOfMemoryIsReal
