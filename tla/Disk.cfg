SPECIFICATION Spec
CONSTANTS
    Threads = {t1, t2}
    Slots = 1
    MaxSectors = 2
    SectorsPerBlock = 3
    SectorBytes = 512
    Start = 4
    End = 10
    BlockCount = 2
    Capacity = 1
    Requests <- MCRequests
    Budget <- MCBudget
    NoThread = NoThread
    Junk = Junk
CHECK_DEADLOCK FALSE
INVARIANTS ReadIsRight SemaphoreExact CacheExact
PROPERTY ReadEnds
