SPECIFICATION Spec
CONSTANTS
    Frames = 22
    PhysBlockMax = 22
    Ratio = 17
    Dirs = 2
    TablesPerDir = 3
    PagesPerTable = 2
    Units = 2
    StackPages = 2
    ArgUnits = 3
    Argc = 1
    Envc = 1
    Strings = 18
    KernelBase = 14
    LinkerBase = 12
    Boots <- MCBoots
    FbPages = 1
    MmapSizes = {1, 3, 7}
    MmapHints = {0, 4, 9, 12}
    Touched = {2, 4, 9}
    MaxRegions = 5
    MaxHeap = 2
CHECK_DEADLOCK FALSE
INVARIANTS FramesOwnedOnce PagesFollowObjects MemoryIsRight
PROPERTY ProcessIsReclaimed
