SPECIFICATION Spec
CONSTANTS
    BlockSize = 2
    InodeSize = 1
    InodesPerGroup = 4
    Direct = 2
    Entries = 2
    Junk = Junk
    Images <- MCImages
    Archives <- MCArchives
    Paths <- MCPaths
    WorkingDir <- MCWorkingDir
    Offsets = {0, 1, 3, 7, 12}
    Sizes = {1, 2, 5}
    CacheSize = 4
    StackDepth = 6
    MaxOps = 3
CHECK_DEADLOCK FALSE
INVARIANTS ResolveIsRight FileReadIsRight NodesStayAlive LayoutIsRight
