SPECIFICATION FairSpec
CONSTANT NumCPU = 2
CONSTANT Thread = {k, t1, t2}
CONSTANT Unborn = {t2}
CONSTANT MayBlock = {k}
CONSTANT Kernel = k
CONSTANT DefaultSlice = 1
CONSTANT Idle = Idle
CONSTANT Null = Null
CHECK_DEADLOCK FALSE
INVARIANTS QueuesAreExact
PROPERTIES EveryoneGetsOn
