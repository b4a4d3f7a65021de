SPECIFICATION Spec
CONSTANT NumCPU = 1
CONSTANT Thread = {k, t1, t2}
CONSTANT Unborn = {}
CONSTANT MayBlock = {k, t1, t2}
CONSTANT Kernel = k
CONSTANT DefaultSlice = 1
CONSTANT Idle = Idle
CONSTANT Null = Null
PROPERTY BlockedNeverScheduled
