SPECIFICATION Spec
CONSTANT NumCPU = 2
CONSTANT Thread = {k, t1, t2}
CONSTANT Unborn = {}
CONSTANT MayBlock = {}
CONSTANT Kernel = k
CONSTANT DefaultSlice = 1
CONSTANT Idle = Idle
CONSTANT Null = Null
INVARIANT NeverOverran
