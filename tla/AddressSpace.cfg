SPECIFICATION FairSpec
CONSTANTS
    Size = {1, 2, 3}
    Hint = {0, 1, 2, 4, 5, 7}
    KernelBase = 9
    UserLimit = 8
    MaxRegions = 4
CHECK_DEADLOCK FALSE
INVARIANTS RegionsExact
PROPERTIES ImplementsAddressSpaceSpec RequestEnds
