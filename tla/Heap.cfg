CONSTANTS
  Threads = {t1, t2}
  NoThread = NoThread
  HeaderSize = 1
  MinExp = 1
  MaxExp = 6
  MaxComplete = 1
  PageSize = 10
  PageCount = 2
  TableSize = 2
  Tables = 2
  Sizes <- MCSizes
  PageRequests = {1}
SPECIFICATION Spec
CHECK_DEADLOCK FALSE
INVARIANTS HeapIsTiled FreeListsExact CompletePagesExact
SYMMETRY MCSymmetry
