SPECIFICATION FairTimerSpec
CONSTANT Event = {e1, e2, e3}
CONSTANT OnStack = {e1}
CONSTANT Request = {0, 1, 3}
CONSTANT Frequency = 2
CONSTANT MaxPending = 1
CHECK_DEADLOCK FALSE
INVARIANTS QueueIsExact
PROPERTIES FiresInOrder SleepEnds
