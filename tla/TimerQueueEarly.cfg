SPECIFICATION TimerSpec
CONSTANT Event = {e1, e2}
CONSTANT OnStack = {}
CONSTANT Request = {1, 2}
CONSTANT Frequency = 3
CONSTANT MaxPending = 2
INVARIANT NeverEarly
