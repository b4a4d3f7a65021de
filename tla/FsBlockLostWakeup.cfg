SPECIFICATION Spec
CONSTANT Reader = {r1}
CONSTANT Waker = {w1}
CONSTANT SpuriousResume = FALSE
INVARIANT NoLostWakeup
