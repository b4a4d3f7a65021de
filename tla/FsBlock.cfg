SPECIFICATION FairSpec
CONSTANT Reader = {r1, r2}
CONSTANT Waker = {w1, w2}
CONSTANT SpuriousResume = TRUE
INVARIANTS BlockersAreSafe NoCircularWait NoLostWakeupOneCPU
PROPERTIES WokenReturns
