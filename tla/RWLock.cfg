SPECIFICATION FairRWSpec
CONSTANT Thread = {t1, t2, t3, t4}
INVARIANTS Exclusion
PROPERTIES SomeoneGetsIn ImplementsRWLockSpec
