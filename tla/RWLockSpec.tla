----------------------------- MODULE RWLockSpec -----------------------------
(***************************************************************************)
(* What kstd::read_write_lock (Kernel/include/lock.h) promises its users:  *)
(* entering and leaving the lock are atomic, readers share it with each    *)
(* other and a writer shares it with nobody.                               *)
(***************************************************************************)
CONSTANT Thread

VARIABLES
    readers,    \* threads between the end of acquire_read and release_read
    writers     \* threads between the end of acquire_write and release_write

vars == <<readers, writers>>

Init ==
    /\ readers = {}
    /\ writers = {}

EnterRead(t) ==
    /\ t \notin readers
    /\ writers = {}
    /\ readers' = readers \union {t}
    /\ UNCHANGED writers

ExitRead(t) ==
    /\ t \in readers
    /\ readers' = readers \ {t}
    /\ UNCHANGED writers

EnterWrite(t) ==
    /\ readers = {}
    /\ writers = {}
    /\ writers' = {t}
    /\ UNCHANGED readers

ExitWrite(t) ==
    /\ t \in writers
    /\ writers' = writers \ {t}
    /\ UNCHANGED readers

Next ==
    \E t \in Thread :
        EnterRead(t) \/ ExitRead(t) \/ EnterWrite(t) \/ ExitWrite(t)

Spec == Init /\ [][Next]_vars
=============================================================================
