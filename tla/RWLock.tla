------------------------------- MODULE RWLock -------------------------------
(***************************************************************************)
(* kstd::read_write_lock (Kernel/include/lock.h) on top of the spinlocks   *)
(* of Kernel/include/spinlock.h.  Each atomic instruction of the code is   *)
(* one action, so threads on any number of CPUs interleave between them.   *)
(* A spin on __sync_lock_test_and_set is an action that is not enabled     *)
(* while the lock word is 1.                                               *)
(***************************************************************************)
EXTENDS Naturals, FiniteSets

CONSTANT Thread     \* the kernel threads that share one read_write_lock

ASSUME RWAssumption == IsFiniteSet(Thread)

VARIABLES
    read_lock,      \* _read_lock
    write_lock,     \* _write_lock
    active_readers, \* _active_readers
    rwpc              \* where each thread is in the operations of the lock

rwVars == <<read_lock, write_lock, active_readers, rwpc>>

(***************************************************************************)
(* Program points.  "reading" and "writing" are the caller's critical      *)
(* sections; "idle" is a thread that is not using the lock.                *)
(***************************************************************************)
AcquireReadPC == {"read_enter", "read_count", "read_first", "read_exit"}
ReleaseReadPC == {"read_leave"}
RWPC == {"idle", "reading", "write_enter", "writing"}
        \union AcquireReadPC \union ReleaseReadPC

RWGoto(t, from, to) ==
    /\ rwpc[t] = from
    /\ rwpc' = [rwpc EXCEPT ![t] = to]

RWInit ==
    /\ read_lock = 0
    /\ write_lock = 0
    /\ active_readers = 0
    /\ rwpc = [t \in Thread |-> "idle"]

-----------------------------------------------------------------------------
(* acquire_read                                                            *)

CallAcquireRead(t) ==
    /\ RWGoto(t, "idle", "read_enter")
    /\ UNCHANGED <<read_lock, write_lock, active_readers>>

EnterReadLock(t) ==
    /\ read_lock = 0
    /\ RWGoto(t, "read_enter", "read_count")
    /\ read_lock' = 1
    /\ UNCHANGED <<write_lock, active_readers>>

\* Mutant: the count that makes a reader the first one is off by one.
CountReaderOffByOne(t) ==
    /\ RWGoto(t, "read_count", IF active_readers = 1 THEN "read_first" ELSE "read_exit")
    /\ active_readers' = active_readers + 1
    /\ UNCHANGED <<read_lock, write_lock>>

CountReader(t) ==
    /\ RWGoto(t, "read_count", IF active_readers = 0 THEN "read_first" ELSE "read_exit")
    /\ active_readers' = active_readers + 1
    /\ UNCHANGED <<read_lock, write_lock>>

FirstReaderTakesWriteLock(t) ==
    /\ write_lock = 0
    /\ RWGoto(t, "read_first", "read_exit")
    /\ write_lock' = 1
    /\ UNCHANGED <<read_lock, active_readers>>

\* Mutant: the reader leaves acquire_read without releasing _read_lock.
ExitReadLockKept(t) ==
    /\ RWGoto(t, "read_exit", "reading")
    /\ UNCHANGED <<read_lock, write_lock, active_readers>>

ExitReadLock(t) ==
    /\ RWGoto(t, "read_exit", "reading")
    /\ read_lock' = 0
    /\ UNCHANGED <<write_lock, active_readers>>

-----------------------------------------------------------------------------
(* release_read                                                            *)

\* Mutant: every reader that leaves releases the write lock.
UncountReaderAlways(t) ==
    /\ RWGoto(t, "reading", "read_leave")
    /\ active_readers' = active_readers - 1
    /\ UNCHANGED <<read_lock, write_lock>>

UncountReader(t) ==
    /\ RWGoto(t, "reading", IF active_readers = 1 THEN "read_leave" ELSE "idle")
    /\ active_readers' = active_readers - 1
    /\ UNCHANGED <<read_lock, write_lock>>

LastReaderFreesWriteLock(t) ==
    /\ RWGoto(t, "read_leave", "idle")
    /\ write_lock' = 0
    /\ UNCHANGED <<read_lock, active_readers>>

-----------------------------------------------------------------------------
(* acquire_write, try_acquire_write, release_write                         *)

CallAcquireWrite(t) ==
    /\ RWGoto(t, "idle", "write_enter")
    /\ UNCHANGED <<read_lock, write_lock, active_readers>>

AcquireWrite(t) ==
    /\ write_lock = 0
    /\ RWGoto(t, "write_enter", "writing")
    /\ write_lock' = 1
    /\ UNCHANGED <<read_lock, active_readers>>

\* The exchange stores 1 whether or not the attempt succeeds.
TryAcquireWrite(t) ==
    /\ RWGoto(t, "idle", IF write_lock = 0 THEN "writing" ELSE "idle")
    /\ write_lock' = 1
    /\ UNCHANGED <<read_lock, active_readers>>

ReleaseWrite(t) ==
    /\ RWGoto(t, "writing", "idle")
    /\ write_lock' = 0
    /\ UNCHANGED <<read_lock, active_readers>>

-----------------------------------------------------------------------------
\* The calls a thread may make, which nothing obliges it to make.
ThreadCall(t) == CallAcquireRead(t) \/ CallAcquireWrite(t) \/ TryAcquireWrite(t)

\* The steps of a thread inside an operation, or that ends a critical section.
ThreadStep(t) ==
    \/ EnterReadLock(t)
    \/ CountReader(t)
    \/ FirstReaderTakesWriteLock(t)
    \/ ExitReadLock(t)
    \/ UncountReader(t)
    \/ LastReaderFreesWriteLock(t)
    \/ AcquireWrite(t)
    \/ ReleaseWrite(t)

RWNext == \E t \in Thread : ThreadCall(t) \/ ThreadStep(t)

RWSpec == RWInit /\ [][RWNext]_rwVars

\* A thread that can run keeps running: the timer interrupt gives every
\* runnable thread its slice, and the lock words are spun on, never waited for.
FairRWSpec == RWSpec /\ \A t \in Thread : WF_rwVars(ThreadStep(t))

-----------------------------------------------------------------------------
RWTypeOK ==
    /\ read_lock \in {0, 1}
    /\ write_lock \in {0, 1}
    /\ active_readers \in Nat
    /\ rwpc \in [Thread -> RWPC]

At(S) == {t \in Thread : rwpc[t] \in S}

\* Threads past acquire_read's point of entry: the first reader once it owns
\* the write lock, a later one as soon as it is counted.
Readers == At({"read_exit", "reading"})
Writers == At({"writing"})

(***************************************************************************)
(* acquire_write "will block until they are finished": a writer is alone   *)
(* in the lock, whatever the interleaving of the two lock words and the    *)
(* reader count.                                                           *)
(***************************************************************************)
Exclusion ==
    \A w \in Writers : Readers = {} /\ Writers = {w}

(***************************************************************************)
(* _active_readers counts exactly the threads between the increment of     *)
(* acquire_read and the decrement of release_read.  The 0/1 tests on it    *)
(* that hand the write lock over depend on this.                           *)
(***************************************************************************)
CountIsExact ==
    active_readers = Cardinality(At({"read_first", "read_exit", "reading"}))

(***************************************************************************)
(* No wait on the two lock words is circular: whenever threads wait to     *)
(* enter, some thread gets in.  (Which one is up to the spinlocks: neither *)
(* readers nor writers are protected from starvation.)                     *)
(***************************************************************************)
SomeoneGetsIn ==
    At({"read_enter", "read_first", "write_enter"}) # {}
        ~> Readers \union Writers # {}

(***************************************************************************)
(* read_write_lock implements its promise.                                 *)
(***************************************************************************)
Abstract == INSTANCE RWLockSpec WITH readers <- Readers, writers <- Writers
ImplementsRWLockSpec == Abstract!Spec
=============================================================================
