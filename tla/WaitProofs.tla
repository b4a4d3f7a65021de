----------------------------- MODULE WaitProofs -----------------------------
(***************************************************************************)
(* Proofs about what threads wait with: the blockers of a node (FsBlock),  *)
(* the queue that sleepers are woken from (TimerQueue) and                 *)
(* kstd::read_write_lock (RWLock).                                         *)
(***************************************************************************)
EXTENDS FsBlock, TimerQueue, RWLock, TLAPS

\* A leaf is proved by Zenon, unless it cites another prover.
USE Zenon

(***************************************************************************)
(* FsBlock, for any number of readers and wakers of a node, on one CPU and *)
(* on many: the node lists exactly the live blockers, unblock() never      *)
(* works on a blocker that is gone, and a waker that spins for a blocker's *)
(* lock spins for a reader that can move on.  On one CPU no wake-up is     *)
(* lost.                                                                   *)
(***************************************************************************)

\* Between lock() and unlock() of the node.
ReaderHasNode(r) == pc[r] \in {"ctor_add", "dtor_remove"}
WakerHasNode(w) == wpc[w] # "idle"

\* Between the acquisition and the release of a blocker's _lock.
ReaderHasLock(r) ==
    pc[r] \in {"ctor_node", "ctor_add", "ctor_unlock",
               "block_test", "block_skip", "block_commit",
               "dtor_try", "dtor_remove", "dtor_unlock"}
WakerHasLock(w) == wpc[w] \in {"remove", "release"}

\* The node's lock has one owner.
NodeInv ==
    /\ \A r \in Reader : ReaderHasNode(r) => node_lock = 1
    /\ \A w \in Waker : WakerHasNode(w) => node_lock = 1
    /\ \A r, q \in Reader : ReaderHasNode(r) /\ ReaderHasNode(q) => r = q
    /\ \A v, w \in Waker : WakerHasNode(v) /\ WakerHasNode(w) => v = w
    /\ \A r \in Reader, w \in Waker : ~(ReaderHasNode(r) /\ WakerHasNode(w))

\* A blocker's lock is taken exactly when its reader or a waker has it, and
\* never by both.
LockInv ==
    /\ \A r \in Reader : ReaderHasLock(r) => lock[r] = 1
    /\ \A w \in Waker : WakerHasLock(w) => lock[target[w]] = 1 /\ ~ReaderHasLock(target[w])
    /\ \A r \in Reader : lock[r] = 1 =>
           ReaderHasLock(r) \/ \E w \in Waker : WakerHasLock(w) /\ target[w] = r

\* What a waker knows of its target, and a reader of its own blocker, by the
\* locks they hold.
ListInv ==
    /\ ListIsExact
    /\ \A r \in Reader : pc[r] \in {"ctor_node", "ctor_add"} => ~removed[r]
    /\ \A w \in Waker : wpc[w] \in {"wait_lock", "remove"} => target[w] \in blocked
    /\ \A w \in Waker : wpc[w] = "release" => pc[target[w]] # "idle"

\* _should_block is cleared before the blocker is taken off the list; with one
\* CPU nothing happens between the test of it and the switch to another thread.
WakeInv ==
    /\ \A w \in Waker : Calling(w) => ~should_block[target[w]]
    /\ \A r \in Reader : removed[r] => ~should_block[r]
    /\ \A r \in Reader : pc[r] \in {"block_commit", "block_park", "parked"} => has_thread[r]
    /\ ~smp => \A r \in Reader :
           /\ InterruptsOff(r) => should_block[r]
           /\ removed[r] /\ pc[r] = "parked" => state[r] = "running"

IInv == TypeOK /\ NodeInv /\ LockInv /\ ListInv /\ WakeInv

-----------------------------------------------------------------------------
\* Before anybody reads or wakes.
LEMMA InitIInv == Init => IInv
  BY SMT DEF Init, IInv, TypeOK, PC, WPC, NodeInv, ReaderHasNode, WakerHasNode, LockInv,
     ReaderHasLock, WakerHasLock, ListInv, ListIsExact, OnList, WakeInv, Calling, InterruptsOff

\* Every step keeps the types.
LEMMA NextTypeOK == ASSUME TypeOK, [Next]_vars PROVE TypeOK'
  <1> USE DEF TypeOK, PC, WPC
  <1>1. CASE UNCHANGED vars
    BY <1>1 DEF vars, blocker_vars
  <1>2. ASSUME NEW r \in Reader, CanRun(r), Construct(r) \/ ReaderStep(r) PROVE TypeOK'
    <2> USE DEF Goto, blocker_vars
    <2>1. CASE Construct(r)  BY <1>2, <2>1 DEF Construct
    <2>2. CASE CtorLockNode(r)  BY <1>2, <2>2 DEF CtorLockNode
    <2>3. CASE CtorAdd(r)  BY <1>2, <2>3 DEF CtorAdd
    <2>4. CASE CtorUnlock(r)  BY <1>2, <2>4 DEF CtorUnlock
    <2>5. CASE GetLock(r)  BY <1>2, <2>5 DEF GetLock
    <2>6. CASE TestShouldBlock(r)  BY <1>2, <2>6 DEF TestShouldBlock
    <2>7. CASE SkipBlock(r)  BY <1>2, <2>7 DEF SkipBlock
    <2>8. CASE CommitBlock(r)  BY <1>2, <2>8 DEF CommitBlock
    <2>9. CASE Park(r)  BY <1>2, <2>9 DEF Park
    <2>10. CASE Resume(r)  BY <1>2, <2>10 DEF Resume
    <2>11. CASE DtorLock(r)  BY <1>2, <2>11 DEF DtorLock
    <2>12. CASE DtorTryLockNode(r)  BY <1>2, <2>12, SMT DEF DtorTryLockNode
    <2>13. CASE DtorRemove(r)  BY <1>2, <2>13 DEF DtorRemove
    <2>14. CASE DtorUnlock(r)  BY <1>2, <2>14 DEF DtorUnlock
    <2> QED
      BY <1>2, <2>1, <2>2, <2>3, <2>4, <2>5, <2>6, <2>7, <2>8, <2>9, <2>10,
         <2>11, <2>12, <2>13, <2>14 DEF ReaderStep
  <1>3. ASSUME NEW w \in Waker, CanRun(w), WakeLockNode(w) \/ WakerStep(w) PROVE TypeOK'
    <2> USE DEF WGoto, blocker_vars
    <2>1. CASE WakeLockNode(w)  BY <1>3, <2>1 DEF WakeLockNode
    <2>2. CASE WakeUnlockNode(w)  BY <1>3, <2>2 DEF WakeUnlockNode
    <2>3. CASE UnblockFlag(w)  BY <1>3, <2>3, SMT DEF UnblockFlag
    <2>4. CASE UnblockLock(w)  BY <1>3, <2>4 DEF UnblockLock
    <2>5. CASE UnblockRemove(w)  BY <1>3, <2>5 DEF UnblockRemove
    <2>6. CASE UnblockUnlock(w)  BY <1>3, <2>6 DEF UnblockUnlock
    <2> QED  BY <1>3, <2>1, <2>2, <2>3, <2>4, <2>5, <2>6 DEF WakerStep
  <1> QED  BY <1>1, <1>2, <1>3 DEF Next

\* Every step keeps the node's lock with its one owner.
LEMMA NextNodeInv == ASSUME TypeOK, NodeInv, [Next]_vars PROVE NodeInv'
  <1> USE DEF TypeOK, PC, WPC, NodeInv, ReaderHasNode, WakerHasNode
  <1>1. CASE UNCHANGED vars
    BY <1>1 DEF vars, blocker_vars
  <1>2. ASSUME NEW r \in Reader, CanRun(r), Construct(r) \/ ReaderStep(r) PROVE NodeInv'
    <2> USE DEF Goto, blocker_vars
    <2>1. CASE Construct(r)  BY <1>2, <2>1, SMT DEF Construct
    <2>2. CASE CtorLockNode(r)  BY <1>2, <2>2, SMT DEF CtorLockNode
    <2>3. CASE CtorAdd(r)  BY <1>2, <2>3, SMT DEF CtorAdd
    <2>4. CASE CtorUnlock(r)  BY <1>2, <2>4, SMT DEF CtorUnlock
    <2>5. CASE GetLock(r)  BY <1>2, <2>5, SMT DEF GetLock
    <2>6. CASE TestShouldBlock(r)  BY <1>2, <2>6, SMT DEF TestShouldBlock
    <2>7. CASE SkipBlock(r)  BY <1>2, <2>7, SMT DEF SkipBlock
    <2>8. CASE CommitBlock(r)  BY <1>2, <2>8, SMT DEF CommitBlock
    <2>9. CASE Park(r)  BY <1>2, <2>9, SMT DEF Park
    <2>10. CASE Resume(r)  BY <1>2, <2>10, SMT DEF Resume
    <2>11. CASE DtorLock(r)  BY <1>2, <2>11, SMT DEF DtorLock
    <2>12. CASE DtorTryLockNode(r)  BY <1>2, <2>12, SMT DEF DtorTryLockNode
    <2>13. CASE DtorRemove(r)  BY <1>2, <2>13, SMT DEF DtorRemove
    <2>14. CASE DtorUnlock(r)  BY <1>2, <2>14, SMT DEF DtorUnlock
    <2> QED
      BY <1>2, <2>1, <2>2, <2>3, <2>4, <2>5, <2>6, <2>7, <2>8, <2>9, <2>10,
         <2>11, <2>12, <2>13, <2>14 DEF ReaderStep
  <1>3. ASSUME NEW w \in Waker, CanRun(w), WakeLockNode(w) \/ WakerStep(w) PROVE NodeInv'
    <2> USE DEF WGoto, blocker_vars
    <2>1. CASE WakeLockNode(w)  BY <1>3, <2>1, SMT DEF WakeLockNode
    <2>2. CASE WakeUnlockNode(w)  BY <1>3, <2>2 DEF WakeUnlockNode
    <2>3. CASE UnblockFlag(w)  BY <1>3, <2>3, SMT DEF UnblockFlag
    <2>4. CASE UnblockLock(w)  BY <1>3, <2>4 DEF UnblockLock
    <2>5. CASE UnblockRemove(w)  BY <1>3, <2>5, SMT DEF UnblockRemove
    <2>6. CASE UnblockUnlock(w)  BY <1>3, <2>6, SMT DEF UnblockUnlock
    <2> QED  BY <1>3, <2>1, <2>2, <2>3, <2>4, <2>5, <2>6 DEF WakerStep
  <1> QED  BY <1>1, <1>2, <1>3 DEF Next

\* Every step keeps each blocker's lock with its one owner.
LEMMA NextLockInv == ASSUME TypeOK, NodeInv, LockInv, ListInv, [Next]_vars PROVE LockInv'
  <1> USE DEF TypeOK, PC, WPC, NodeInv, WakerHasNode, LockInv, ReaderHasLock,
              WakerHasLock, ListInv, ListIsExact, OnList
  <1>1. CASE UNCHANGED vars
    BY <1>1, SMT DEF vars, blocker_vars
  <1>2. ASSUME NEW r \in Reader, CanRun(r), Construct(r) \/ ReaderStep(r) PROVE LockInv'
    <2> USE DEF Goto, blocker_vars
    <2>1. CASE Construct(r)  BY <1>2, <2>1, SMT DEF Construct
    <2>2. CASE CtorLockNode(r)  BY <1>2, <2>2, SMT DEF CtorLockNode
    <2>3. CASE CtorAdd(r)  BY <1>2, <2>3, SMT DEF CtorAdd
    <2>4. CASE CtorUnlock(r)  BY <1>2, <2>4, SMT DEF CtorUnlock
    <2>5. CASE GetLock(r)  BY <1>2, <2>5, SMT DEF GetLock
    <2>6. CASE TestShouldBlock(r)  BY <1>2, <2>6, SMT DEF TestShouldBlock
    <2>7. CASE SkipBlock(r)  BY <1>2, <2>7, SMT DEF SkipBlock
    <2>8. CASE CommitBlock(r)  BY <1>2, <2>8, SMT DEF CommitBlock
    <2>9. CASE Park(r)  BY <1>2, <2>9, SMT DEF Park
    <2>10. CASE Resume(r)  BY <1>2, <2>10, SMT DEF Resume
    <2>11. CASE DtorLock(r)  BY <1>2, <2>11, SMT DEF DtorLock
    <2>12. CASE DtorTryLockNode(r)  BY <1>2, <2>12, SMT DEF DtorTryLockNode
    <2>13. CASE DtorRemove(r)  BY <1>2, <2>13, SMT DEF DtorRemove
    <2>14. CASE DtorUnlock(r)  BY <1>2, <2>14, SMT DEF DtorUnlock
    <2> QED
      BY <1>2, <2>1, <2>2, <2>3, <2>4, <2>5, <2>6, <2>7, <2>8, <2>9, <2>10,
         <2>11, <2>12, <2>13, <2>14, Zenon DEF ReaderStep
  <1>3. ASSUME NEW w \in Waker, CanRun(w), WakeLockNode(w) \/ WakerStep(w) PROVE LockInv'
    <2> USE DEF WGoto, blocker_vars
    <2>1. CASE WakeLockNode(w)  BY <1>3, <2>1, SMT DEF WakeLockNode
    <2>2. CASE WakeUnlockNode(w)  BY <1>3, <2>2, SMT DEF WakeUnlockNode
    <2>3. CASE UnblockFlag(w)  BY <1>3, <2>3, SMT DEF UnblockFlag
    <2>4. CASE UnblockLock(w)  BY <1>3, <2>4, SMT DEF UnblockLock
    <2>5. CASE UnblockRemove(w)  BY <1>3, <2>5, SMT DEF UnblockRemove
    <2>6. CASE UnblockUnlock(w)  BY <1>3, <2>6, SMT DEF UnblockUnlock
    <2> QED  BY <1>3, <2>1, <2>2, <2>3, <2>4, <2>5, <2>6 DEF WakerStep
  <1> QED  BY <1>1, <1>2, <1>3 DEF Next

\* Every step keeps the list exact and the wakers' pointers into it.
LEMMA NextListInv == ASSUME TypeOK, NodeInv, LockInv, ListInv, [Next]_vars PROVE ListInv'
  <1> USE DEF TypeOK, PC, WPC, NodeInv, ReaderHasNode, WakerHasNode, LockInv,
              ReaderHasLock, WakerHasLock, ListInv, ListIsExact, OnList
  <1>1. CASE UNCHANGED vars
    BY <1>1, SMT DEF vars, blocker_vars
  <1>2. ASSUME NEW r \in Reader, CanRun(r), Construct(r) \/ ReaderStep(r) PROVE ListInv'
    <2> USE DEF Goto, blocker_vars
    <2>1. CASE Construct(r)  BY <1>2, <2>1, SMT DEF Construct
    <2>2. CASE CtorLockNode(r)  BY <1>2, <2>2, SMT DEF CtorLockNode
    <2>3. CASE CtorAdd(r)  BY <1>2, <2>3, SMT DEF CtorAdd
    <2>4. CASE CtorUnlock(r)  BY <1>2, <2>4, SMT DEF CtorUnlock
    <2>5. CASE GetLock(r)  BY <1>2, <2>5, SMT DEF GetLock
    <2>6. CASE TestShouldBlock(r)  BY <1>2, <2>6, SMT DEF TestShouldBlock
    <2>7. CASE SkipBlock(r)  BY <1>2, <2>7, SMT DEF SkipBlock
    <2>8. CASE CommitBlock(r)  BY <1>2, <2>8, SMT DEF CommitBlock
    <2>9. CASE Park(r)  BY <1>2, <2>9, SMT DEF Park
    <2>10. CASE Resume(r)  BY <1>2, <2>10, SMT DEF Resume
    <2>11. CASE DtorLock(r)  BY <1>2, <2>11, SMT DEF DtorLock
    <2>12. CASE DtorTryLockNode(r)  BY <1>2, <2>12, SMT DEF DtorTryLockNode
    <2>13. CASE DtorRemove(r)  BY <1>2, <2>13, SMT DEF DtorRemove
    <2>14. CASE DtorUnlock(r)  BY <1>2, <2>14, SMT DEF DtorUnlock
    <2> QED
      BY <1>2, <2>1, <2>2, <2>3, <2>4, <2>5, <2>6, <2>7, <2>8, <2>9, <2>10,
         <2>11, <2>12, <2>13, <2>14, Zenon DEF ReaderStep
  <1>3. ASSUME NEW w \in Waker, CanRun(w), WakeLockNode(w) \/ WakerStep(w) PROVE ListInv'
    <2> USE DEF WGoto, blocker_vars
    <2>1. CASE WakeLockNode(w)  BY <1>3, <2>1, SMT DEF WakeLockNode
    <2>2. CASE WakeUnlockNode(w)  BY <1>3, <2>2, SMT DEF WakeUnlockNode
    <2>3. CASE UnblockFlag(w)  BY <1>3, <2>3, SMT DEF UnblockFlag
    <2>4. CASE UnblockLock(w)  BY <1>3, <2>4, SMT DEF UnblockLock
    <2>5. CASE UnblockRemove(w)  BY <1>3, <2>5, SMT DEF UnblockRemove
    <2>6. CASE UnblockUnlock(w)  BY <1>3, <2>6, SMT DEF UnblockUnlock
    <2> QED  BY <1>3, <2>1, <2>2, <2>3, <2>4, <2>5, <2>6 DEF WakerStep
  <1> QED  BY <1>1, <1>2, <1>3 DEF Next

\* Every step keeps what no reader may sleep through.
LEMMA NextWakeInv == ASSUME TypeOK, NodeInv, LockInv, ListInv, WakeInv, [Next]_vars PROVE WakeInv'
  <1> USE ThreadAssumption
      DEF TypeOK, PC, WPC, NodeInv, WakerHasNode, LockInv, ReaderHasLock, WakerHasLock,
          ListInv, ListIsExact, OnList, WakeInv, Calling, InterruptsOff, CanRun
  <1>1. CASE UNCHANGED vars
    BY <1>1 DEF vars, blocker_vars
  <1>2. ASSUME NEW r \in Reader, CanRun(r), Construct(r) \/ ReaderStep(r) PROVE WakeInv'
    <2> USE DEF Goto, blocker_vars
    <2>1. CASE Construct(r)  BY <1>2, <2>1, SMT DEF Construct
    <2>2. CASE CtorLockNode(r)  BY <1>2, <2>2, SMT DEF CtorLockNode
    <2>3. CASE CtorAdd(r)  BY <1>2, <2>3, SMT DEF CtorAdd
    <2>4. CASE CtorUnlock(r)  BY <1>2, <2>4, SMT DEF CtorUnlock
    <2>5. CASE GetLock(r)  BY <1>2, <2>5, SMT DEF GetLock
    <2>6. CASE TestShouldBlock(r)  BY <1>2, <2>6, SMT DEF TestShouldBlock
    <2>7. CASE SkipBlock(r)  BY <1>2, <2>7, SMT DEF SkipBlock
    <2>8. CASE CommitBlock(r)  BY <1>2, <2>8, SMT DEF CommitBlock
    <2>9. CASE Park(r)  BY <1>2, <2>9, SMT DEF Park
    <2>10. CASE Resume(r)  BY <1>2, <2>10, SMT DEF Resume
    <2>11. CASE DtorLock(r)  BY <1>2, <2>11, SMT DEF DtorLock
    <2>12. CASE DtorTryLockNode(r)  BY <1>2, <2>12, SMT DEF DtorTryLockNode
    <2>13. CASE DtorRemove(r)  BY <1>2, <2>13, SMT DEF DtorRemove
    <2>14. CASE DtorUnlock(r)  BY <1>2, <2>14, SMT DEF DtorUnlock
    <2> QED
      BY <1>2, <2>1, <2>2, <2>3, <2>4, <2>5, <2>6, <2>7, <2>8, <2>9, <2>10,
         <2>11, <2>12, <2>13, <2>14, Zenon DEF ReaderStep
  <1>3. ASSUME NEW w \in Waker, CanRun(w), WakeLockNode(w) \/ WakerStep(w) PROVE WakeInv'
    <2> USE DEF WGoto, blocker_vars
    <2>1. CASE WakeLockNode(w)  BY <1>3, <2>1, SMT DEF WakeLockNode
    <2>2. CASE WakeUnlockNode(w)  BY <1>3, <2>2, SMT DEF WakeUnlockNode
    <2>3. CASE UnblockFlag(w)  BY <1>3, <2>3, SMT DEF UnblockFlag
    <2>4. CASE UnblockLock(w)  BY <1>3, <2>4, SMT DEF UnblockLock
    <2>5. CASE UnblockRemove(w)  BY <1>3, <2>5, SMT DEF UnblockRemove
    <2>6. CASE UnblockUnlock(w)  BY <1>3, <2>6, SMT DEF UnblockUnlock
    <2> QED  BY <1>3, <2>1, <2>2, <2>3, <2>4, <2>5, <2>6 DEF WakerStep
  <1> QED  BY <1>1, <1>2, <1>3 DEF Next

-----------------------------------------------------------------------------
\* The locks, the list and the flags of the blockers agree in every reachable
\* state, whatever the number of readers, wakers and CPUs.
THEOREM IInvHolds == Spec => []IInv
  <1>1. IInv /\ [Next]_vars => IInv'
    BY NextTypeOK, NextNodeInv, NextLockInv, NextListInv, NextWakeInv DEF IInv
  <1> QED
    BY InitIInv, <1>1, PTL DEF Spec

\* fs_blocker's constructor, unblock() and destructor: the node lists exactly the
\* blockers that live and were not removed, and a waker's blocker is alive.
THEOREM SafeBlockers == Spec => []BlockersAreSafe
  <1>1. IInv => BlockersAreSafe
    <2> SUFFICES ASSUME IInv PROVE TargetAlive
      BY DEF IInv, ListInv, BlockersAreSafe
    <2> USE DEF IInv, TypeOK
    <2> SUFFICES ASSUME NEW w \in Waker, Calling(w)
                 PROVE  pc[target[w]] \notin {"idle", "ctor_node"}
      BY DEF TargetAlive
    <2>1. CASE wpc[w] \in {"wait_lock", "remove"}
      BY <2>1 DEF ListInv, ListIsExact, OnList
    <2>2. CASE wpc[w] = "release"
      BY <2>2 DEF ListInv, LockInv, WakerHasLock, ReaderHasLock
    <2> QED
      BY <2>1, <2>2 DEF Calling
  <1> QED
    BY IInvHolds, <1>1, PTL

\* thread::block and thread::unblock on one CPU: a thread whose blocker was
\* unblocked is never left blocked.
THEOREM NoWakeupLostOnOneCPU == Spec => []NoLostWakeupOneCPU
  <1>1. IInv => NoLostWakeupOneCPU
    BY DEF IInv, WakeInv, NoLostWakeupOneCPU, NoLostWakeup
  <1> QED
    BY IInvHolds, <1>1, PTL

\* The places of the reader from which it goes on whatever the locks are: the
\* actions there have no guard but the program counter.
Unguarded == {"ctor_unlock", "block_test", "block_skip", "block_commit",
              "dtor_try", "dtor_unlock"}

\* The node and a blocker are locked in opposite orders, but never in a circle:
\* a waker that holds the node and spins for _lock waits for a reader that needs
\* neither lock to go on.
WaitsForAMover ==
    \A w \in Waker : wpc[w] = "wait_lock" /\ lock[target[w]] = 1 => pc[target[w]] \in Unguarded

\* Because the destructor only tries the node's lock, and gives _lock back if it
\* fails, unblock() can always get _lock in the end.
THEOREM LockOrderIsSafe == Spec => []WaitsForAMover
  <1>1. IInv => WaitsForAMover
    <2> SUFFICES ASSUME IInv, NEW w \in Waker, wpc[w] = "wait_lock", lock[target[w]] = 1
                 PROVE  pc[target[w]] \in Unguarded
      BY DEF WaitsForAMover
    <2>1. target[w] \in Reader /\ target[w] \in blocked
      BY DEF IInv, TypeOK, ListInv
    <2>2. ~\E v \in Waker : WakerHasLock(v)
      BY DEF IInv, NodeInv, WakerHasNode, WakerHasLock
    <2>3. ReaderHasLock(target[w])
      BY <2>1, <2>2 DEF IInv, LockInv
    <2>4. pc[target[w]] \notin {"ctor_node", "ctor_add", "dtor_remove"}
      BY <2>1 DEF IInv, NodeInv, ReaderHasNode, WakerHasNode, ListInv, ListIsExact, OnList
    <2> QED
      BY <2>3, <2>4 DEF ReaderHasLock, Unguarded
  <1> QED
    BY IInvHolds, <1>1, PTL

-----------------------------------------------------------------------------
(***************************************************************************)
(* TimerQueue, for any events, any requests, zero ticks included, and any  *)
(* number of ticks charged late.  The counters add up only because the     *)
(* queue has one owner: sleep_list_lock is part of the invariant.          *)
(***************************************************************************)

Entry == [ev : Event, ticks : Nat]

\* What event e still has to wait, by the queue's account.
Wait(e) == left[e] + pending_ticks + drift[e]

\* What entry i of the queue still has to wait, and nothing in front of the first.
Due(i) == IF i = 0 THEN 0 ELSE Wait(sleeping[i].ev)

\* Each counter is the offset from the event in front, and only an event that
\* asked for nothing has nothing to wait for.
OffsetInv ==
    /\ \A i \in 1..Len(sleeping) : sleeping[i].ticks = Due(i) - Due(i - 1)
    /\ \A i \in 1..Len(sleeping) : Due(i) = 0 => asked[sleeping[i].ev] = 0

\* No event is queued twice, none before it is constructed and none after it was
\* called back.
QueueInv ==
    /\ \A i, j \in 1..Len(sleeping) : sleeping[i].ev = sleeping[j].ev => i = j
    /\ \A i \in 1..Len(sleeping) : stage[sleeping[i].ev] \in {"live", "dtor_remove", "gone"}
    /\ \A i \in 1..Len(sleeping) : sleeping[i].ev \notin called
    /\ \A e \in Event : stage[e] \in {"ctor_lock", "ctor_insert"} => left[e] = asked[e]
    /\ \A e \in Event : stage[e] \in {"new", "ctor_lock", "ctor_insert"} => e \notin called

HasQueue(e) == stage[e] \in {"ctor_insert", "dtor_remove"}

\* sleep_list_lock has one owner, a thread or the handler.
QueueLockInv ==
    /\ \A e \in Event : HasQueue(e) => sleep_list_lock = 1 /\ ~handling
    /\ \A e, f \in Event : HasQueue(e) /\ HasQueue(f) => e = f
    /\ handling => sleep_list_lock = 1
    /\ ~handling => pending_ticks <= MaxPending

TimerInv == TimerTypeOK /\ OffsetInv /\ QueueInv /\ QueueLockInv

-----------------------------------------------------------------------------
\* A sequence and its length.
LEMMA LenFacts ==
  ASSUME NEW S, NEW s \in Seq(S)
  PROVE  Len(s) \in Nat /\ DOMAIN s = 1..Len(s) /\ \A i \in 1..Len(s) : s[i] \in S
  BY SMT

\* A function from 1..n is a sequence of length n.
LEMMA FunctionIsSeq ==
  ASSUME NEW S, NEW n \in Nat, NEW f \in [1..n -> S]
  PROVE  f \in Seq(S) /\ Len(f) = n
  BY SMT

\* The entries of the queue.
LEMMA EntryFacts ==
  ASSUME TimerTypeOK
  PROVE  /\ Len(sleeping) \in Nat
         /\ \A i \in 1..Len(sleeping) :
              /\ sleeping[i] \in Entry /\ sleeping[i].ev \in Event /\ sleeping[i].ticks \in Nat
              /\ Wait(sleeping[i].ev) \in Int
  <1>1. /\ sleeping \in Seq(Entry) /\ left \in [Event -> Int] /\ drift \in [Event -> Int]
        /\ pending_ticks \in 0..MaxPending + 1
    BY DEF TimerTypeOK, Entry
  <1>2. Len(sleeping) \in Nat /\ \A i \in 1..Len(sleeping) : sleeping[i] \in Entry
    BY <1>1, LenFacts
  <1>3. \A e \in Event : Wait(e) \in Int
    BY <1>1, SMT DEF Wait
  <1> QED
    BY <1>1, <1>2, <1>3 DEF Entry

INSTANCE WellFoundedInduction
INSTANCE NaturalsInduction

\* A set of natural numbers has a least element.
LEMMA LeastNat ==
  ASSUME NEW S \in SUBSET Nat, S # {}
  PROVE  \E x \in S : \A y \in S : x <= y
  <1>1. IsWellFoundedOn({ss \in Nat \X Nat : ss[1] < ss[2]}, Nat)
    BY NatLessThanWellFounded DEF OpToRel
  <1>2. PICK x \in S : \A y \in S : ~(<<y, x>> \in {ss \in Nat \X Nat : ss[1] < ss[2]})
    BY <1>1, WFMin
  <1>3. \A y \in S : ~(y < x)
    BY <1>2
  <1> QED
    BY <1>3, SMT

\* Induction from m to n over the members of a set.
LEMMA Induction ==
  ASSUME NEW m \in Nat, NEW n \in Nat, NEW T, m \in T, \A k \in m..n - 1 : k \in T => k + 1 \in T
  PROVE  \A k \in m..n : k \in T
  <1> SUFFICES ASSUME NEW z \in m..n, z \notin T PROVE FALSE
    OBVIOUS
  <1> DEFINE Bad == {k \in Nat : k \in m..n /\ k \notin T}
  <1>1. \A k : k \in Bad <=> k \in Nat /\ k \in m..n /\ k \notin T
    OBVIOUS
  <1>2. Bad \in SUBSET Nat
    OBVIOUS
  <1> HIDE DEF Bad
  <1>3. z \in Bad
    BY <1>1, SMT
  <1>4. PICK k \in Bad : \A l \in Bad : k <= l
    BY <1>2, <1>3, LeastNat
  <1>5. k \in Nat /\ k \in m..n /\ k \notin T /\ k # m
    BY <1>1, <1>4
  <1>6. k - 1 \in Nat /\ k - 1 \in m..n /\ k - 1 \in m..n - 1 /\ (k - 1) + 1 = k /\ ~(k <= k - 1)
    BY <1>5, SMT
  <1>7. k - 1 \in T
    BY <1>1, <1>4, <1>6
  <1> QED
    BY <1>5, <1>6, <1>7

\* What is left of n ticks is n less the sum w of the counters passed.
LEMMA RestFacts ==
  ASSUME NEW q, Len(q) \in Nat, NEW n \in Int, NEW w \in [0..Len(q) -> Int], w[0] = 0,
         \A i \in 1..Len(q) : q[i].ticks = w[i] - w[i - 1]
  PROVE  \A k \in 1..Len(q) + 1 : Rest(q, n)[k] = n - w[k - 1]
  <1> DEFINE D == 1..Len(q) + 1
             Eq(f) == f = [k \in D |-> IF k = 1 THEN n ELSE f[k - 1] - q[k - 1].ticks]
             g == [k \in D |-> n - w[k - 1]]
             r == Rest(q, n)
  <1>1. Eq(g)
    <2> SUFFICES ASSUME NEW k \in D
                 PROVE  g[k] = IF k = 1 THEN n ELSE g[k - 1] - q[k - 1].ticks
      OBVIOUS
    <2>1. CASE k = 1
      BY <2>1, SMT
    <2>2. CASE k # 1
      <3>1. k - 1 \in D /\ k - 1 \in 1..Len(q) /\ (k - 1) - 1 \in 0..Len(q) /\ k - 1 \in 0..Len(q)
        BY <2>2, SMT
      <3>2. g[k] = n - w[k - 1] /\ g[k - 1] = n - w[(k - 1) - 1]
        BY <3>1
      <3>3. q[k - 1].ticks = w[k - 1] - w[(k - 1) - 1]
        BY <3>1
      <3>4. w[k - 1] \in Int /\ w[(k - 1) - 1] \in Int
        BY <3>1
      <3> HIDE DEF g
      <3> QED
        BY <2>2, <3>2, <3>3, <3>4, SMT
    <2> QED
      BY <2>1, <2>2
  <1>2. r = CHOOSE f : Eq(f)
    BY DEF Rest
  <1> HIDE DEF g, r
  <1>3. Eq(r)
    BY <1>1, <1>2
  <1>4. r[1] = n /\ \A k \in D \ {1} : r[k] = r[k - 1] - q[k - 1].ticks
    <2>1. \A k \in D : r[k] = IF k = 1 THEN n ELSE r[k - 1] - q[k - 1].ticks
      BY <1>3
    <2>2. 1 \in D
      BY SMT
    <2> HIDE DEF D
    <2> QED
      BY <2>1, <2>2
  <1> HIDE DEF Eq
  <1> DEFINE T == {k \in Nat : r[k] = n - w[k - 1]}
  <1>5. 1 \in T
    BY <1>4, SMT
  <1>6. ASSUME NEW k \in 1..Len(q), k \in T PROVE k + 1 \in T
    <2>1. k + 1 \in D \ {1} /\ (k + 1) - 1 = k /\ k \in 0..Len(q) /\ k - 1 \in 0..Len(q) /\ k + 1 \in Nat
      BY SMT
    <2>2. r[k] = n - w[k - 1] /\ w[k - 1] \in Int /\ w[k] \in Int
      BY <1>6, <2>1
    <2>3. q[k].ticks = w[k] - w[k - 1]
      OBVIOUS
    <2>4. r[k + 1] = r[k] - q[k].ticks
      BY <1>4, <2>1
    <2>5. r[k + 1] = n - w[(k + 1) - 1]
      BY <2>1, <2>2, <2>3, <2>4, SMT
    <2> QED
      BY <2>1, <2>5
  <1>7. Len(q) + 1 \in Nat /\ (Len(q) + 1) - 1 = Len(q)
    BY SMT
  <1>8. \A k \in 1..Len(q) : k \in T => k + 1 \in T
    BY <1>6
  <1> HIDE DEF T
  <1>9. \A k \in D : k \in T
    BY <1>5, <1>7, <1>8, Induction
  <1> QED
    BY <1>9 DEF T, r

\* What climbs from each entry to the next climbs over any distance.
LEMMA Climb ==
  ASSUME NEW n \in Nat, NEW w \in [0..n -> Int], \A i \in 1..n : w[i - 1] <= w[i]
  PROVE  \A i, j \in 0..n : i <= j => w[i] <= w[j]
  <1> SUFFICES ASSUME NEW i \in 0..n PROVE \A j \in i..n : w[i] <= w[j]
    BY SMT
  <1> DEFINE T == {j \in Nat : w[i] <= w[j]}
  <1>1. i \in T
    BY SMT
  <1>2. ASSUME NEW j \in i..n - 1, j \in T PROVE j + 1 \in T
    <2>1. j + 1 \in 1..n /\ (j + 1) - 1 = j /\ j + 1 \in Nat /\ j \in 0..n
      BY SMT
    <2>2. w[j] <= w[j + 1] /\ w[i] <= w[j]
      BY <1>2, <2>1
    <2>3. w[i] \in Int /\ w[j] \in Int /\ w[j + 1] \in Int
      BY <2>1, SMT
    <2> QED
      BY <2>1, <2>2, <2>3, SMT
  <1>3. \A j \in i..n - 1 : j \in T => j + 1 \in T
    BY <1>2
  <1> HIDE DEF T
  <1>4. i \in Nat
    BY SMT
  <1>5. \A j \in i..n : j \in T
    BY <1>1, <1>3, <1>4, Induction
  <1> QED
    BY <1>5 DEF T

-----------------------------------------------------------------------------
\* The events of the queue by their waits, with nothing in front of the first.
LEMMA DueFacts ==
  ASSUME TimerInv
  PROVE  /\ Len(sleeping) \in Nat /\ Due(0) = 0
         /\ \A i \in 0..Len(sleeping) : Due(i) \in Int
         /\ \A i \in 1..Len(sleeping) : /\ Due(i) = Wait(sleeping[i].ev)
                                        /\ sleeping[i].ticks = Due(i) - Due(i - 1)
                                        /\ sleeping[i].ticks \in Nat /\ Due(i - 1) <= Due(i)
         /\ \A i, j \in 0..Len(sleeping) : i <= j => Due(i) <= Due(j)
         /\ \A i \in 1..Len(sleeping) : Due(i) >= 0
  <1>1. /\ Len(sleeping) \in Nat
        /\ \A i \in 1..Len(sleeping) : sleeping[i].ticks \in Nat /\ Wait(sleeping[i].ev) \in Int
    BY EntryFacts DEF TimerInv
  <1>2. Due(0) = 0
    BY DEF Due
  <1>3. \A i \in 1..Len(sleeping) : Due(i) = Wait(sleeping[i].ev)
    BY <1>1, SMT DEF Due
  <1>4. \A i \in 0..Len(sleeping) : Due(i) \in Int
    <2> SUFFICES ASSUME NEW i \in 0..Len(sleeping) PROVE Due(i) \in Int
      OBVIOUS
    <2>1. i = 0 \/ i \in 1..Len(sleeping)
      BY <1>1, SMT
    <2> QED
      BY <1>1, <1>2, <1>3, <2>1, SMT
  <1>5. \A i \in 1..Len(sleeping) : sleeping[i].ticks = Due(i) - Due(i - 1)
    BY DEF TimerInv, OffsetInv
  <1>6. \A i \in 1..Len(sleeping) : Due(i - 1) <= Due(i)
    <2> SUFFICES ASSUME NEW i \in 1..Len(sleeping) PROVE Due(i - 1) <= Due(i)
      OBVIOUS
    <2>1. i \in 0..Len(sleeping) /\ i - 1 \in 0..Len(sleeping)
      BY <1>1, SMT
    <2>2. Due(i) \in Int /\ Due(i - 1) \in Int
      BY <1>4, <2>1
    <2>3. Due(i) - Due(i - 1) \in Nat
      BY <1>1, <1>5
    <2> QED
      BY <2>2, <2>3, SMT
  <1> DEFINE w == [i \in 0..Len(sleeping) |-> Due(i)]
  <1>7. w \in [0..Len(sleeping) -> Int] /\ \A i \in 1..Len(sleeping) : w[i - 1] <= w[i]
    <2>1. w \in [0..Len(sleeping) -> Int]
      BY <1>4
    <2>2. \A i \in 1..Len(sleeping) : i - 1 \in 0..Len(sleeping) /\ i \in 0..Len(sleeping)
      BY <1>1, SMT
    <2> QED
      BY <1>6, <2>1, <2>2
  <1>8. \A i, j \in 0..Len(sleeping) : i <= j => w[i] <= w[j]
    BY <1>1, <1>7, Climb
  <1>9. \A i, j \in 0..Len(sleeping) : i <= j => Due(i) <= Due(j)
    BY <1>8
  <1>10. \A i \in 1..Len(sleeping) : Due(i) >= 0
    <2> SUFFICES ASSUME NEW i \in 1..Len(sleeping) PROVE Due(i) >= 0
      OBVIOUS
    <2>1. i \in 0..Len(sleeping) /\ 0 \in 0..Len(sleeping) /\ 0 <= i
      BY <1>1, SMT
    <2>2. Due(0) <= Due(i) /\ Due(i) \in Int
      BY <1>4, <1>9, <2>1
    <2> QED
      BY <1>2, <2>2, SMT
  <1> QED
    BY <1>1, <1>2, <1>3, <1>4, <1>5, <1>6, <1>9, <1>10

\* What is left of n ticks in front of an entry.
LEMMA RestDue ==
  ASSUME TimerInv, NEW n \in Int
  PROVE  \A k \in 1..Len(sleeping) + 1 : Rest(sleeping, n)[k] = n - Due(k - 1)
  <1> DEFINE w == [i \in 0..Len(sleeping) |-> Due(i)]
  <1>1. Len(sleeping) \in Nat
    BY DueFacts
  <1>2. w \in [0..Len(sleeping) -> Int]
    BY DueFacts
  <1>3. w[0] = 0
    BY <1>1, DueFacts, SMT
  <1>4. \A i \in 1..Len(sleeping) : sleeping[i].ticks = w[i] - w[i - 1]
    <2> SUFFICES ASSUME NEW i \in 1..Len(sleeping) PROVE sleeping[i].ticks = w[i] - w[i - 1]
      OBVIOUS
    <2>1. i \in 0..Len(sleeping) /\ i - 1 \in 0..Len(sleeping)
      BY <1>1, SMT
    <2>2. w[i] = Due(i) /\ w[i - 1] = Due(i - 1)
      BY <2>1
    <2> QED
      BY <2>2, DueFacts
  <1>5. \A k \in 1..Len(sleeping) + 1 : k - 1 \in 0..Len(sleeping)
    BY <1>1, SMT
  <1>6. \A k \in 1..Len(sleeping) + 1 : w[k - 1] = Due(k - 1)
    BY <1>5
  <1> HIDE DEF w
  <1>7. \A k \in 1..Len(sleeping) + 1 : Rest(sleeping, n)[k] = n - w[k - 1]
    BY <1>1, <1>2, <1>3, <1>4, RestFacts, ZenonT(60)
  <1> QED
    BY <1>6, <1>7

\* The offsets of the invariant add up to what each event still has to wait.
LEMMA InvAddsUp == TimerInv => DeltasAddUp
  <1> SUFFICES ASSUME TimerInv, NEW i \in 1..Len(sleeping)
               PROVE  Rest(sleeping, Wait(sleeping[i].ev))[i + 1] = 0
    BY DEF DeltasAddUp, Wait
  <1>1. /\ Wait(sleeping[i].ev) = Due(i) /\ Due(i) \in Int
        /\ i + 1 \in 1..Len(sleeping) + 1 /\ (i + 1) - 1 = i
    BY DueFacts, SMT
  <1>2. Rest(sleeping, Due(i))[i + 1] = Due(i) - Due((i + 1) - 1)
    BY <1>1, RestDue
  <1> QED
    BY <1>1, <1>2, SMT

\* Where the walk of the constructor stops.
LEMMA InsertionFacts ==
  ASSUME TimerInv, NEW n \in Nat
  PROVE  /\ InsertionPoint(n) \in 1..Len(sleeping) + 1
         /\ Due(InsertionPoint(n) - 1) <= n
         /\ InsertionPoint(n) <= Len(sleeping) => Due(InsertionPoint(n)) >= n
  <1> DEFINE L == Len(sleeping)
             P(k) == /\ \A i \in 1..k - 1 : sleeping[i].ticks < Rest(sleeping, n)[i]
                     /\ k <= L => sleeping[k].ticks >= Rest(sleeping, n)[k]
             S == {k \in Nat : k \in 1..L + 1 /\ (k <= L => Due(k) >= n)}
  <1>1. L \in Nat
    BY DueFacts
  <1>2. ASSUME NEW k \in 1..L
        PROVE  sleeping[k].ticks < Rest(sleeping, n)[k] <=> Due(k) < n
    <2>1. k \in 1..L + 1 /\ k \in 0..L /\ k - 1 \in 0..L
      BY <1>1, SMT
    <2>2. Rest(sleeping, n)[k] = n - Due(k - 1)
      BY <2>1, RestDue, SMT
    <2>3. sleeping[k].ticks = Due(k) - Due(k - 1) /\ Due(k) \in Int /\ Due(k - 1) \in Int
      BY <2>1, DueFacts
    <2> QED
      BY <2>2, <2>3, SMT
  <1>3. ASSUME NEW k \in 1..L
        PROVE  sleeping[k].ticks >= Rest(sleeping, n)[k] <=> Due(k) >= n
    <2>1. k \in 1..L + 1 /\ k \in 0..L /\ k - 1 \in 0..L
      BY <1>1, SMT
    <2>2. Rest(sleeping, n)[k] = n - Due(k - 1)
      BY <2>1, RestDue, SMT
    <2>3. sleeping[k].ticks = Due(k) - Due(k - 1) /\ Due(k) \in Int /\ Due(k - 1) \in Int
      BY <2>1, DueFacts
    <2> QED
      BY <2>2, <2>3, SMT
  <1>4. \E k \in 1..L + 1 : P(k)
    <2>1. \A k : k \in S <=> k \in Nat /\ k \in 1..L + 1 /\ (k <= L => Due(k) >= n)
      OBVIOUS
    <2>2. S \in SUBSET Nat
      OBVIOUS
    <2> HIDE DEF S
    <2>3. L + 1 \in S
      BY <1>1, <2>1, SMT
    <2>4. PICK k \in S : \A l \in S : k <= l
      BY <2>2, <2>3, LeastNat
    <2>5. k \in 1..L + 1 /\ (k <= L => Due(k) >= n)
      BY <2>1, <2>4
    <2>6. ASSUME NEW i \in 1..k - 1 PROVE sleeping[i].ticks < Rest(sleeping, n)[i]
      <3>1. i \in 1..L /\ i \in Nat /\ i \in 1..L + 1 /\ ~(k <= i) /\ i \in 0..L
        BY <1>1, <2>5, SMT
      <3>2. ~(Due(i) >= n) /\ Due(i) \in Int
        BY <2>1, <2>4, <3>1, DueFacts
      <3> QED
        BY <1>2, <3>1, <3>2, SMT
    <2>7. k <= L => sleeping[k].ticks >= Rest(sleeping, n)[k]
      BY <1>1, <1>3, <2>5, SMT
    <2> QED
      BY <2>5, <2>6, <2>7
  <1> DEFINE c == InsertionPoint(n)
  <1>5. c = CHOOSE k \in 1..L + 1 : P(k)
    BY DEF InsertionPoint
  <1>6. c \in 1..L + 1 /\ P(c)
    BY <1>4, <1>5
  <1> HIDE DEF c
  <1>7. Due(c - 1) <= n
    <2>1. CASE c = 1
      BY <2>1, DueFacts, SMT
    <2>2. CASE c # 1
      <3>1. c - 1 \in 1..L /\ c - 1 \in 1..c - 1
        BY <1>1, <1>6, <2>2, SMT
      <3>2. sleeping[c - 1].ticks < Rest(sleeping, n)[c - 1]
        BY <1>6, <3>1
      <3>3. Due(c - 1) < n /\ c - 1 \in 0..L
        BY <1>1, <1>2, <3>1, <3>2, SMT
      <3> QED
        BY <3>3, DueFacts, SMT
    <2> QED
      BY <2>1, <2>2
  <1>8. c <= L => Due(c) >= n
    <2> SUFFICES ASSUME c <= L PROVE Due(c) >= n
      OBVIOUS
    <2>1. c \in 1..L
      BY <1>1, <1>6, SMT
    <2>2. sleeping[c].ticks >= Rest(sleeping, n)[c]
      BY <1>6
    <2> QED
      BY <1>3, <2>1, <2>2
  <1> QED
    BY <1>6, <1>7, <1>8 DEF c

-----------------------------------------------------------------------------
\* The queue is untouched and so is what its events wait for: the offsets stay.
LEMMA SameQueue ==
  ASSUME TimerInv, UNCHANGED sleeping,
         \A i \in 1..Len(sleeping) :
            /\ left'[sleeping[i].ev] + pending_ticks' + drift'[sleeping[i].ev] = Wait(sleeping[i].ev)
            /\ asked'[sleeping[i].ev] = asked[sleeping[i].ev]
  PROVE  OffsetInv'
  <1>1. Len(sleeping) \in Nat
    BY DueFacts
  <1>2. \A i \in 0..Len(sleeping) : Due(i)' = Due(i)
    <2>1. \A i \in 0..Len(sleeping) : i = 0 \/ i \in 1..Len(sleeping)
      BY <1>1, SMT
    <2> QED
      BY <2>1 DEF Due, Wait
  <1>3. \A i \in 1..Len(sleeping) : Due(i)' = Due(i) /\ Due(i - 1)' = Due(i - 1)
    <2>1. \A i \in 1..Len(sleeping) : i \in 0..Len(sleeping) /\ i - 1 \in 0..Len(sleeping)
      BY <1>1, SMT
    <2> QED
      BY <1>2, <2>1
  <1>4. \A i \in 1..Len(sleeping) : sleeping[i].ticks = Due(i)' - Due(i - 1)'
    BY <1>3, DueFacts
  <1>5. \A i \in 1..Len(sleeping) : Due(i)' = 0 => asked'[sleeping[i].ev] = 0
    BY <1>3 DEF TimerInv, OffsetInv
  <1> QED
    BY <1>4, <1>5 DEF OffsetInv

\* timer_event::timer_event before it takes the lock.
LEMMA EventCtorStep ==
  ASSUME TimerInv, NEW e \in Event, EventCtor(e)
  PROVE  TimerInv'
  <1> USE TimerAssumption
  <1>1. PICK n \in Request :
          /\ asked' = [asked EXCEPT ![e] = n]
          /\ left' = [left EXCEPT ![e] = n]
          /\ \/ /\ Pass(e, "new", "live") /\ called' = called \union {e}
             \/ /\ Pass(e, "new", "ctor_lock") /\ UNCHANGED called
          /\ UNCHANGED <<ticks, pending_ticks, sleeping, sleep_list_lock, handling, drift, crashed>>
    BY DEF EventCtor
  <1>2. /\ stage[e] = "new"
        /\ \E s \in {"live", "ctor_lock"} :
              /\ stage' = [stage EXCEPT ![e] = s]
              /\ called' = IF s = "live" THEN called \union {e} ELSE called
    BY <1>1 DEF Pass
  <1>3. PICK s \in {"live", "ctor_lock"} :
              /\ stage' = [stage EXCEPT ![e] = s]
              /\ called' = IF s = "live" THEN called \union {e} ELSE called
    BY <1>2
  <1>4. n \in Nat /\ n \in Int
    BY <1>1, SMT
  <1>5. /\ stage \in [Event -> Stages] /\ called \subseteq Event
        /\ asked \in [Event -> Nat] /\ left \in [Event -> Int]
    BY DEF TimerInv, TimerTypeOK
  <1>6. /\ stage'[e] = s /\ left'[e] = n /\ asked'[e] = n
        /\ \A f \in Event : f # e => /\ stage'[f] = stage[f] /\ left'[f] = left[f]
                                     /\ asked'[f] = asked[f]
    BY <1>1, <1>3, <1>5
  <1>7. \A i \in 1..Len(sleeping) : sleeping[i].ev \in Event /\ sleeping[i].ev # e
    BY <1>2, EntryFacts DEF TimerInv, QueueInv
  <1>8. TimerTypeOK'
    <2>1. /\ stage' \in [Event -> Stages] /\ called' \subseteq Event
          /\ asked' \in [Event -> Nat] /\ left' \in [Event -> Int]
      BY <1>1, <1>3, <1>4, <1>5 DEF Stages
    <2> QED
      BY <1>1, <2>1 DEF TimerInv, TimerTypeOK
  <1>9. OffsetInv'
    BY <1>1, <1>6, <1>7, SameQueue DEF Wait
  <1>10. QueueInv'
    <2>1. \A i \in 1..Len(sleeping) : /\ stage'[sleeping[i].ev] \in {"live", "dtor_remove", "gone"}
                                      /\ sleeping[i].ev \notin called'
      BY <1>3, <1>6, <1>7 DEF TimerInv, QueueInv
    <2>2. \A f \in Event : stage'[f] \in {"ctor_lock", "ctor_insert"} => left'[f] = asked'[f]
      BY <1>6 DEF TimerInv, QueueInv
    <2>3. \A f \in Event : stage'[f] \in {"new", "ctor_lock", "ctor_insert"} => f \notin called'
      <3> SUFFICES ASSUME NEW f \in Event, stage'[f] \in {"new", "ctor_lock", "ctor_insert"}
                   PROVE  f \notin called'
        OBVIOUS
      <3>1. CASE f = e
        BY <1>2, <1>3, <1>6, <3>1 DEF TimerInv, QueueInv
      <3>2. CASE f # e
        BY <1>3, <1>6, <3>2 DEF TimerInv, QueueInv
      <3> QED
        BY <3>1, <3>2
    <2> QED
      BY <1>1, <2>1, <2>2, <2>3 DEF TimerInv, QueueInv
  <1>11. QueueLockInv'
    <2>1. ~HasQueue(e)' /\ \A f \in Event : f # e => (HasQueue(f)' <=> HasQueue(f))
      BY <1>6 DEF HasQueue
    <2> QED
      BY <1>1, <2>1 DEF TimerInv, QueueLockInv
  <1> QED
    BY <1>8, <1>9, <1>10, <1>11 DEF TimerInv

\* A thread takes sleep_list_lock, for the insertion or the removal of its event.
LEMMA TakeQueue ==
  ASSUME TimerInv, NEW e \in Event, NEW s \in {"ctor_insert", "dtor_remove"},
         stage[e] = IF s = "ctor_insert" THEN "ctor_lock" ELSE "live",
         stage' = [stage EXCEPT ![e] = s],
         sleep_list_lock = 0, sleep_list_lock' = 1,
         UNCHANGED <<ticks, pending_ticks, sleeping, handling, called, history, crashed>>
  PROVE  TimerInv'
  <1>0. UNCHANGED <<asked, left, drift>>
    BY DEF history
  <1>1. stage \in [Event -> Stages]
    BY DEF TimerInv, TimerTypeOK
  <1>2. stage'[e] = s /\ \A f \in Event : f # e => stage'[f] = stage[f]
    BY <1>1
  <1>3. TimerTypeOK'
    <2>1. stage' \in [Event -> Stages]
      BY <1>1 DEF Stages
    <2> QED
      BY <1>0, <2>1 DEF TimerInv, TimerTypeOK
  <1>4. OffsetInv'
    BY <1>0, SameQueue DEF Wait
  <1>5. QueueInv'
    <2>1. \A i \in 1..Len(sleeping) : sleeping[i].ev \in Event
      BY EntryFacts DEF TimerInv
    <2>2. \A i \in 1..Len(sleeping) : stage'[sleeping[i].ev] \in {"live", "dtor_remove", "gone"}
      BY <1>2, <2>1 DEF TimerInv, QueueInv
    <2>3. \A f \in Event : /\ stage'[f] \in {"ctor_lock", "ctor_insert"} => left[f] = asked[f]
                           /\ stage'[f] \in {"new", "ctor_lock", "ctor_insert"} => f \notin called
      BY <1>2 DEF TimerInv, QueueInv
    <2> QED
      BY <1>0, <2>2, <2>3 DEF TimerInv, QueueInv
  <1>6. QueueLockInv'
    <2>1. ~handling /\ \A f \in Event : ~HasQueue(f)
      BY SMT DEF TimerInv, QueueLockInv
    <2>2. \A f \in Event : f # e => ~HasQueue(f)'
      BY <1>2, <2>1 DEF HasQueue
    <2> QED
      BY <2>1, <2>2 DEF TimerInv, QueueLockInv
  <1> QED
    BY <1>3, <1>4, <1>5, <1>6 DEF TimerInv

\* The constructor of an event takes the lock of the sleep list.
LEMMA EventCtorLockStep ==
  ASSUME TimerInv, NEW e \in Event, EventCtorLock(e)
  PROVE  TimerInv'
  BY TakeQueue DEF EventCtorLock, Pass

\* The destructor of an event takes the lock of the sleep list.
LEMMA EventDtorStep ==
  ASSUME TimerInv, NEW e \in Event, EventDtor(e)
  PROVE  TimerInv'
  BY TakeQueue DEF EventDtor, Pass

\* A thread has changed the queue, or not, and gives the lock back.
LEMMA GiveQueue ==
  ASSUME TimerInv, NEW e \in Event, HasQueue(e), NEW s \in {"live", "gone"},
         stage' = [stage EXCEPT ![e] = s],
         sleep_list_lock' = 0,
         UNCHANGED <<ticks, pending_ticks, handling, called, asked, left>>,
         sleeping' \in Seq(Entry), drift' \in [Event -> Int], crashed' \in BOOLEAN,
         \A i, j \in 1..Len(sleeping') : sleeping'[i].ev = sleeping'[j].ev => i = j,
         \A i \in 1..Len(sleeping') : \/ sleeping'[i].ev = e /\ e \notin called
                                      \/ \E j \in 1..Len(sleeping) : sleeping'[i].ev = sleeping[j].ev
  PROVE  TimerTypeOK' /\ QueueInv' /\ QueueLockInv'
  <1>1. stage \in [Event -> Stages]
    BY DEF TimerInv, TimerTypeOK
  <1>2. stage'[e] = s /\ \A f \in Event : f # e => stage'[f] = stage[f]
    BY <1>1
  <1>3. TimerTypeOK'
    <2>1. stage' \in [Event -> Stages]
      BY <1>1 DEF Stages
    <2> QED
      BY <2>1 DEF TimerInv, TimerTypeOK, Entry
  <1>4. QueueInv'
    <2>1. \A i \in 1..Len(sleeping) : /\ sleeping[i].ev \in Event
                                      /\ stage[sleeping[i].ev] \in {"live", "dtor_remove", "gone"}
                                      /\ sleeping[i].ev \notin called
      BY EntryFacts DEF TimerInv, QueueInv
    <2>2. \A i \in 1..Len(sleeping) : /\ stage'[sleeping[i].ev] \in {"live", "dtor_remove", "gone"}
                                      /\ sleeping[i].ev \notin called
      BY <1>2, <2>1
    <2>3. \A i \in 1..Len(sleeping') : /\ stage'[sleeping'[i].ev] \in {"live", "dtor_remove", "gone"}
                                       /\ sleeping'[i].ev \notin called
      <3> SUFFICES ASSUME NEW i \in 1..Len(sleeping')
                   PROVE  /\ stage'[sleeping'[i].ev] \in {"live", "dtor_remove", "gone"}
                          /\ sleeping'[i].ev \notin called
        OBVIOUS
      <3>1. CASE sleeping'[i].ev = e /\ e \notin called
        BY <1>2, <3>1
      <3>2. CASE \E j \in 1..Len(sleeping) : sleeping'[i].ev = sleeping[j].ev
        BY <2>2, <3>2
      <3> QED
        BY <3>1, <3>2
    <2>4. \A f \in Event : /\ stage'[f] \in {"ctor_lock", "ctor_insert"} => left[f] = asked[f]
                           /\ stage'[f] \in {"new", "ctor_lock", "ctor_insert"} => f \notin called
      BY <1>2 DEF TimerInv, QueueInv
    <2> QED
      BY <2>3, <2>4 DEF QueueInv
  <1>5. QueueLockInv'
    <2>1. ~handling /\ \A f \in Event : HasQueue(f) => f = e
      BY DEF TimerInv, QueueLockInv
    <2>2. \A f \in Event : ~HasQueue(f)'
      BY <1>2, <2>1 DEF HasQueue
    <2> QED
      BY <2>1, <2>2 DEF TimerInv, QueueLockInv
  <1> QED
    BY <1>3, <1>4, <1>5

-----------------------------------------------------------------------------
\* The queue q is the one before with event e at k, in the order of the waits.
Spliced(q, k, e, n) ==
    /\ k \in 1..Len(sleeping) + 1
    /\ q \in Seq(Entry) /\ Len(q) = Len(sleeping) + 1
    /\ \A i \in 1..k - 1 : q[i] = sleeping[i]
    /\ q[k].ev = e /\ q[k].ticks = n - Due(k - 1)
    /\ \A i \in k + 1..Len(sleeping) + 1 : q[i].ev = sleeping[i - 1].ev
    /\ k <= Len(sleeping) => q[k + 1].ticks = Due(k) - n
    /\ \A i \in k + 2..Len(sleeping) + 1 : q[i].ticks = sleeping[i - 1].ticks

\* The queue after an insertion, entry by entry.
LEMMA InsertedFacts ==
  ASSUME TimerInv, NEW e \in Event, NEW n \in Nat, NEW k, k = InsertionPoint(n),
         NEW q, q = Inserted(e, n)
  PROVE  Spliced(q, k, e, n)
  <1> DEFINE L == Len(sleeping)
             rest == n - Due(k - 1)
  <1>1. L \in Nat /\ \A i \in 1..L : sleeping[i] \in Entry
    BY EntryFacts DEF TimerInv
  <1>2. k \in 1..L + 1 /\ Due(k - 1) <= n /\ (k <= L => Due(k) >= n)
    BY InsertionFacts
  <1>3. Rest(sleeping, n)[k] = rest
    BY <1>2, RestDue, SMT
  <1>4. Due(k - 1) \in Int /\ rest \in Nat
    <2>1. k - 1 \in 0..L
      BY <1>1, <1>2, SMT
    <2>2. Due(k - 1) \in Int
      BY <2>1, DueFacts
    <2> QED
      BY <1>2, <2>2, SMT
  <1>5. q = [i \in 1..L + 1 |->
               IF i < k THEN sleeping[i]
               ELSE IF i = k THEN [ev |-> e, ticks |-> rest]
               ELSE IF i = k + 1 THEN [sleeping[k] EXCEPT !.ticks = @ - rest]
               ELSE sleeping[i - 1]]
    BY <1>3 DEF Inserted
  <1> HIDE DEF rest
  <1>6. \A i \in 1..L + 1 : q[i] = IF i < k THEN sleeping[i]
               ELSE IF i = k THEN [ev |-> e, ticks |-> rest]
               ELSE IF i = k + 1 THEN [sleeping[k] EXCEPT !.ticks = @ - rest]
               ELSE sleeping[i - 1]
    BY <1>5
  <1>7. \A i \in 1..k - 1 : q[i] = sleeping[i]
    <2>1. \A i \in 1..k - 1 : i \in 1..L + 1 /\ i < k
      BY <1>1, <1>2, SMT
    <2> QED
      BY <1>6, <2>1
  <1>8. q[k] = [ev |-> e, ticks |-> rest]
    BY <1>2, <1>6, SMT
  <1>9. ASSUME k <= L PROVE /\ q[k + 1].ev = sleeping[k].ev
                            /\ q[k + 1].ticks = Due(k) - n
                            /\ q[k + 1] \in Entry
    <2>1. k + 1 \in 1..L + 1 /\ k \in 1..L /\ ~(k + 1 < k) /\ k + 1 # k /\ k \in 0..L
      BY <1>1, <1>2, <1>9, SMT
    <2>2. q[k + 1] = [sleeping[k] EXCEPT !.ticks = @ - rest]
      BY <1>6, <2>1
    <2>3. sleeping[k] \in Entry
      BY <1>1, <2>1
    <2>4. q[k + 1] = [ev |-> sleeping[k].ev, ticks |-> sleeping[k].ticks - rest]
      BY <2>2, <2>3 DEF Entry
    <2>5. sleeping[k].ticks = Due(k) - Due(k - 1) /\ Due(k) \in Int
      BY <2>1, DueFacts
    <2>6. sleeping[k].ticks - rest = Due(k) - n /\ Due(k) - n \in Nat
      BY <1>2, <1>4, <1>9, <2>5, SMT DEF rest
    <2> QED
      BY <2>3, <2>4, <2>6, SMT DEF Entry
  <1>10. \A i \in k + 2..L + 1 : q[i] = sleeping[i - 1]
    <2>1. \A i \in k + 2..L + 1 : i \in 1..L + 1 /\ ~(i < k) /\ i # k /\ i # k + 1
      BY <1>1, <1>2, SMT
    <2> QED
      BY <1>6, <2>1
  <1>11. \A i \in 1..L + 1 : q[i] \in Entry
    <2> SUFFICES ASSUME NEW i \in 1..L + 1 PROVE q[i] \in Entry
      OBVIOUS
    <2>1. CASE i < k
      <3>1. i \in 1..k - 1 /\ i \in 1..L
        BY <1>1, <1>2, <2>1, SMT
      <3> QED
        BY <1>1, <1>7, <3>1
    <2>2. CASE i = k
      BY <1>4, <1>8, <2>2, SMT DEF Entry
    <2>3. CASE i = k + 1
      BY <1>1, <1>2, <1>9, <2>3, SMT
    <2>4. CASE i > k + 1
      <3>1. i \in k + 2..L + 1 /\ i - 1 \in 1..L
        BY <1>1, <1>2, <2>4, SMT
      <3> QED
        BY <1>1, <1>10, <3>1
    <2> QED
      BY <1>2, <2>1, <2>2, <2>3, <2>4, SMT
  <1>12. q \in Seq(Entry) /\ Len(q) = L + 1
    <2>1. q = [i \in 1..L + 1 |-> q[i]]
      BY <1>5
    <2>2. q \in [1..L + 1 -> Entry]
      BY <1>11, <2>1
    <2>3. L + 1 \in Nat
      BY <1>1, SMT
    <2> QED
      BY <2>2, <2>3, FunctionIsSeq
  <1>13. \A i \in k + 1..L + 1 : q[i].ev = sleeping[i - 1].ev
    <2> SUFFICES ASSUME NEW i \in k + 1..L + 1 PROVE q[i].ev = sleeping[i - 1].ev
      OBVIOUS
    <2>1. CASE i = k + 1
      <3>1. k <= L /\ i - 1 = k
        BY <1>1, <1>2, <2>1, SMT
      <3> QED
        BY <1>9, <2>1, <3>1
    <2>2. CASE i # k + 1
      <3>1. i \in k + 2..L + 1
        BY <1>1, <1>2, <2>2, SMT
      <3> QED
        BY <1>10, <3>1
    <2> QED
      BY <2>1, <2>2
  <1>14. q[k].ev = e /\ q[k].ticks = n - Due(k - 1)
    BY <1>4, <1>8, SMT DEF rest
  <1>15. \A i \in k + 2..L + 1 : q[i].ticks = sleeping[i - 1].ticks
    BY <1>10
  <1> QED
    BY <1>2, <1>7, <1>9, <1>12, <1>13, <1>14, <1>15 DEF Spliced

\* The walk, the insertion and release_lock.
LEMMA EventCtorInsertStep ==
  ASSUME TimerInv, NEW e \in Event, EventCtorInsert(e)
  PROVE  TimerInv'
  <1> DEFINE L == Len(sleeping)
  <1>1. /\ stage[e] = "ctor_insert" /\ stage' = [stage EXCEPT ![e] = "live"]
        /\ sleep_list_lock' = 0
        /\ UNCHANGED <<ticks, pending_ticks, handling, called, asked, left>>
    BY DEF EventCtorInsert, Pass
  <1>2. /\ HasQueue(e) /\ asked[e] \in Nat /\ left[e] = asked[e] /\ e \notin called
        /\ drift \in [Event -> Int] /\ pending_ticks \in Int
    <2>1. /\ HasQueue(e) /\ left[e] = asked[e] /\ e \notin called
          /\ asked \in [Event -> Nat] /\ drift \in [Event -> Int]
          /\ pending_ticks \in 0..MaxPending + 1
      BY <1>1 DEF HasQueue, TimerInv, TimerTypeOK, QueueInv
    <2> QED
      BY <2>1, SMT
  <1>3. L \in Nat /\ \A i \in 1..L : sleeping[i].ev \in Event /\ sleeping[i].ev # e
    BY <1>1, EntryFacts DEF TimerInv, QueueInv
  <1>4. CASE DeadQueued
    <2>1. crashed' = TRUE /\ UNCHANGED <<sleeping, drift>>
      BY <1>4 DEF EventCtorInsert
    <2>2. sleeping' \in Seq(Entry) /\ crashed' \in BOOLEAN /\ drift' \in [Event -> Int]
      BY <1>2, <2>1 DEF TimerInv, TimerTypeOK, Entry
    <2>3. \A i, j \in 1..Len(sleeping') : sleeping'[i].ev = sleeping'[j].ev => i = j
      BY <2>1 DEF TimerInv, QueueInv
    <2>4. TimerTypeOK' /\ QueueInv' /\ QueueLockInv'
      BY <1>1, <1>2, <2>1, <2>2, <2>3, GiveQueue
    <2>5. OffsetInv'
      BY <1>1, <2>1, SameQueue DEF Wait
    <2> QED
      BY <2>4, <2>5 DEF TimerInv
  <1>5. CASE ~DeadQueued
    <2>0. PICK n, k, q : n = asked[e] /\ k = InsertionPoint(n) /\ q = sleeping'
      OBVIOUS
    <2>1. /\ q = Inserted(e, n) /\ n \in Nat /\ UNCHANGED crashed
          /\ drift' = [drift EXCEPT ![e] = - pending_ticks]
      BY <1>2, <1>5, <2>0 DEF EventCtorInsert
    <2>1b. /\ drift' \in [Event -> Int] /\ drift'[e] = - pending_ticks
           /\ \A f \in Event : f # e => drift'[f] = drift[f]
      <3>1. - pending_ticks \in Int
        BY <1>2, SMT
      <3> QED
        BY <1>2, <2>1, <3>1
    <2>1c. left[e] + pending_ticks + drift'[e] = n
      BY <1>2, <2>0, <2>1, <2>1b, SMT
    <2>1d. ASSUME NEW i \in 1..L
           PROVE  left'[sleeping[i].ev] + pending_ticks' + drift'[sleeping[i].ev] = Wait(sleeping[i].ev)
      BY <1>1, <1>3, <2>1b DEF Wait
    <2>1a. Spliced(q, k, e, n)
      BY <2>0, <2>1, InsertedFacts
    <2>2. /\ k \in 1..L + 1
          /\ q \in Seq(Entry) /\ Len(q) = L + 1
          /\ \A i \in 1..k - 1 : q[i] = sleeping[i]
          /\ q[k].ev = e /\ q[k].ticks = n - Due(k - 1)
          /\ \A i \in k + 1..L + 1 : q[i].ev = sleeping[i - 1].ev
          /\ k <= L => q[k + 1].ticks = Due(k) - n
          /\ \A i \in k + 2..L + 1 : q[i].ticks = sleeping[i - 1].ticks
      BY <2>1a DEF Spliced
    <2>3. ASSUME NEW i \in 1..L + 1
          PROVE  \/ i < k /\ i \in 1..L /\ i \in 1..k - 1 /\ q[i].ev = sleeping[i].ev
                 \/ i = k /\ q[i].ev = e
                 \/ i > k /\ i - 1 \in 1..L /\ i \in k + 1..L + 1 /\ q[i].ev = sleeping[i - 1].ev
      <3>1. CASE i < k
        <4>1. i \in 1..L /\ i \in 1..k - 1
          BY <1>3, <2>2, <3>1, SMT
        <4> QED
          BY <2>2, <3>1, <4>1
      <3>2. CASE i = k
        BY <2>2, <3>2
      <3>3. CASE i > k
        <4>1. i - 1 \in 1..L /\ i \in k + 1..L + 1
          BY <1>3, <2>2, <3>3, SMT
        <4> QED
          BY <2>2, <3>3, <4>1
      <3> QED
        BY <2>2, <3>1, <3>2, <3>3, SMT
    <2>4. \A i, j \in 1..Len(q) : q[i].ev = q[j].ev => i = j
      <3> SUFFICES ASSUME NEW i \in 1..L + 1, NEW j \in 1..L + 1, q[i].ev = q[j].ev PROVE i = j
        BY <2>2
      <3>1. \A x, y \in 1..L : sleeping[x].ev = sleeping[y].ev => x = y
        BY DEF TimerInv, QueueInv
      <3>2. i \in Int /\ j \in Int /\ k \in Int
        BY <2>2, SMT
      <3>3. CASE i = k
        <4>1. q[j].ev = e
          BY <2>2, <3>3
        <4> QED
          BY <1>3, <2>3, <3>3, <4>1
      <3>4. CASE i < k
        <4>1. i \in 1..L /\ q[i].ev = sleeping[i].ev /\ q[i].ev # e
          BY <1>3, <2>3, <3>2, <3>4, SMT
        <4>2. \/ j < k /\ j \in 1..L /\ q[j].ev = sleeping[j].ev
              \/ j > k /\ j - 1 \in 1..L /\ q[j].ev = sleeping[j - 1].ev
          BY <2>3, <4>1
        <4> QED
          BY <3>1, <3>2, <3>4, <4>1, <4>2, SMT
      <3>5. CASE i > k
        <4>1. i - 1 \in 1..L /\ q[i].ev = sleeping[i - 1].ev /\ q[i].ev # e
          BY <1>3, <2>3, <3>2, <3>5, SMT
        <4>2. \/ j < k /\ j \in 1..L /\ q[j].ev = sleeping[j].ev
              \/ j > k /\ j - 1 \in 1..L /\ q[j].ev = sleeping[j - 1].ev
          BY <2>3, <4>1
        <4> QED
          BY <3>1, <3>2, <3>5, <4>1, <4>2, SMT
      <3> QED
        BY <3>2, <3>3, <3>4, <3>5, SMT
    <2>5. \A i \in 1..Len(q) : q[i].ev = e \/ \E j \in 1..L : q[i].ev = sleeping[j].ev
      BY <2>2, <2>3
    <2>6. TimerTypeOK' /\ QueueInv' /\ QueueLockInv'
      <3>1. crashed' \in BOOLEAN
        BY <2>1 DEF TimerInv, TimerTypeOK
      <3> QED
        BY <1>1, <1>2, <2>0, <2>1b, <2>2, <2>4, <2>5, <3>1, GiveQueue
    <2>7. Due(0)' = 0 /\ (\A i \in 1..k - 1 : Due(i)' = Due(i)) /\ Due(k)' = n
          /\ \A i \in k + 1..L + 1 : Due(i)' = Due(i - 1)
      <3>1. Due(0)' = 0
        BY DEF Due
      <3>2. ASSUME NEW i \in 1..k - 1 PROVE Due(i)' = Due(i)
        <4>1. i # 0 /\ i \in 1..L
          BY <1>3, <2>2, SMT
        <4>2. sleeping'[i].ev = sleeping[i].ev
          BY <2>0, <2>2
        <4> QED
          BY <2>1d, <4>1, <4>2 DEF Due, Wait
      <3>3. Due(k)' = n
        <4>1. k # 0
          BY <2>2, SMT
        <4>2. sleeping'[k].ev = e /\ left' = left /\ pending_ticks' = pending_ticks
          BY <1>1, <2>0, <2>2
        <4> QED
          BY <2>1c, <4>1, <4>2 DEF Due, Wait
      <3>4. ASSUME NEW i \in k + 1..L + 1 PROVE Due(i)' = Due(i - 1)
        <4>1. i # 0 /\ i - 1 # 0 /\ i - 1 \in 1..L
          BY <1>3, <2>2, SMT
        <4>2. sleeping'[i].ev = sleeping[i - 1].ev
          BY <2>0, <2>2
        <4> QED
          BY <2>1d, <4>1, <4>2 DEF Due, Wait
      <3> QED
        BY <3>1, <3>2, <3>3, <3>4
    <2>8. ASSUME NEW i \in 1..Len(q) PROVE q[i].ticks = Due(i)' - Due(i - 1)'
      <3>0. i \in 1..L + 1
        BY <2>2
      <3>1. CASE i < k
        <4>1. i \in 1..k - 1 /\ i \in 1..L /\ (i = 1 \/ i - 1 \in 1..k - 1)
          BY <1>3, <2>2, <3>0, <3>1, SMT
        <4>2. q[i] = sleeping[i] /\ sleeping[i].ticks = Due(i) - Due(i - 1)
          BY <2>2, <4>1, DueFacts
        <4>3. Due(i - 1)' = Due(i - 1)
          BY <2>7, <4>1, DueFacts, SMT
        <4> QED
          BY <2>7, <4>1, <4>2, <4>3, ZenonT(60)
      <3>2. CASE i = k
        <4>1. Due(k - 1)' = Due(k - 1)
          <5>1. k = 1 \/ k - 1 \in 1..k - 1
            BY <2>2, SMT
          <5> QED
            BY <2>7, <5>1, DueFacts, SMT
        <4> QED
          BY <2>2, <2>7, <3>2, <4>1
      <3>3. CASE i = k + 1
        <4>1. k <= L /\ i \in k + 1..L + 1 /\ i - 1 = k
          BY <1>3, <2>2, <3>0, <3>3, SMT
        <4> QED
          BY <2>2, <2>7, <3>3, <4>1
      <3>4. CASE i > k + 1
        <4>1. i \in k + 2..L + 1 /\ i \in k + 1..L + 1 /\ i - 1 \in k + 1..L + 1 /\ i - 1 \in 1..L
          BY <1>3, <2>2, <3>0, <3>4, SMT
        <4>2. q[i].ticks = sleeping[i - 1].ticks /\ sleeping[i - 1].ticks = Due(i - 1) - Due((i - 1) - 1)
          BY <2>2, <4>1, DueFacts
        <4> QED
          BY <2>7, <4>1, <4>2
      <3> QED
        BY <2>2, <3>0, <3>1, <3>2, <3>3, <3>4, SMT
    <2>9. ASSUME NEW i \in 1..Len(q), Due(i)' = 0 PROVE asked[q[i].ev] = 0
      <3>0. i \in 1..L + 1 /\ \A j \in 1..L : Due(j) = 0 => asked[sleeping[j].ev] = 0
        BY <2>2 DEF TimerInv, OffsetInv
      <3>1. CASE i < k
        <4>1. i \in 1..k - 1 /\ i \in 1..L
          BY <1>3, <2>2, <3>0, <3>1, SMT
        <4> QED
          BY <2>2, <2>7, <2>9, <3>0, <4>1
      <3>2. CASE i = k
        BY <2>0, <2>2, <2>7, <2>9, <3>2
      <3>3. CASE i > k
        <4>1. i \in k + 1..L + 1 /\ i - 1 \in 1..L
          BY <1>3, <2>2, <3>0, <3>3, SMT
        <4> QED
          BY <2>2, <2>7, <2>9, <3>0, <4>1
      <3> QED
        BY <2>2, <3>0, <3>1, <3>2, <3>3, SMT
    <2>10. OffsetInv'
      BY <1>1, <2>0, <2>8, <2>9 DEF OffsetInv
    <2> QED
      BY <2>6, <2>10 DEF TimerInv
  <1> QED
    BY <1>4, <1>5

\* The queue q is the one before without entry k, whose ticks the next one has.
Unlinked(q, k) ==
    /\ q \in Seq(Entry) /\ Len(q) = Len(sleeping) - 1
    /\ \A i \in 1..k - 1 : q[i] = sleeping[i]
    /\ \A i \in k..Len(sleeping) - 1 : q[i].ev = sleeping[i + 1].ev
    /\ q[k].ticks = sleeping[k].ticks + sleeping[k + 1].ticks
    /\ \A i \in k + 1..Len(sleeping) - 1 : q[i].ticks = sleeping[i + 1].ticks

\* The queue after a removal, entry by entry.
LEMMA WithoutFacts ==
  ASSUME TimerInv, NEW k \in 1..Len(sleeping) - 1, NEW q, q = Without(k)
  PROVE  Unlinked(q, k)
  <1> DEFINE L == Len(sleeping)
  <1>1. L \in Nat /\ \A i \in 1..L : sleeping[i] \in Entry
    BY EntryFacts DEF TimerInv
  <1>2. k \in 1..L /\ k + 1 \in 1..L /\ k \in 1..L - 1 /\ sleeping[k].ticks \in Nat
    BY <1>1, DueFacts, SMT
  <1>3. q = [i \in 1..L - 1 |->
               IF i < k THEN sleeping[i]
               ELSE IF i = k /\ sleeping[k].ticks >= 0
                 THEN [sleeping[k + 1] EXCEPT !.ticks = @ + sleeping[k].ticks]
               ELSE sleeping[i + 1]]
    BY DEF Without
  <1>4. \A i \in 1..L - 1 : q[i] = IF i < k THEN sleeping[i]
               ELSE IF i = k /\ sleeping[k].ticks >= 0
                 THEN [sleeping[k + 1] EXCEPT !.ticks = @ + sleeping[k].ticks]
               ELSE sleeping[i + 1]
    BY <1>3
  <1>5. \A i \in 1..k - 1 : q[i] = sleeping[i]
    <2>1. \A i \in 1..k - 1 : i \in 1..L - 1 /\ i < k
      BY <1>1, <1>2, SMT
    <2> QED
      BY <1>4, <2>1
  <1>6. q[k] = [ev |-> sleeping[k + 1].ev, ticks |-> sleeping[k + 1].ticks + sleeping[k].ticks]
    <2>1. sleeping[k].ticks >= 0 /\ ~(k < k)
      BY <1>2, SMT
    <2>2. q[k] = [sleeping[k + 1] EXCEPT !.ticks = @ + sleeping[k].ticks]
      BY <1>2, <1>4, <2>1
    <2>3. sleeping[k + 1] \in Entry
      BY <1>1, <1>2
    <2> QED
      BY <2>2, <2>3 DEF Entry
  <1>7. \A i \in k + 1..L - 1 : q[i] = sleeping[i + 1]
    <2>1. \A i \in k + 1..L - 1 : i \in 1..L - 1 /\ ~(i < k) /\ i # k
      BY <1>1, <1>2, SMT
    <2> QED
      BY <1>4, <2>1
  <1>8. q[k] \in Entry
    <2>3. /\ sleeping[k + 1] \in Entry
          /\ sleeping[k].ticks \in Nat /\ sleeping[k + 1].ticks \in Nat
      BY <1>1, <1>2 DEF Entry
    <2>1. sleeping[k + 1] \in Entry /\ sleeping[k + 1].ticks + sleeping[k].ticks \in Nat
      BY <2>3, SMT
    <2> QED
      BY <1>6, <2>1, SMT DEF Entry
  <1>9. \A i \in 1..L - 1 : q[i] \in Entry
    <2> SUFFICES ASSUME NEW i \in 1..L - 1 PROVE q[i] \in Entry
      OBVIOUS
    <2>1. i \in 1..L /\ i + 1 \in 1..L /\ (i \in 1..k - 1 \/ i = k \/ i \in k + 1..L - 1)
      BY <1>1, <1>2, SMT
    <2> QED
      BY <1>1, <1>5, <1>7, <1>8, <2>1
  <1>10. q \in Seq(Entry) /\ Len(q) = L - 1
    <2>1. q = [i \in 1..L - 1 |-> q[i]]
      BY <1>3
    <2>2. q \in [1..L - 1 -> Entry]
      BY <1>9, <2>1
    <2>3. L - 1 \in Nat
      BY <1>1, <1>2, SMT
    <2> QED
      BY <2>2, <2>3, FunctionIsSeq, SMT
  <1>11. \A i \in k..L - 1 : q[i].ev = sleeping[i + 1].ev
    <2>1. \A i \in k..L - 1 : i = k \/ i \in k + 1..L - 1
      BY <1>1, <1>2, SMT
    <2> QED
      BY <1>6, <1>7, <2>1, SMT
  <1>12. q[k].ticks = sleeping[k].ticks + sleeping[k + 1].ticks
    BY <1>2, <1>6, DueFacts, SMT
  <1>13. \A i \in k + 1..L - 1 : q[i].ticks = sleeping[i + 1].ticks
    BY <1>7
  <1> QED
    BY <1>5, <1>10, <1>11, <1>12, <1>13 DEF Unlinked

\* timer_event::~timer_event with the lock: the removal and release_lock.
LEMMA EventDtorRemoveStep ==
  ASSUME TimerInv, NEW e \in Event, EventDtorRemove(e)
  PROVE  TimerInv'
  <1> DEFINE L == Len(sleeping)
  <1>1. /\ stage[e] = "dtor_remove" /\ stage' = [stage EXCEPT ![e] = "gone"]
        /\ sleep_list_lock' = 0
        /\ UNCHANGED <<ticks, pending_ticks, handling, called, asked, left, drift, crashed>>
    BY DEF EventDtorRemove, Pass, history
  <1>2. HasQueue(e) /\ crashed' \in BOOLEAN /\ drift' \in [Event -> Int]
    BY <1>1 DEF HasQueue, TimerInv, TimerTypeOK
  <1>3. L \in Nat /\ \A i, j \in 1..L : sleeping[i].ev = sleeping[j].ev => i = j
    BY DueFacts DEF TimerInv, QueueInv
  <1>4. CASE ~(e \in Queued /\ Position(e) < L)
    <2>1. UNCHANGED sleeping
      BY <1>4 DEF EventDtorRemove
    <2>2. sleeping' \in Seq(Entry)
      BY <2>1 DEF TimerInv, TimerTypeOK, Entry
    <2>3. TimerTypeOK' /\ QueueInv' /\ QueueLockInv'
      BY <1>1, <1>2, <1>3, <2>1, <2>2, GiveQueue
    <2>4. OffsetInv'
      BY <1>1, <2>1, SameQueue DEF Wait
    <2> QED
      BY <2>3, <2>4 DEF TimerInv
  <1>5. CASE e \in Queued /\ Position(e) < L
    <2>0. PICK k, q : k = Position(e) /\ q = sleeping'
      OBVIOUS
    <2>1. q = Without(k)
      BY <1>5, <2>0 DEF EventDtorRemove
    <2>2. k \in 1..L - 1
      <3>1. \E i \in 1..L : sleeping[i].ev = e
        BY <1>5 DEF Queued
      <3>2. k \in 1..L
        BY <2>0, <3>1 DEF Position
      <3> QED
        BY <1>3, <1>5, <2>0, <3>2, SMT
    <2>3. Unlinked(q, k)
      BY <2>1, <2>2, WithoutFacts
    <2>4. /\ q \in Seq(Entry) /\ Len(q) = L - 1
          /\ \A i \in 1..k - 1 : q[i] = sleeping[i]
          /\ \A i \in k..L - 1 : q[i].ev = sleeping[i + 1].ev
          /\ q[k].ticks = sleeping[k].ticks + sleeping[k + 1].ticks
          /\ \A i \in k + 1..L - 1 : q[i].ticks = sleeping[i + 1].ticks
      BY <2>3 DEF Unlinked
    <2>5. ASSUME NEW i \in 1..L - 1
          PROVE  \/ i < k /\ i \in 1..L /\ q[i].ev = sleeping[i].ev
                 \/ i >= k /\ i + 1 \in 1..L /\ q[i].ev = sleeping[i + 1].ev
      <3>1. \/ i < k /\ i \in 1..L /\ i \in 1..k - 1
            \/ i >= k /\ i + 1 \in 1..L /\ i \in k..L - 1
        BY <1>3, <2>2, SMT
      <3> QED
        BY <2>4, <3>1
    <2>6. \A i, j \in 1..Len(q) : q[i].ev = q[j].ev => i = j
      <3> SUFFICES ASSUME NEW i \in 1..L - 1, NEW j \in 1..L - 1, q[i].ev = q[j].ev PROVE i = j
        BY <2>4
      <3>1. i \in Int /\ j \in Int /\ k \in Int
        BY <2>2, SMT
      <3>2. CASE i < k
        BY <1>3, <2>5, <3>1, <3>2, SMT
      <3>3. CASE i >= k
        BY <1>3, <2>5, <3>1, <3>3, SMT
      <3> QED
        BY <3>1, <3>2, <3>3, SMT
    <2>7. \A i \in 1..Len(q) : \E j \in 1..L : q[i].ev = sleeping[j].ev
      BY <2>4, <2>5
    <2>8. TimerTypeOK' /\ QueueInv' /\ QueueLockInv'
      BY <1>1, <1>2, <2>0, <2>4, <2>6, <2>7, GiveQueue
    <2>9. /\ Due(0)' = 0
          /\ \A i \in 1..k - 1 : Due(i)' = Due(i)
          /\ \A i \in k..L - 1 : Due(i)' = Due(i + 1)
      <3>1. Due(0)' = 0
        BY DEF Due
      <3>2. \A i \in 1..k - 1 : Due(i)' = Due(i)
        BY <1>1, <2>0, <2>4 DEF Due, Wait
      <3>3. ASSUME NEW i \in k..L - 1 PROVE Due(i)' = Due(i + 1)
        <4>1. i # 0 /\ i + 1 # 0
          BY <2>2, SMT
        <4>2. sleeping'[i].ev = sleeping[i + 1].ev
          BY <2>0, <2>4
        <4> QED
          BY <1>1, <4>1, <4>2 DEF Due, Wait
      <3> QED
        BY <3>1, <3>2, <3>3
    <2>10. ASSUME NEW i \in 1..Len(q) PROVE q[i].ticks = Due(i)' - Due(i - 1)'
      <3>0. i \in 1..L - 1
        BY <2>4
      <3>1. CASE i < k
        <4>1. i \in 1..k - 1 /\ i \in 1..L /\ (i = 1 \/ i - 1 \in 1..k - 1)
          BY <1>3, <2>2, <3>0, <3>1, SMT
        <4>2. q[i] = sleeping[i] /\ sleeping[i].ticks = Due(i) - Due(i - 1)
          BY <2>4, <4>1, DueFacts
        <4>3. Due(i - 1)' = Due(i - 1)
          BY <2>9, <4>1, DueFacts, SMT
        <4> QED
          BY <2>9, <4>1, <4>2, <4>3
      <3>2. CASE i = k
        <4>1. Due(k - 1)' = Due(k - 1)
          <5>1. k = 1 \/ k - 1 \in 1..k - 1
            BY <2>2, SMT
          <5> QED
            BY <2>9, <5>1, DueFacts, SMT
        <4>2. k \in 1..L /\ k + 1 \in 1..L /\ k \in k..L - 1 /\ (k + 1) - 1 = k
              /\ k - 1 \in 0..L /\ k \in 0..L /\ k + 1 \in 0..L
          BY <1>3, <2>2, SMT
        <4>3. /\ sleeping[k].ticks = Due(k) - Due(k - 1)
              /\ sleeping[k + 1].ticks = Due(k + 1) - Due(k)
              /\ Due(k - 1) \in Int /\ Due(k) \in Int /\ Due(k + 1) \in Int
          BY <4>2, DueFacts
        <4>4. Due(k)' = Due(k + 1)
          BY <2>9, <4>2
        <4>5. q[k].ticks = Due(k + 1) - Due(k - 1)
          BY <2>4, <4>3, SMT
        <4> QED
          BY <3>2, <4>1, <4>4, <4>5
      <3>3. CASE i > k
        <4>1. i \in k + 1..L - 1 /\ i \in k..L - 1 /\ i - 1 \in k..L - 1 /\ i + 1 \in 1..L
              /\ (i - 1) + 1 = i /\ (i + 1) - 1 = i
          BY <1>3, <2>2, <3>0, <3>3, SMT
        <4>2. q[i].ticks = sleeping[i + 1].ticks /\ sleeping[i + 1].ticks = Due(i + 1) - Due(i)
          BY <2>4, <4>1, DueFacts
        <4>3. Due(i)' = Due(i + 1) /\ Due(i - 1)' = Due(i)
          BY <2>9, <4>1
        <4> QED
          BY <4>2, <4>3
      <3> QED
        BY <2>2, <3>0, <3>1, <3>2, <3>3, SMT
    <2>11. ASSUME NEW i \in 1..Len(q), Due(i)' = 0 PROVE asked[q[i].ev] = 0
      <3>0. i \in 1..L - 1 /\ \A j \in 1..L : Due(j) = 0 => asked[sleeping[j].ev] = 0
        BY <2>4 DEF TimerInv, OffsetInv
      <3>1. \/ i \in 1..k - 1 /\ i \in 1..L
            \/ i \in k..L - 1 /\ i + 1 \in 1..L
        BY <1>3, <2>2, <3>0, SMT
      <3> QED
        BY <2>4, <2>9, <2>11, <3>0, <3>1
    <2>12. OffsetInv'
      BY <1>1, <2>0, <2>10, <2>11 DEF OffsetInv
    <2> QED
      BY <2>8, <2>12 DEF TimerInv
  <1> QED
    BY <1>4, <1>5

-----------------------------------------------------------------------------
\* The timer interrupts while a thread has the queue, or takes it.
LEMMA TickStep ==
  ASSUME TimerInv, TickDeferred \/ Tick \/ TickOnDead
  PROVE  TimerInv'
  <1> USE TimerAssumption
  <1>1. UNCHANGED <<sleeping, stage, called, asked, drift>>
    BY DEF TickDeferred, Tick, TickOnDead, history
  <1>10. \/ /\ left' = [e \in Event |-> IF e \in Queued THEN left[e] - 1 ELSE left[e]]
            /\ pending_ticks' = pending_ticks + 1
         \/ left' = left /\ pending_ticks' = pending_ticks
    BY DEF TickDeferred, Tick, TickOnDead, CountTick, history
  <1>11. /\ left \in [Event -> Int] /\ drift \in [Event -> Int]
         /\ pending_ticks \in 0..MaxPending + 1
    BY DEF TimerInv, TimerTypeOK
  <1>12. left' \in [Event -> Int]
    BY <1>10, <1>11, SMT
  <1>13. \A e \in Event : e \notin Queued => left'[e] = left[e]
    BY <1>10
  <1>14. ASSUME NEW i \in 1..Len(sleeping)
         PROVE  left'[sleeping[i].ev] + pending_ticks' + drift'[sleeping[i].ev] = Wait(sleeping[i].ev)
    <2>1. PICK e : e = sleeping[i].ev
      OBVIOUS
    <2>2. e \in Event /\ e \in Queued
      BY <2>1, EntryFacts DEF TimerInv, Queued
    <2>3. left[e] \in Int /\ drift[e] \in Int
      BY <1>11, <2>2
    <2>4. \/ left'[e] = left[e] - 1 /\ pending_ticks' = pending_ticks + 1
          \/ left'[e] = left[e] /\ pending_ticks' = pending_ticks
      BY <1>10, <2>2
    <2>5. left'[e] + pending_ticks' + drift[e] = left[e] + pending_ticks + drift[e]
      <3>1. CASE left'[e] = left[e] - 1 /\ pending_ticks' = pending_ticks + 1
        <4>1. \A x, y, z \in Int : (x - 1) + (y + 1) + z = x + y + z
          BY SMT
        <4>2. pending_ticks \in Int
          BY <1>11, SMT
        <4>3. (left[e] - 1) + (pending_ticks + 1) + drift[e] = left[e] + pending_ticks + drift[e]
          BY <2>3, <4>1, <4>2
        <4> QED
          BY <3>1, <4>3
      <3>2. CASE left'[e] = left[e] /\ pending_ticks' = pending_ticks
        BY <3>2
      <3> QED
        BY <2>4, <3>1, <3>2
    <2> QED
      BY <1>1, <2>1, <2>5 DEF Wait
  <1>2. ticks' \in 0..Frequency - 1
    <2>1. ticks \in 0..Frequency - 1
      BY DEF TimerInv, TimerTypeOK
    <2>2. ticks' = (ticks + 1) % Frequency \/ ticks' = ticks
      BY DEF TickDeferred, Tick, TickOnDead, CountTick
    <2> QED
      BY <2>1, <2>2, SMT
  <1>3. /\ pending_ticks' \in 0..MaxPending + 1
        /\ sleep_list_lock' \in {0, 1} /\ handling' \in BOOLEAN /\ crashed' \in BOOLEAN
    <2>1. /\ pending_ticks \in 0..MaxPending + 1 /\ (~handling => pending_ticks <= MaxPending)
          /\ sleep_list_lock \in {0, 1} /\ handling \in BOOLEAN /\ crashed \in BOOLEAN
          /\ handling => sleep_list_lock = 1
      BY DEF TimerInv, TimerTypeOK, QueueLockInv
    <2>2. CASE TickDeferred
      BY <2>1, <2>2, SMT DEF TickDeferred
    <2>3. CASE Tick
      BY <2>1, <2>3, SMT DEF Tick
    <2>4. CASE TickOnDead
      BY <2>1, <2>4 DEF TickOnDead
    <2> QED
      BY <2>2, <2>3, <2>4
  <1>4. TimerTypeOK'
    BY <1>1, <1>2, <1>3, <1>12 DEF TimerInv, TimerTypeOK
  <1>5. OffsetInv'
    BY <1>1, <1>14, SameQueue
  <1>6. QueueInv'
    <2>1. ASSUME NEW e \in Event, stage[e] \in {"ctor_lock", "ctor_insert"}
          PROVE  left'[e] = asked[e]
      <3>1. e \notin Queued
        BY <2>1 DEF TimerInv, QueueInv, Queued
      <3> QED
        BY <1>13, <2>1, <3>1 DEF TimerInv, QueueInv
    <2> QED
      BY <1>1, <2>1 DEF TimerInv, QueueInv
  <1>7. QueueLockInv'
    <2>1. \A e \in Event : HasQueue(e)' <=> HasQueue(e)
      BY <1>1 DEF HasQueue
    <2>2. pending_ticks \in Nat
      BY SMT DEF TimerInv, TimerTypeOK
    <2>3. CASE TickDeferred
      BY <2>1, <2>2, <2>3, SMT DEF TickDeferred, TimerInv, QueueLockInv
    <2>4. CASE Tick
      BY <2>1, <2>4, SMT DEF Tick, TimerInv, QueueLockInv
    <2>5. CASE TickOnDead
      BY <2>1, <2>5 DEF TickOnDead, TimerInv, QueueLockInv
    <2> QED
      BY <2>3, <2>4, <2>5
  <1> QED
    BY <1>4, <1>5, <1>6, <1>7 DEF TimerInv

\* The handler gives the queue back.
LEMMA EndTickStep ==
  ASSUME TimerInv, EndTick
  PROVE  TimerInv'
  <1> USE TimerAssumption
  <1>1. TimerTypeOK'
    <2>1. 0 \in 0..MaxPending + 1
      BY SMT
    <2>2. pending_ticks' \in 0..MaxPending + 1 /\ sleep_list_lock' \in {0, 1} /\ handling' \in BOOLEAN
      BY <2>1 DEF EndTick
    <2> QED
      BY <2>2 DEF EndTick, TimerInv, TimerTypeOK, history
  <1>2. OffsetInv'
    <2>1. UNCHANGED <<sleeping, asked, left, drift>>
      BY DEF EndTick, history
    <2>2. CASE sleeping = << >>
      <3>1. 1..Len(sleeping) = {}
        BY <2>2, SMT
      <3> QED
        BY <2>1, <3>1, SameQueue
    <2>3. CASE pending_ticks <= 0
      <3>1. pending_ticks = 0
        BY <2>3, SMT DEF TimerInv, TimerTypeOK
      <3>2. pending_ticks' = pending_ticks
        BY <3>1 DEF EndTick
      <3> QED
        BY <2>1, <3>2, SameQueue DEF Wait
    <2> QED
      BY <2>2, <2>3 DEF EndTick
  <1>3. QueueInv'
    BY DEF EndTick, TimerInv, QueueInv, history
  <1>4. QueueLockInv'
    <2>1. \A e \in Event : ~HasQueue(e)'
      BY DEF EndTick, TimerInv, QueueLockInv, HasQueue
    <2> QED
      BY <2>1, SMT DEF EndTick, QueueLockInv
  <1> QED
    BY <1>1, <1>2, <1>3, <1>4 DEF TimerInv

\* The queue with its first event one tick further.
OneLess == [sleeping EXCEPT ![1].ticks = @ - 1]

\* What the tick takes off the waits: nothing if the first event has none left.
Taken == IF Due(1) > 0 THEN 1 ELSE 0

\* The entries of that queue.
LEMMA OneLessFacts ==
  ASSUME TimerInv, sleeping # << >>
  PROVE  /\ Len(sleeping) \in Nat \ {0} /\ Len(OneLess) = Len(sleeping)
         /\ OneLess[1] = [ev |-> sleeping[1].ev, ticks |-> Due(1) - 1]
         /\ sleeping[1].ticks = Due(1) /\ Due(1) \in Nat /\ Taken \in {0, 1} /\ Taken <= Due(1)
         /\ \A i \in 2..Len(sleeping) : OneLess[i] = sleeping[i]
         /\ \A i \in 1..Len(sleeping) : OneLess[i].ev = sleeping[i].ev /\ OneLess[i].ticks \in Int
  <1> DEFINE L == Len(sleeping)
             d == OneLess
  <1>1. /\ L \in Nat /\ sleeping \in Seq(Entry)
        /\ \A i \in 1..L : sleeping[i] \in Entry /\ sleeping[i].ticks \in Nat
    BY EntryFacts DEF TimerInv, TimerTypeOK, Entry
  <1>2. L # 0 /\ DOMAIN sleeping = 1..L
    BY <1>1, LenFacts, SMT
  <1>3. 1 \in 1..L /\ 1 \in 0..L
    BY <1>1, <1>2, SMT
  <1>4. sleeping[1].ticks = Due(1) /\ Due(1) \in Nat /\ Taken \in {0, 1} /\ Taken <= Due(1)
    <2>1. sleeping[1].ticks = Due(1) - Due(1 - 1) /\ Due(1) \in Int /\ Due(1) >= 0 /\ Due(0) = 0
      BY <1>3, DueFacts
    <2>2. Due(1 - 1) = Due(0)
      BY SMT
    <2> QED
      BY <2>1, <2>2, SMT DEF Taken
  <1>5. d = [i \in 1..L |-> IF i = 1 THEN [sleeping[1] EXCEPT !.ticks = @ - 1] ELSE sleeping[i]]
    BY <1>2, <1>3 DEF OneLess
  <1> HIDE DEF d
  <1>6. d[1] = [ev |-> sleeping[1].ev, ticks |-> Due(1) - 1]
    <2>1. d[1] = [sleeping[1] EXCEPT !.ticks = @ - 1]
      BY <1>3, <1>5
    <2>2. sleeping[1] \in Entry
      BY <1>1, <1>3
    <2> QED
      BY <1>4, <2>1, <2>2 DEF Entry
  <1>7. \A i \in 2..L : d[i] = sleeping[i]
    <2>1. \A i \in 2..L : i \in 1..L /\ i # 1
      BY <1>1, SMT
    <2> QED
      BY <1>5, <2>1
  <1>8. \A i \in 1..L : i = 1 \/ i \in 2..L
    BY <1>1, SMT
  <1>9. Len(d) = L
    BY <1>1, <1>5, SMT
  <1>10. \A i \in 1..L : d[i].ev = sleeping[i].ev
    BY <1>6, <1>7, <1>8, SMT
  <1>11. \A i \in 1..L : d[i].ticks \in Int
    <2>1. d[1].ticks \in Int
      BY <1>4, <1>6, SMT
    <2>2. \A i \in 2..L : d[i].ticks \in Int
      BY <1>1, <1>7, <1>8, SMT
    <2> QED
      BY <1>8, <2>1, <2>2
  <1> QED
    BY <1>1, <1>2, <1>4, <1>6, <1>7, <1>9, <1>10, <1>11 DEF d

\* The dispatched events are the ones at the head that are all due at this tick.
LEMMA ExpiredFacts ==
  ASSUME TimerInv, sleeping # << >>
  PROVE  /\ Expired(OneLess) \in 0..Len(sleeping)
         /\ \A i \in 1..Expired(OneLess) : Due(i) = Taken
         /\ Expired(OneLess) < Len(sleeping) => OneLess[Expired(OneLess) + 1].ticks > 0
  <1> DEFINE L == Len(sleeping)
             P(k) == /\ \A i \in 1..k : OneLess[i].ticks <= 0
                     /\ k < L => OneLess[k + 1].ticks > 0
             S == {k \in Nat : k <= L /\ (k < L => OneLess[k + 1].ticks > 0)}
  <1>0. L \in Nat \ {0} /\ Len(OneLess) = L /\ \A i \in 1..L : OneLess[i].ticks \in Int
    BY OneLessFacts
  <1>1. \E k \in 0..L : P(k)
    <2>1. \A k : k \in S <=> k \in Nat /\ k <= L /\ (k < L => OneLess[k + 1].ticks > 0)
      OBVIOUS
    <2>2. S \in SUBSET Nat
      OBVIOUS
    <2> HIDE DEF S
    <2>3. L \in S
      BY <1>0, <2>1, SMT
    <2>4. PICK k \in S : \A l \in S : k <= l
      BY <2>2, <2>3, LeastNat
    <2>5. k \in 0..L /\ (k < L => OneLess[k + 1].ticks > 0)
      BY <2>1, <2>4, SMT
    <2>6. ASSUME NEW i \in 1..k PROVE OneLess[i].ticks <= 0
      <3>1. i - 1 \in Nat /\ i - 1 <= L /\ i - 1 < L /\ ~(k <= i - 1) /\ i \in 1..L /\ (i - 1) + 1 = i
        BY <1>0, <2>5, SMT
      <3>2. ~(OneLess[i].ticks > 0) /\ OneLess[i].ticks \in Int
        BY <1>0, <2>1, <2>4, <3>1
      <3> QED
        BY <3>2, SMT
    <2> QED
      BY <2>5, <2>6
  <1>2. PICK k : k = Expired(OneLess)
    OBVIOUS
  <1>3. k = CHOOSE l \in 0..L : P(l)
    BY <1>0, <1>2 DEF Expired
  <1>4. k \in 0..L /\ P(k)
    BY <1>1, <1>3
  <1>5. ASSUME k # 0 PROVE \A i \in 1..k : Due(i) = Taken
    <2>1. 1 \in 1..k /\ k - 1 \in Nat
      BY <1>4, <1>5, SMT
    <2>2. Due(1) = Taken /\ Taken \in Int
      <3>1. OneLess[1].ticks <= 0
        BY <1>4, <2>1
      <3> QED
        BY <3>1, OneLessFacts, SMT DEF Taken
    <2>3. \A i \in 1..k : Due(i) \in Int /\ Taken <= Due(i)
      <3>1. \A i \in 1..k : i \in 0..L /\ 1 \in 0..L /\ 1 <= i
        BY <1>0, <1>4, SMT
      <3>2. \A i \in 1..k : Due(i) \in Int /\ Due(1) <= Due(i)
        BY <3>1, DueFacts
      <3> QED
        BY <2>2, <3>2
    <2>4. \A i \in 2..k : Due(i) = Due(i - 1)
      <3> SUFFICES ASSUME NEW i \in 2..k PROVE Due(i) = Due(i - 1)
        OBVIOUS
      <3>1. i \in 1..k /\ i \in 2..L /\ i \in 1..L /\ i \in 0..L /\ i - 1 \in 0..L
        BY <1>0, <1>4, SMT
      <3>2. sleeping[i].ticks <= 0
        BY <1>4, <3>1, OneLessFacts
      <3>3. sleeping[i].ticks \in Nat /\ sleeping[i].ticks = Due(i) - Due(i - 1)
            /\ Due(i) \in Int /\ Due(i - 1) \in Int
        BY <3>1, DueFacts
      <3> QED
        BY <3>2, <3>3, SMT
    <2> DEFINE w == [i \in 0..k - 1 |-> - Due(i + 1)]
    <2>5. w \in [0..k - 1 -> Int] /\ \A i \in 1..k - 1 : w[i - 1] <= w[i]
      <3>1. \A i \in 0..k - 1 : i + 1 \in 1..k
        BY <1>4, SMT
      <3>2. \A i \in 0..k - 1 : - Due(i + 1) \in Int
        BY <2>3, <3>1, SMT
      <3>3. \A i \in 1..k - 1 : i \in 0..k - 1 /\ i - 1 \in 0..k - 1 /\ i + 1 \in 2..k /\ (i + 1) - 1 = i /\ (i - 1) + 1 = i
        BY <1>4, SMT
      <3>4. \A i \in 1..k - 1 : w[i - 1] = w[i]
        <4> SUFFICES ASSUME NEW i \in 1..k - 1 PROVE w[i - 1] = w[i]
          OBVIOUS
        <4>1. w[i] = - Due(i + 1) /\ w[i - 1] = - Due(i)
          BY <3>3
        <4>2. Due(i + 1) = Due(i)
          BY <2>4, <3>3
        <4> QED
          BY <4>1, <4>2
      <3>5. w \in [0..k - 1 -> Int]
        BY <3>2
      <3> HIDE DEF w
      <3>6. \A i \in 1..k - 1 : w[i] \in Int
        BY <3>3, <3>5
      <3> QED
        BY <3>4, <3>5, <3>6, SMT
    <2>6. \A i \in 1..k : w[i - 1] = - Due(i) /\ i - 1 \in 0..k - 1
      <3> SUFFICES ASSUME NEW i \in 1..k PROVE w[i - 1] = - Due(i) /\ i - 1 \in 0..k - 1
        OBVIOUS
      <3>1. i - 1 \in 0..k - 1 /\ (i - 1) + 1 = i
        BY <1>4, SMT
      <3> QED
        BY <3>1
    <2> HIDE DEF w
    <2>7. \A i, j \in 0..k - 1 : i <= j => w[i] <= w[j]
      BY <2>1, <2>5, Climb
    <2> SUFFICES ASSUME NEW i \in 1..k PROVE Due(i) = Taken
      OBVIOUS
    <2>8. w[0] = - Taken
      <3>1. w[1 - 1] = - Due(1)
        BY <2>1, <2>6
      <3> QED
        BY <2>2, <3>1, SMT
    <2>9. w[0] <= w[i - 1]
      <3>1. 0 \in 0..k - 1 /\ 0 <= i - 1
        BY <1>4, <2>1, SMT
      <3> QED
        BY <2>6, <2>7, <3>1
    <2>10. - Taken <= - Due(i)
      BY <2>6, <2>8, <2>9
    <2> QED
      BY <2>2, <2>3, <2>10, SMT
  <1>6. \A i \in 1..k : Due(i) = Taken
    <2>1. k = 0 => 1..k = {}
      BY SMT
    <2> QED
      BY <1>5, <2>1
  <1> QED
    BY <1>2, <1>4, <1>6

\* One turn of the loop of timer_handler, in terms of the queue before it: the
\* first k events are dispatched, and the tick is taken off the others.
LEMMA ChargeTickFacts ==
  ASSUME TimerInv, ChargeTick
  PROVE  /\ sleeping # << >>
         /\ \E k \in 0..Len(sleeping) :
              /\ k = Expired(OneLess)
              /\ sleeping' = [i \in 1..Len(sleeping) - k |-> OneLess[i + k]]
              /\ called' = called \union {sleeping[i].ev : i \in 1..k}
         /\ \A i \in 1..Len(sleeping) :
              left'[sleeping[i].ev] + pending_ticks' + drift'[sleeping[i].ev] = Due(i) - Taken
         /\ UNCHANGED <<stage, asked, left>> /\ drift' \in [Event -> Int]
  <1>1. sleeping # << >>
    BY DEF ChargeTick
  <1>2. PICK k : k = Expired(OneLess)
    OBVIOUS
  <1>3. k \in 0..Len(sleeping)
    BY <1>1, <1>2, ExpiredFacts
  <1>4. /\ sleeping' = [i \in 1..Len(OneLess) - k |-> OneLess[i + k]]
        /\ called' = called \union {OneLess[i].ev : i \in 1..k}
    BY <1>2, SMT DEF ChargeTick, OneLess
  <1>5. Len(OneLess) = Len(sleeping) /\ \A i \in 1..k : OneLess[i].ev = sleeping[i].ev
    <2>1. Len(OneLess) = Len(sleeping) /\ \A i \in 1..Len(sleeping) : OneLess[i].ev = sleeping[i].ev
      BY <1>1, OneLessFacts
    <2>2. \A i \in 1..k : i \in 1..Len(sleeping)
      BY <1>3, DueFacts, SMT
    <2> QED
      BY <2>1, <2>2
  <1>6. called' = called \union {sleeping[i].ev : i \in 1..k}
    <2>1. {OneLess[i].ev : i \in 1..k} = {sleeping[i].ev : i \in 1..k}
      BY <1>5
    <2> QED
      BY <1>4, <2>1
  <1>7. /\ drift' = [e \in Event |->
                        IF e \in Queued /\ sleeping[1].ticks <= 0 THEN drift[e] + 1 ELSE drift[e]]
        /\ pending_ticks' = pending_ticks - 1 /\ UNCHANGED <<stage, asked, left>>
    BY DEF ChargeTick
  <1>8. /\ left \in [Event -> Int] /\ drift \in [Event -> Int]
        /\ pending_ticks \in 0..MaxPending + 1
    BY DEF TimerInv, TimerTypeOK
  <1>9. drift' \in [Event -> Int]
    BY <1>7, <1>8, SMT
  <1>10. ASSUME NEW i \in 1..Len(sleeping)
         PROVE  left'[sleeping[i].ev] + pending_ticks' + drift'[sleeping[i].ev] = Due(i) - Taken
    <2>1. PICK e : e = sleeping[i].ev
      OBVIOUS
    <2>2. e \in Event /\ e \in Queued /\ Due(i) = left[e] + pending_ticks + drift[e]
      BY <2>1, EntryFacts, DueFacts DEF TimerInv, Queued, Wait
    <2>3. left[e] \in Int /\ drift[e] \in Int
      BY <1>8, <2>2
    <2>4. drift'[e] = IF sleeping[1].ticks <= 0 THEN drift[e] + 1 ELSE drift[e]
      BY <1>7, <2>2
    <2>5. sleeping[1].ticks = Due(1) /\ Due(1) \in Nat
      BY <1>1, OneLessFacts
    <2>6. drift'[e] = drift[e] + 1 - Taken
      <3>1. CASE Due(1) = 0
        BY <2>3, <2>4, <2>5, <3>1, SMT DEF Taken
      <3>2. CASE Due(1) # 0
        BY <2>3, <2>4, <2>5, <3>2, SMT DEF Taken
      <3> QED
        BY <3>1, <3>2
    <2>7. Taken \in Int
      BY <1>1, OneLessFacts, SMT
    <2>8. left[e] + (pending_ticks - 1) + (drift[e] + 1 - Taken) = Due(i) - Taken
      BY <1>8, <2>2, <2>3, <2>7, SMT
    <2> QED
      BY <1>7, <2>1, <2>6, <2>8
  <1> QED
    BY <1>1, <1>2, <1>3, <1>4, <1>5, <1>6, <1>7, <1>9, <1>10

\* Entry i behind the k entries taken away was entry i + k.
LEMMA ShiftFacts ==
  ASSUME NEW n \in Nat, NEW k \in 0..n, NEW i \in 1..n - k
  PROVE  /\ i + k \in 1..n /\ i + k \in 0..n /\ (i + k) - 1 \in 0..n
         /\ i # 1 => i - 1 \in 1..n - k /\ (i - 1) + k = (i + k) - 1
  BY SMT

\* One tick is charged to the queue.
LEMMA ChargeTickStep ==
  ASSUME TimerInv, ChargeTick
  PROVE  TimerInv'
  <1> DEFINE L == Len(sleeping)
             d == OneLess
  <1>1. /\ sleeping # << >>
        /\ \A i \in 1..L :
              left'[sleeping[i].ev] + pending_ticks' + drift'[sleeping[i].ev] = Due(i) - Taken
        /\ UNCHANGED <<stage, asked, left>> /\ drift' \in [Event -> Int]
    BY ChargeTickFacts
  <1>2. PICK k \in 0..L : /\ k = Expired(d)
                          /\ sleeping' = [i \in 1..L - k |-> d[i + k]]
                          /\ called' = called \union {sleeping[i].ev : i \in 1..k}
    BY ChargeTickFacts
  <1>3. /\ L \in Nat \ {0} /\ Len(d) = L
        /\ d[1] = [ev |-> sleeping[1].ev, ticks |-> Due(1) - 1]
        /\ Due(1) \in Nat /\ Taken \in {0, 1} /\ Taken <= Due(1)
        /\ \A i \in 2..L : d[i] = sleeping[i]
        /\ \A i \in 1..L : d[i].ev = sleeping[i].ev /\ d[i].ticks \in Int
    BY <1>1, OneLessFacts
  <1>4. /\ \A i \in 1..k : Due(i) = Taken
        /\ k < L => d[k + 1].ticks > 0
    BY <1>1, <1>2, ExpiredFacts
  <1>5. PICK q : q = sleeping'
    OBVIOUS
  <1> HIDE DEF d
  <1>6. \A i \in 1..L - k : i + k \in 1..L /\ q[i] = d[i + k]
    BY <1>2, <1>3, <1>5, SMT
  <1>7. q \in Seq(Entry) /\ Len(q) = L - k
    <2>1. ASSUME NEW i \in 1..L - k PROVE d[i + k] \in Entry
      <3>1. CASE i + k = 1
        <4>1. k = 0 /\ k < L /\ k + 1 = 1
          BY <1>2, <1>3, <3>1, SMT
        <4>2. d[1].ticks > 0 /\ d[1].ticks = Due(1) - 1
          <5>1. d[k + 1].ticks > 0
            BY <1>4, <4>1
          <5> QED
            BY <1>3, <4>1, <5>1, SMT
        <4>3. sleeping[1].ev \in Event
          <5>1. 1 \in 1..L
            BY <1>3, SMT
          <5> QED
            BY <5>1, EntryFacts DEF TimerInv
        <4>4. Due(1) - 1 \in Nat
          BY <1>3, <4>2, SMT
        <4> QED
          BY <1>3, <3>1, <4>3, <4>4, SMT DEF Entry
      <3>2. CASE i + k # 1
        <4>1. i + k \in 2..L /\ i + k \in 1..L
          BY <1>2, <1>3, <3>2, SMT
        <4> QED
          BY <1>3, <4>1, EntryFacts DEF TimerInv
      <3> QED
        BY <3>1, <3>2
    <2>2. \A i \in 1..L - k : q[i] \in Entry
      BY <1>6, <2>1
    <2>3. q = [i \in 1..L - k |-> q[i]]
      BY <1>2, <1>5
    <2>4. q \in [1..L - k -> Entry]
      BY <2>2, <2>3
    <2>5. L - k \in Nat
      BY <1>2, <1>3, SMT
    <2> QED
      BY <2>4, <2>5, FunctionIsSeq
  <1>8. \A i \in 1..L - k : i + k \in 1..L /\ q[i].ev = sleeping[i + k].ev
    BY <1>3, <1>6
  <1>9. TimerTypeOK'
    <2>1. pending_ticks' \in 0..MaxPending + 1
      <3>1. pending_ticks > 0 /\ pending_ticks' = pending_ticks - 1
        BY DEF ChargeTick
      <3>2. pending_ticks \in 0..MaxPending + 1
        BY DEF TimerInv, TimerTypeOK
      <3> QED
        BY <3>1, <3>2, TimerAssumption, SMT
    <2>2. called' \subseteq Event
      <3>1. \A i \in 1..k : sleeping[i].ev \in Event
        <4>1. \A i \in 1..k : i \in 1..L
          BY <1>2, <1>3, SMT
        <4> QED
          BY <4>1, EntryFacts DEF TimerInv
      <3> QED
        BY <1>2, <3>1 DEF TimerInv, TimerTypeOK
    <2> QED
      BY <1>1, <1>5, <1>7, <2>1, <2>2 DEF ChargeTick, TimerInv, TimerTypeOK, Entry
  <1>9a. \A i \in 1..k : i \in 1..L /\ \A j \in 1..L - k : i # j + k
    BY <1>2, <1>3, SMT
  <1>9b. \A x, y \in 1..L : sleeping[x].ev = sleeping[y].ev => x = y
    BY DEF TimerInv, QueueInv
  <1>10. QueueInv'
    <2>1. stage' = stage
      BY DEF ChargeTick
    <2>2. \A i, j \in 1..L - k : q[i].ev = q[j].ev => i = j
      <3> SUFFICES ASSUME NEW i \in 1..L - k, NEW j \in 1..L - k, q[i].ev = q[j].ev PROVE i = j
        OBVIOUS
      <3>1. \A x, y \in 1..L : sleeping[x].ev = sleeping[y].ev => x = y
        BY DEF TimerInv, QueueInv
      <3>2. i + k = j + k
        BY <1>8, <3>1, SMT
      <3> QED
        BY <1>2, <3>2, SMT
    <2>3. \A i \in 1..L - k : stage[q[i].ev] \in {"live", "dtor_remove", "gone"}
      BY <1>8 DEF TimerInv, QueueInv
    <2>4. \A i \in 1..L - k : q[i].ev \notin called'
      <3> SUFFICES ASSUME NEW i \in 1..L - k, q[i].ev \in called' PROVE FALSE
        OBVIOUS
      <3>1. i + k \in 1..L /\ q[i].ev = sleeping[i + k].ev /\ q[i].ev \notin called
        BY <1>8 DEF TimerInv, QueueInv
      <3>2. PICK j \in 1..k : q[i].ev = sleeping[j].ev
        BY <1>2, <3>1
      <3> QED
        BY <1>9a, <1>9b, <3>1, <3>2
    <2>5. ASSUME NEW e \in Event, stage[e] \in {"new", "ctor_lock", "ctor_insert"}
          PROVE  e \notin called'
      <3>1. \A j \in 1..k : sleeping[j].ev # e
        BY <1>9a, <2>5 DEF TimerInv, QueueInv
      <3>2. e \notin called
        BY <2>5 DEF TimerInv, QueueInv
      <3> QED
        BY <1>2, <3>1, <3>2
    <2>6. \A e \in Event : stage[e] \in {"ctor_lock", "ctor_insert"} => left'[e] = asked'[e]
      BY <1>1 DEF TimerInv, QueueInv
    <2> QED
      BY <1>5, <1>7, <2>1, <2>2, <2>3, <2>4, <2>5, <2>6 DEF QueueInv
  <1>11. QueueLockInv'
    <2>1. handling /\ handling' = handling /\ sleep_list_lock' = sleep_list_lock
      BY DEF ChargeTick
    <2>2. \A e \in Event : HasQueue(e)' <=> HasQueue(e)
      BY DEF ChargeTick, HasQueue
    <2> QED
      BY <2>1, <2>2 DEF TimerInv, QueueLockInv
  <1>12. Due(0)' = 0 /\ \A i \in 1..L - k : Due(i)' = Due(i + k) - Taken
    <2>1. Due(0)' = 0
      BY DEF Due
    <2> SUFFICES ASSUME NEW i \in 1..L - k PROVE Due(i)' = Due(i + k) - Taken
      BY <2>1
    <2>2. Due(i)' = left'[q[i].ev] + pending_ticks' + drift'[q[i].ev]
      <3>1. i # 0
        BY SMT
      <3> QED
        BY <1>5, <3>1 DEF Due, Wait
    <2> QED
      BY <1>1, <1>8, <2>2
  <1>13. ASSUME NEW i \in 1..L - k PROVE q[i].ticks = Due(i)' - Due(i - 1)'
    <2>0. i + k \in 1..L /\ i + k \in 0..L /\ (i + k) - 1 \in 0..L
      BY <1>3, ShiftFacts
    <2>1. Due(i + k) \in Int /\ Due((i + k) - 1) \in Int
      BY <2>0, DueFacts
    <2>2. CASE i + k = 1
      <3>1. i = 1 /\ k = 0 /\ k < L /\ k + 1 = 1
        BY <1>2, <1>3, <2>2, SMT
      <3>2. q[1] = d[1] /\ d[1].ticks = Due(1) - 1 /\ d[1].ticks > 0
        <4>1. d[k + 1].ticks > 0 /\ q[i] = d[i + k]
          BY <1>4, <1>6, <3>1
        <4>2. i = 1 /\ i + k = 1 /\ k + 1 = 1
          BY <3>1, SMT
        <4>3. d[1].ticks > 0 /\ q[1] = d[1]
          BY <4>1, <4>2
        <4> QED
          BY <1>3, <4>3, SMT
      <3>3. Taken = 1
        BY <1>3, <3>2, SMT DEF Taken
      <3>4. Due(i)' = Due(1) - 1 /\ Due(i - 1)' = 0
        BY <1>12, <2>2, <3>1, <3>3, SMT
      <3> QED
        BY <1>3, <3>1, <3>2, <3>4, SMT
    <2>3. CASE i + k # 1
      <3>1. i + k \in 2..L
        BY <2>0, <2>3, SMT
      <3>2. q[i].ticks = Due(i + k) - Due((i + k) - 1)
        BY <1>3, <1>6, <2>0, <3>1, DueFacts
      <3>3. CASE i = 1
        <4>1. k \in 1..k /\ (i + k) - 1 = k
          BY <1>2, <2>3, <3>3, SMT
        <4>2. Due((i + k) - 1) = Taken
          BY <1>4, <4>1
        <4> QED
          BY <1>3, <1>12, <3>2, <3>3, <4>2, <2>1, SMT
      <3>4. CASE i # 1
        <4>1. i - 1 \in 1..L - k /\ (i - 1) + k = (i + k) - 1
          BY <1>3, <3>4, ShiftFacts
        <4>2. Due(i - 1)' = Due((i + k) - 1) - Taken
          BY <1>12, <4>1
        <4> QED
          BY <1>3, <1>12, <2>1, <3>2, <4>2, SMT
      <3> QED
        BY <3>3, <3>4
    <2> QED
      BY <2>2, <2>3
  <1>14. ASSUME NEW i \in 1..L - k PROVE Due(i)' # 0
    <2>1. k + 1 \in 1..L /\ k + 1 \in 0..L /\ i + k \in 0..L /\ k + 1 <= i + k /\ k < L /\ k \in 0..L
      BY <1>2, <1>3, SMT
    <2>2. Due(k + 1) <= Due(i + k) /\ Due(k + 1) \in Int /\ Due(i + k) \in Int /\ Due(k) \in Int
      BY <2>1, DueFacts
    <2>3. Due(k + 1) > Taken
      <3>1. CASE k = 0
        <4>1. d[1].ticks > 0 /\ d[1].ticks = Due(1) - 1 /\ k + 1 = 1
          BY <1>3, <1>4, <2>1, <3>1, SMT
        <4> QED
          BY <1>3, <4>1, SMT
      <3>2. CASE k # 0
        <4>1. k \in 1..k /\ k + 1 \in 2..L /\ (k + 1) - 1 = k
          BY <1>2, <2>1, <3>2, SMT
        <4>2. d[k + 1].ticks > 0 /\ d[k + 1] = sleeping[k + 1] /\ Due(k) = Taken
          BY <1>3, <1>4, <2>1, <4>1
        <4>3. sleeping[k + 1].ticks = Due(k + 1) - Due(k)
          BY <2>1, <4>1, DueFacts
        <4> QED
          BY <1>3, <2>2, <4>2, <4>3, SMT
      <3> QED
        BY <3>1, <3>2
    <2> QED
      BY <1>3, <1>12, <2>2, <2>3, SMT
  <1>15. OffsetInv'
    BY <1>5, <1>7, <1>13, <1>14 DEF OffsetInv
  <1> QED
    BY <1>9, <1>10, <1>11, <1>15 DEF TimerInv

-----------------------------------------------------------------------------
\* The queue is empty at boot.
LEMMA TimerInitInv == TimerInit => TimerInv
  <1> SUFFICES ASSUME TimerInit PROVE TimerInv
    OBVIOUS
  <1> USE TimerAssumption
  <1>1. sleeping = << >> /\ Len(sleeping) = 0 /\ 1..Len(sleeping) = {}
    BY SMT DEF TimerInit
  <1>2. TimerTypeOK
    <2>1. << >> \in Seq([ev : Event, ticks : Nat])
      BY SMT
    <2>2. 0 \in 0..Frequency - 1 /\ 0 \in 0..MaxPending + 1 /\ 0 \in Int /\ 0 \in Nat
      BY SMT
    <2>3. ticks \in 0..Frequency - 1 /\ pending_ticks \in 0..MaxPending + 1
      BY <2>2 DEF TimerInit
    <2>4. sleep_list_lock \in {0, 1} /\ handling \in BOOLEAN /\ crashed \in BOOLEAN
      BY DEF TimerInit
    <2>5. /\ stage \in [Event -> Stages] /\ called \subseteq Event
          /\ asked \in [Event -> Nat] /\ left \in [Event -> Int] /\ drift \in [Event -> Int]
      BY <2>2 DEF TimerInit, Stages
    <2> QED
      BY <1>1, <2>1, <2>3, <2>4, <2>5 DEF TimerTypeOK
  <1>3. OffsetInv
    BY <1>1 DEF OffsetInv
  <1>4. QueueInv
    BY <1>1 DEF TimerInit, QueueInv
  <1>5. QueueLockInv
    BY SMT DEF TimerInit, QueueLockInv, HasQueue
  <1> QED
    BY <1>2, <1>3, <1>4, <1>5 DEF TimerInv

\* Every step of a thread and of the handler keeps the invariant.
LEMMA TimerNextInv ==
  ASSUME TimerInv, [TimerNext]_timerVars
  PROVE  TimerInv'
  <1>1. ASSUME NEW e \in Event, EventCtor(e) PROVE TimerInv'
    BY <1>1, EventCtorStep
  <1>2. ASSUME NEW e \in Event, EventDtor(e) PROVE TimerInv'
    BY <1>2, EventDtorStep
  <1>3. ASSUME NEW e \in Event, EventCtorLock(e) PROVE TimerInv'
    BY <1>3, EventCtorLockStep
  <1>4. ASSUME NEW e \in Event, EventCtorInsert(e) PROVE TimerInv'
    BY <1>4, EventCtorInsertStep
  <1>5. ASSUME NEW e \in Event, EventDtorRemove(e) PROVE TimerInv'
    BY <1>5, EventDtorRemoveStep
  <1>6. CASE TickDeferred \/ Tick \/ TickOnDead
    BY <1>6, TickStep
  <1>7. CASE ChargeTick
    BY <1>7, ChargeTickStep
  <1>8. CASE EndTick
    BY <1>8, EndTickStep
  <1>9. CASE UNCHANGED timerVars
    <2>1. OffsetInv'
      BY <1>9, SameQueue DEF timerVars, Wait
    <2>2. \A e \in Event : HasQueue(e)' <=> HasQueue(e)
      BY <1>9 DEF timerVars, HasQueue
    <2>3. TimerTypeOK' /\ QueueInv' /\ QueueLockInv'
      BY <1>9, <2>2 DEF timerVars, TimerInv, TimerTypeOK, QueueInv, QueueLockInv
    <2> QED
      BY <2>1, <2>3 DEF TimerInv
  <1> QED
    BY <1>1, <1>2, <1>3, <1>4, <1>5, <1>6, <1>7, <1>8, <1>9 DEF TimerNext, EventStep

\* What a step calls back was queued behind nothing that is due earlier.
LEMMA FiresStep ==
  ASSUME TimerInv, TimerNext,
         NEW e \in (called' \ called) \cap Queued, NEW f \in Queued \ called'
  PROVE  left[e] + drift[e] <= left[f] + drift[f]
  <1>1. PICK i, j \in 1..Len(sleeping) : e = sleeping[i].ev /\ f = sleeping[j].ev
    BY DEF Queued
  <1>2. /\ 1 \in 0..Len(sleeping) /\ i \in 0..Len(sleeping) /\ j \in 0..Len(sleeping) /\ 1 <= j
        /\ sleeping # << >>
    BY <1>1, DueFacts, SMT
  <1>3. /\ Wait(e) = Due(i) /\ Wait(f) = Due(j) /\ Due(i) \in Int /\ Due(j) \in Int
        /\ Due(1) <= Due(j) /\ Taken <= Due(1) /\ Due(1) \in Int /\ Taken \in {0, 1}
    BY <1>1, <1>2, DueFacts, OneLessFacts
  <1>4. e \in Event /\ f \in Event /\ called' # called
    BY <1>1, EntryFacts DEF TimerInv
  <1>5. CASE \E g \in Event : EventCtor(g)
    <2>1. PICK g \in Event : EventCtor(g)
      BY <1>5
    <2>2. stage[g] = "new" /\ e = g
      BY <2>1 DEF EventCtor, Pass
    <2> QED
      BY <1>1, <2>2 DEF TimerInv, QueueInv
  <1>6. CASE ChargeTick
    <2>1. PICK k \in 0..Len(sleeping) : /\ k = Expired(OneLess)
                                        /\ called' = called \union {sleeping[x].ev : x \in 1..k}
      BY <1>6, ChargeTickFacts
    <2>2. PICK x \in 1..k : e = sleeping[x].ev
      BY <2>1
    <2>3. Due(x) = Taken
      BY <1>2, <2>1, <2>2, ExpiredFacts
    <2>4. x \in 1..Len(sleeping)
      BY <2>1, <2>2, DueFacts, SMT
    <2>5. Wait(e) = Taken
      BY <2>2, <2>3, <2>4, DueFacts
    <2>6. Wait(e) <= Wait(f)
      BY <1>3, <2>5, SMT
    <2>7. /\ left[e] \in Int /\ left[f] \in Int /\ drift[e] \in Int /\ drift[f] \in Int
          /\ pending_ticks \in 0..MaxPending + 1
      BY <1>4 DEF TimerInv, TimerTypeOK
    <2> QED
      BY <2>6, <2>7, SMT DEF Wait
  <1>7. CASE \/ \E g \in Event : EventDtor(g) \/ EventStep(g)
             \/ TickDeferred \/ Tick \/ TickOnDead \/ EndTick
    BY <1>4, <1>7 DEF EventDtor, EventStep, EventCtorLock, EventCtorInsert, EventDtorRemove,
                      TickDeferred, Tick, TickOnDead, EndTick
  <1> QED
    BY <1>5, <1>6, <1>7 DEF TimerNext

(***************************************************************************)
(* The handler dispatches the events in the order in which they are due    *)
(* by the queue's account, whatever was inserted and removed in between,   *)
(* however many ticks it charges at once, and zero-length events included. *)
(***************************************************************************)
THEOREM DueOrder == TimerSpec => FiresInOrder
  <1>1. TimerInv /\ [TimerNext]_timerVars => TimerInv'
    BY TimerNextInv
  <1>2. TimerInv /\ [TimerNext]_timerVars =>
          [\A e \in (called' \ called) \cap Queued, f \in Queued \ called' :
              left[e] + drift[e] <= left[f] + drift[f]]_timerVars
    BY FiresStep
  <1> QED
    BY <1>1, <1>2, TimerInitInv, PTL DEF TimerSpec, FiresInOrder

-----------------------------------------------------------------------------
(* How far the queue's account of an event drifts                          *)

INSTANCE FiniteSetTheorems

\* Events are called back one by one, and each tick lost to the events behind it
\* has called back an event that asked for nothing.
DriftInv == IsFiniteSet(called) /\ DriftIsBounded

\* More zero-length events only widen the bound, if those in the queue keep their
\* drift.
LEMMA DriftStays ==
  ASSUME TimerInv, DriftInv, IsFiniteSet(called'), called \subseteq called',
         \A z \in called : asked'[z] = asked[z],
         \A e \in Queued' : e \in Queued /\ drift'[e] = drift[e]
  PROVE  DriftInv'
  <1>1. ZeroCalled \subseteq ZeroCalled' /\ IsFiniteSet(ZeroCalled')
    <2>1. ZeroCalled' \subseteq called'
      BY DEF ZeroCalled
    <2>2. IsFiniteSet(ZeroCalled')
      BY <2>1, FS_Subset
    <2> QED
      BY <2>2 DEF ZeroCalled
  <1>2. /\ Cardinality(ZeroCalled) <= Cardinality(ZeroCalled') /\ Cardinality(ZeroCalled) \in Nat
        /\ Cardinality(ZeroCalled') \in Nat
    <2>1. IsFiniteSet(ZeroCalled)
      BY <1>1, FS_Subset
    <2> QED
      BY <1>1, <2>1, FS_Subset, FS_CardinalityType
  <1>3. ASSUME NEW e \in Queued'
        PROVE  - MaxPending <= drift'[e] /\ drift'[e] <= Cardinality(ZeroCalled')
    <2>1. /\ e \in Queued /\ drift'[e] = drift[e]
          /\ - MaxPending <= drift[e] /\ drift[e] <= Cardinality(ZeroCalled)
      BY <1>3 DEF DriftInv, DriftIsBounded
    <2>2. drift[e] \in Int
      BY <2>1, EntryFacts DEF TimerInv, TimerTypeOK, Queued
    <2> QED
      BY <1>2, <2>1, <2>2, SMT
  <1> QED
    BY <1>3 DEF DriftInv, DriftIsBounded

\* The drift of a new event is what is pending.
LEMMA DriftOfNew ==
  ASSUME TimerInv, DriftInv, NEW e \in Event, EventCtorInsert(e)
  PROVE  DriftInv'
  <1>1. stage[e] = "ctor_insert" /\ UNCHANGED <<called, asked>>
    BY DEF EventCtorInsert, Pass
  <1>2. CASE DeadQueued
    <2>1. UNCHANGED <<sleeping, drift>>
      BY <1>2 DEF EventCtorInsert
    <2> QED
      BY <1>1, <2>1, DriftStays DEF DriftInv, Queued
  <1>3. CASE ~DeadQueued
    <2>1. sleeping' = Inserted(e, asked[e]) /\ drift' = [drift EXCEPT ![e] = - pending_ticks]
      BY <1>3 DEF EventCtorInsert
    <2>2. drift \in [Event -> Int] /\ asked[e] \in Nat /\ pending_ticks \in 0..MaxPending + 1
      BY DEF TimerInv, TimerTypeOK
    <2>3. PICK k, q : k = InsertionPoint(asked[e]) /\ q = sleeping'
      OBVIOUS
    <2>4. Spliced(q, k, e, asked[e])
      BY <2>1, <2>2, <2>3, InsertedFacts
    <2>5. Queued' \subseteq Queued \union {e}
      <3> SUFFICES ASSUME NEW i \in 1..Len(q) PROVE q[i].ev \in Queued \union {e}
        BY <2>3 DEF Queued
      <3>1. k \in 1..Len(sleeping) + 1 /\ Len(q) = Len(sleeping) + 1 /\ Len(sleeping) \in Nat
        BY <2>4, DueFacts DEF Spliced
      <3>2. \/ i \in 1..k - 1 /\ i \in 1..Len(sleeping)
            \/ i = k
            \/ i \in k + 1..Len(sleeping) + 1 /\ i - 1 \in 1..Len(sleeping)
        BY <3>1, SMT
      <3> QED
        BY <2>4, <3>2 DEF Spliced, Queued
    <2>6. /\ ~handling /\ pending_ticks <= MaxPending
      BY <1>1 DEF TimerInv, QueueLockInv, HasQueue
    <2>7. IsFiniteSet(ZeroCalled) /\ Cardinality(ZeroCalled) \in Nat
      <3>1. ZeroCalled \subseteq called
        BY DEF ZeroCalled
      <3> QED
        BY <3>1, FS_Subset, FS_CardinalityType DEF DriftInv
    <2>8. ZeroCalled' = ZeroCalled
      BY <1>1 DEF ZeroCalled
    <2>9. ASSUME NEW f \in Queued'
          PROVE  - MaxPending <= drift'[f] /\ drift'[f] <= Cardinality(ZeroCalled)
      <3>1. CASE f = e
        <4>1. drift'[f] = - pending_ticks
          BY <2>1, <2>2, <3>1
        <4> QED
          BY <2>2, <2>6, <2>7, <4>1, TimerAssumption, SMT
      <3>2. CASE f # e
        <4>1. f \in Queued /\ f \in Event
          BY <2>5, <2>9, <3>2, EntryFacts DEF TimerInv, Queued
        <4>2. drift'[f] = drift[f]
          BY <2>1, <2>2, <3>2, <4>1
        <4> QED
          BY <4>1, <4>2 DEF DriftInv, DriftIsBounded
      <3> QED
        BY <3>1, <3>2
    <2> QED
      BY <1>1, <2>8, <2>9 DEF DriftInv, DriftIsBounded
  <1> QED
    BY <1>2, <1>3

\* A tick that is lost to the events behind a zero-length one has dispatched it.
LEMMA DriftOfTick ==
  ASSUME TimerInv, DriftInv, ChargeTick
  PROVE  DriftInv'
  <1> DEFINE L == Len(sleeping)
  <1>1. sleeping # << >> /\ UNCHANGED asked
    BY DEF ChargeTick
  <1>2. PICK k \in 0..L : /\ k = Expired(OneLess)
                          /\ sleeping' = [i \in 1..L - k |-> OneLess[i + k]]
                          /\ called' = called \union {sleeping[i].ev : i \in 1..k}
    BY ChargeTickFacts
  <1>3. IsFiniteSet(called')
    <2>1. k \in Int
      BY <1>2, SMT
    <2>2. IsFiniteSet(1..k)
      BY <2>1, FS_Interval, SMT
    <2>3. IsFiniteSet({sleeping[i].ev : i \in 1..k})
      <3> DEFINE f == [i \in 1..k |-> sleeping[i].ev]
                 T == {sleeping[i].ev : i \in 1..k}
      <3>1. f \in [1..k -> T] /\ \A y \in T : \E i \in 1..k : f[i] = y
        OBVIOUS
      <3>2. f \in Surjection(1..k, T)
        BY <3>1 DEF Surjection
      <3> HIDE DEF f, T
      <3>3. IsFiniteSet(T)
        BY <2>2, <3>2, FS_Surjection
      <3> QED
        BY <3>3 DEF T
    <2> QED
      BY <1>2, <2>3, FS_Union DEF DriftInv
  <1>4. Queued' \subseteq Queued
    <2>1. L \in Nat /\ \A i \in 1..L : OneLess[i].ev = sleeping[i].ev
      BY <1>1, OneLessFacts
    <2>2. L - k \in Nat /\ \A i \in 1..L - k : i + k \in 1..L
      BY <1>2, <2>1, SMT
    <2>3. Len(sleeping') = L - k
      BY <1>2, <2>2, SMT
    <2>4. \A i \in 1..L - k : sleeping'[i] = OneLess[i + k]
      BY <1>2
    <2>5. \A i \in 1..L - k : sleeping'[i].ev \in Queued
      BY <2>1, <2>2, <2>4 DEF Queued
    <2> QED
      BY <2>3, <2>5 DEF Queued
  <1>5. drift' = [e \in Event |->
                    IF e \in Queued /\ sleeping[1].ticks <= 0 THEN drift[e] + 1 ELSE drift[e]]
    BY DEF ChargeTick
  <1>6. sleeping[1].ticks = Due(1) /\ Due(1) \in Nat /\ L \in Nat \ {0} /\ OneLess[1].ticks = Due(1) - 1
    BY <1>1, OneLessFacts, SMT
  <1>7. \A e \in Queued : e \in Event /\ drift[e] \in Int
    BY EntryFacts DEF TimerInv, TimerTypeOK, Queued
  <1>8. CASE Due(1) # 0
    <2>1. \A e \in Queued : drift'[e] = drift[e]
      BY <1>5, <1>6, <1>7, <1>8, SMT
    <2> QED
      BY <1>1, <1>2, <1>3, <1>4, <2>1, DriftStays
  <1>9. CASE Due(1) = 0
    <2>1. PICK z : z = sleeping[1].ev
      OBVIOUS
    <2>2. 1 \in 1..L
      BY <1>6, SMT
    <2>3. asked[z] = 0 /\ z \notin called
      BY <1>9, <2>1, <2>2 DEF TimerInv, OffsetInv, QueueInv
    <2>4. 1 \in 1..k
      <3>1. k # 0
        <4> SUFFICES ASSUME k = 0 PROVE FALSE
          OBVIOUS
        <4>1. k < L /\ k + 1 = 1
          BY <1>6, SMT
        <4>2. OneLess[1].ticks > 0
          BY <1>1, <1>2, <4>1, ExpiredFacts
        <4> QED
          BY <1>6, <1>9, <4>2, SMT
      <3> QED
        BY <1>2, <3>1, SMT
    <2>5. z \in ZeroCalled' /\ z \notin ZeroCalled /\ ZeroCalled \subseteq ZeroCalled'
      BY <1>1, <1>2, <2>1, <2>3, <2>4 DEF ZeroCalled
    <2>6. IsFiniteSet(ZeroCalled') /\ IsFiniteSet(ZeroCalled)
      <3>1. ZeroCalled' \subseteq called' /\ ZeroCalled \subseteq called
        BY DEF ZeroCalled
      <3> QED
        BY <1>3, <3>1, FS_Subset DEF DriftInv
    <2>7. ZeroCalled \union {z} \subseteq ZeroCalled'
      BY <2>5
    <2>8. Cardinality(ZeroCalled \union {z}) = Cardinality(ZeroCalled) + 1
      BY <2>5, <2>6, FS_AddElement
    <2>9. Cardinality(ZeroCalled \union {z}) <= Cardinality(ZeroCalled')
      BY <2>6, <2>7, FS_Subset
    <2>10. Cardinality(ZeroCalled) \in Nat /\ Cardinality(ZeroCalled') \in Nat
      BY <2>6, FS_CardinalityType
    <2>11. ASSUME NEW e \in Queued'
           PROVE  - MaxPending <= drift'[e] /\ drift'[e] <= Cardinality(ZeroCalled')
      <3>1. e \in Queued /\ e \in Event /\ drift[e] \in Int
        BY <1>4, <1>7, <2>11
      <3>2. - MaxPending <= drift[e] /\ drift[e] <= Cardinality(ZeroCalled)
        BY <3>1 DEF DriftInv, DriftIsBounded
      <3>3. drift'[e] = drift[e] + 1
        <4>1. sleeping[1].ticks <= 0
          BY <1>6, <1>9, SMT
        <4> QED
          BY <1>5, <3>1, <4>1
      <3> QED
        BY <2>8, <2>9, <2>10, <3>1, <3>2, <3>3, TimerAssumption, SMT
    <2> QED
      BY <1>3, <2>11 DEF DriftInv, DriftIsBounded
  <1> QED
    BY <1>8, <1>9

\* Every other step leaves the drift of the queued events alone.
LEMMA DriftNext ==
  ASSUME TimerInv, DriftInv, [TimerNext]_timerVars
  PROVE  DriftInv'
  <1>1. ASSUME NEW e \in Event, EventCtor(e) PROVE DriftInv'
    <2>1. UNCHANGED <<sleeping, drift>> /\ called' \in {called, called \union {e}}
      BY <1>1 DEF EventCtor
    <2>2. IsFiniteSet(called') /\ called \subseteq called'
      BY <2>1, FS_AddElement DEF DriftInv
    <2>3. e \notin called /\ asked \in [Event -> Nat] /\ called \subseteq Event
      BY <1>1 DEF EventCtor, Pass, TimerInv, TimerTypeOK, QueueInv
    <2>4. \A z \in called : asked'[z] = asked[z]
      BY <1>1, <2>3 DEF EventCtor
    <2> QED
      BY <2>1, <2>2, <2>4, DriftStays DEF Queued
  <1>2. ASSUME NEW e \in Event, EventCtorInsert(e) PROVE DriftInv'
    BY <1>2, DriftOfNew
  <1>3. ASSUME NEW e \in Event, EventDtorRemove(e) PROVE DriftInv'
    <2>1. UNCHANGED <<called, asked, drift>>
      BY <1>3 DEF EventDtorRemove, history
    <2>2. Queued' \subseteq Queued
      <3>1. CASE ~(e \in Queued /\ Position(e) < Len(sleeping))
        BY <1>3, <3>1 DEF EventDtorRemove, Queued
      <3>2. CASE e \in Queued /\ Position(e) < Len(sleeping)
        <4>1. PICK k, q : k = Position(e) /\ q = sleeping'
          OBVIOUS
        <4>2. q = Without(k)
          BY <1>3, <3>2, <4>1 DEF EventDtorRemove
        <4>3. Len(sleeping) \in Nat
          BY DueFacts
        <4>4. k \in 1..Len(sleeping)
          BY <3>2, <4>1 DEF Position, Queued
        <4>5. k \in 1..Len(sleeping) - 1
          BY <3>2, <4>1, <4>3, <4>4, SMT
        <4>6. Unlinked(q, k)
          BY <4>2, <4>5, WithoutFacts
        <4>7. \A i \in 1..Len(sleeping) - 1 : \/ i \in 1..k - 1 /\ i \in 1..Len(sleeping)
                                              \/ i \in k..Len(sleeping) - 1 /\ i + 1 \in 1..Len(sleeping)
          BY <4>3, <4>5, SMT
        <4>8. \A i \in 1..Len(q) : q[i].ev \in Queued
          BY <4>6, <4>7 DEF Unlinked, Queued
        <4> QED
          BY <4>1, <4>8 DEF Queued
      <3> QED
        BY <3>1, <3>2
    <2> QED
      BY <2>1, <2>2, DriftStays DEF DriftInv
  <1>4. CASE ChargeTick
    BY <1>4, DriftOfTick
  <1>5. CASE \/ \E e \in Event : EventDtor(e) \/ EventCtorLock(e)
             \/ TickDeferred \/ Tick \/ TickOnDead \/ EndTick
             \/ UNCHANGED timerVars
    <2>1. UNCHANGED <<sleeping, called, asked, drift>>
      BY <1>5 DEF EventDtor, EventCtorLock, TickDeferred, Tick, TickOnDead, EndTick, timerVars, history
    <2> QED
      BY <2>1, DriftStays DEF DriftInv, Queued
  <1> QED
    BY <1>1, <1>2, <1>3, <1>4, <1>5 DEF TimerNext, EventStep

(***************************************************************************)
(* For every number of events, of ticks charged late and of zero-length    *)
(* requests, the counters of the sleep queue add up to what each event     *)
(* asked for, less the timer interrupts that came while it was queued and  *)
(* plus its drift (timer.cpp:14-16), and the drift is bounded: an event is *)
(* early by at most the ticks that a lock may keep pending and late by at  *)
(* most one tick for each zero-length event dispatched.                    *)
(***************************************************************************)
THEOREM ExactQueue == TimerSpec => []QueueIsExact
  <1>1. TimerInit => TimerInv /\ DriftInv
    <2> SUFFICES ASSUME TimerInit PROVE DriftInv
      BY TimerInitInv
    <2>1. called = {} /\ Queued = {}
      BY SMT DEF TimerInit, Queued
    <2> QED
      BY <2>1, FS_EmptySet DEF DriftInv, DriftIsBounded
  <1>2. TimerInv /\ DriftInv /\ [TimerNext]_timerVars => (TimerInv /\ DriftInv)'
    BY TimerNextInv, DriftNext
  <1>3. TimerInv /\ DriftInv => QueueIsExact
    BY InvAddsUp DEF QueueIsExact, TimerInv, DriftInv
  <1> QED
    BY <1>1, <1>2, <1>3, PTL DEF TimerSpec

-----------------------------------------------------------------------------
(***************************************************************************)
(* RWLock, for any finite set of threads.  Exclusion alone is not          *)
(* inductive: it must be known who owns each lock word.                    *)
(***************************************************************************)
InReadLock == {"read_count", "read_first", "read_exit"}
CountedPC == {"read_first", "read_exit", "reading"}

\* _read_lock is 1 exactly while one thread is inside acquire_read's section.
ReadLockInv ==
    /\ \A t, u \in Thread :
            rwpc[t] \in InReadLock /\ rwpc[u] \in InReadLock => t = u
    /\ \A t \in Thread : rwpc[t] \in InReadLock => read_lock = 1

\* A reader that waits for the write lock is the only counted one.
FirstReaderInv ==
    \A t, u \in Thread :
        rwpc[t] = "read_first" /\ rwpc[u] \in CountedPC => t = u

\* The three kinds of owners of _write_lock exclude each other: a writer, the
\* last reader on its way out, and the readers as a group.
WriteLockInv ==
    /\ \A t \in Thread :
            rwpc[t] \in {"writing", "read_leave", "read_exit", "reading"} => write_lock = 1
    /\ \A t, u \in Thread :
            rwpc[t] \in {"writing", "read_leave"} =>
                \/ t = u
                \/ rwpc[u] \notin {"writing", "read_leave", "read_exit", "reading"}

RWInv == RWTypeOK /\ CountIsExact /\ ReadLockInv /\ FirstReaderInv /\ WriteLockInv

-----------------------------------------------------------------------------
\* There are finitely many threads at any point.
LEMMA AtFinite == \A S : IsFiniteSet(At(S))
  <1>1. \A S : At(S) \subseteq Thread
    BY DEF At
  <1> QED
    BY <1>1, RWAssumption, FS_Subset

(***************************************************************************)
(* How the set of counted readers changes when one thread moves.           *)
(***************************************************************************)
LEMMA CountedGrows ==
  ASSUME RWTypeOK, NEW t \in Thread, NEW from \in RWPC, NEW to \in RWPC,
         RWGoto(t, from, to), from \notin CountedPC, to \in CountedPC
  PROVE  Cardinality(At(CountedPC))' = Cardinality(At(CountedPC)) + 1
  <1>1. At(CountedPC)' = At(CountedPC) \union {t}
    BY DEF At, RWGoto, RWTypeOK
  <1>2. t \notin At(CountedPC)
    BY DEF At, RWGoto
  <1> QED
    BY <1>1, <1>2, AtFinite, FS_AddElement

\* A reader that stops being counted is one less.
LEMMA CountedShrinks ==
  ASSUME RWTypeOK, NEW t \in Thread, NEW from \in RWPC, NEW to \in RWPC,
         RWGoto(t, from, to), from \in CountedPC, to \notin CountedPC
  PROVE  Cardinality(At(CountedPC))' = Cardinality(At(CountedPC)) - 1
  <1>1. At(CountedPC)' = At(CountedPC) \ {t}
    BY DEF At, RWGoto, RWTypeOK
  <1>2. t \in At(CountedPC)
    BY DEF At, RWGoto
  <1> QED
    BY <1>1, <1>2, AtFinite, FS_RemoveElement

\* A thread that stays counted, or uncounted, changes nothing.
LEMMA CountedStays ==
  ASSUME RWTypeOK, NEW t \in Thread, NEW from \in RWPC, NEW to \in RWPC,
         RWGoto(t, from, to), from \in CountedPC <=> to \in CountedPC
  PROVE  Cardinality(At(CountedPC))' = Cardinality(At(CountedPC))
  <1>1. At(CountedPC)' = At(CountedPC)
    BY DEF At, RWGoto, RWTypeOK
  <1> QED
    BY <1>1

(***************************************************************************)
(* Reading the count: 0 means no counted reader, 1 means no other one.     *)
(***************************************************************************)
LEMMA CountZero ==
  ASSUME CountIsExact, active_readers = 0
  PROVE  \A u \in Thread : rwpc[u] \notin CountedPC
  <1>1. At(CountedPC) = {}
    BY AtFinite, FS_EmptySet DEF CountIsExact, CountedPC
  <1> QED
    BY <1>1 DEF At

\* If the count is one, the counted reader is the only one.
LEMMA CountOne ==
  ASSUME CountIsExact, active_readers = 1,
         NEW t \in Thread, rwpc[t] \in CountedPC
  PROVE  \A u \in Thread : rwpc[u] \in CountedPC => u = t
  <1>1. PICK x : At(CountedPC) = {x}
    BY AtFinite, FS_Singleton DEF CountIsExact, CountedPC
  <1> QED
    BY <1>1, SMT DEF At

\* A counted reader makes the count positive.
LEMMA CountPositive ==
  ASSUME CountIsExact, RWTypeOK, NEW t \in Thread, rwpc[t] \in CountedPC
  PROVE  active_readers \in Nat \ {0}
  <1>1. At(CountedPC) # {}
    BY DEF At
  <1> QED
    BY <1>1, AtFinite, FS_EmptySet DEF CountIsExact, CountedPC, RWTypeOK

\* A count that is not zero is somebody else's, for a thread that is not counted.
LEMMA CountMany ==
  ASSUME CountIsExact, RWTypeOK, NEW t \in Thread, active_readers # 0,
         rwpc[t] \notin CountedPC
  PROVE  \E u \in Thread : u # t /\ rwpc[u] \in CountedPC
  <1>1. At(CountedPC) # {}
    BY FS_EmptySet DEF CountIsExact, CountedPC
  <1> QED
    BY <1>1 DEF At

-----------------------------------------------------------------------------
\* A fresh lock satisfies the invariant.
LEMMA RWInitInv == RWInit => RWInv
  <1> SUFFICES ASSUME RWInit PROVE RWInv
    OBVIOUS
  <1>1. At(CountedPC) = {}
    BY DEF RWInit, At, CountedPC
  <1>2. CountIsExact
    BY <1>1, FS_EmptySet DEF RWInit, CountIsExact, CountedPC
  <1>3. RWTypeOK
    BY DEF RWInit, RWTypeOK, RWPC, AcquireReadPC, ReleaseReadPC
  <1> QED
    BY <1>2, <1>3 DEF RWInit, RWInv, ReadLockInv, FirstReaderInv, WriteLockInv, InReadLock, CountedPC

(***************************************************************************)
(* Every step preserves the invariant: one lemma per conjunct, with one    *)
(* step per action under it.                                               *)
(***************************************************************************)
LEMMA StepType ==
  ASSUME RWTypeOK, CountIsExact, NEW t \in Thread, ThreadCall(t) \/ ThreadStep(t)
  PROVE  RWTypeOK'
  <1> USE DEF RWTypeOK, RWGoto, RWPC, AcquireReadPC, ReleaseReadPC
  <1>1. CASE UncountReader(t)
    <2>1. rwpc[t] \in CountedPC
      BY <1>1 DEF UncountReader, CountedPC
    <2>2. active_readers \in Nat \ {0}
      BY <2>1, CountPositive
    <2> QED
      BY <1>1, <2>2, SMT DEF UncountReader
  <1>2. CASE CallAcquireRead(t) \/ CallAcquireWrite(t) \/ TryAcquireWrite(t)
    BY <1>2 DEF CallAcquireRead, CallAcquireWrite, TryAcquireWrite
  <1>3. CASE EnterReadLock(t) \/ CountReader(t) \/ FirstReaderTakesWriteLock(t)
    BY <1>3, SMT DEF EnterReadLock, CountReader, FirstReaderTakesWriteLock
  <1>4. CASE ExitReadLock(t) \/ LastReaderFreesWriteLock(t)
    BY <1>4 DEF ExitReadLock, LastReaderFreesWriteLock
  <1>5. CASE AcquireWrite(t) \/ ReleaseWrite(t)
    BY <1>5 DEF AcquireWrite, ReleaseWrite
  <1> QED
    BY <1>1, <1>2, <1>3, <1>4, <1>5, ZenonT(60) DEF ThreadCall, ThreadStep

\* Every instruction keeps _active_readers exact.
LEMMA StepCount ==
  ASSUME RWTypeOK, CountIsExact, NEW t \in Thread, ThreadCall(t) \/ ThreadStep(t)
  PROVE  CountIsExact'
  <1> DEFINE Counted == Cardinality(At(CountedPC))
  <1>0. /\ CountIsExact <=> active_readers = Counted
        /\ CountIsExact' <=> active_readers' = Counted'
    BY DEF CountIsExact, CountedPC
  <1> HIDE DEF Counted
  <1> USE DEF RWPC, AcquireReadPC, ReleaseReadPC, CountedPC
  <1>1. CASE CountReader(t)
    <2>1. PICK to \in {"read_first", "read_exit"} : RWGoto(t, "read_count", to)
      BY <1>1 DEF CountReader
    <2>2. Counted' = Counted + 1
      BY <2>1, CountedGrows DEF Counted
    <2> QED
      BY <1>0, <1>1, <2>2 DEF CountReader
  <1>2. CASE UncountReader(t)
    <2>1. PICK to \in {"read_leave", "idle"} : RWGoto(t, "reading", to)
      BY <1>2 DEF UncountReader
    <2>2. Counted' = Counted - 1
      BY <2>1, CountedShrinks DEF Counted
    <2> QED
      BY <1>0, <1>2, <2>2 DEF UncountReader
  <1>3. CASE \E from, to \in RWPC :
               /\ RWGoto(t, from, to)
               /\ from \in CountedPC <=> to \in CountedPC
               /\ UNCHANGED active_readers
    <2>1. Counted' = Counted
      BY <1>3, CountedStays DEF Counted
    <2> QED
      BY <1>0, <1>3, <2>1
  <1>4. CASE CallAcquireRead(t) \/ CallAcquireWrite(t) \/ TryAcquireWrite(t)
    BY <1>3, <1>4 DEF CallAcquireRead, CallAcquireWrite, TryAcquireWrite
  <1>5. CASE EnterReadLock(t) \/ FirstReaderTakesWriteLock(t) \/ ExitReadLock(t)
    BY <1>3, <1>5 DEF EnterReadLock, FirstReaderTakesWriteLock, ExitReadLock
  <1>6. CASE LastReaderFreesWriteLock(t) \/ AcquireWrite(t) \/ ReleaseWrite(t)
    BY <1>3, <1>6 DEF LastReaderFreesWriteLock, AcquireWrite, ReleaseWrite
  <1> QED
    BY <1>1, <1>2, <1>4, <1>5, <1>6 DEF ThreadCall, ThreadStep

\* Every instruction keeps at most one thread inside _read_lock.
LEMMA StepReadLock ==
  ASSUME RWInv, NEW t \in Thread, ThreadCall(t) \/ ThreadStep(t)
  PROVE  ReadLockInv'
  <1> USE DEF RWInv, RWTypeOK, ReadLockInv, InReadLock, RWGoto
  <1>1. CASE CallAcquireRead(t) \/ CallAcquireWrite(t) \/ TryAcquireWrite(t)
    BY <1>1, SMT DEF CallAcquireRead, CallAcquireWrite, TryAcquireWrite
  <1>2. CASE EnterReadLock(t)
    BY <1>2, SMT DEF EnterReadLock
  <1>3. CASE CountReader(t) \/ FirstReaderTakesWriteLock(t)
    BY <1>3 DEF CountReader, FirstReaderTakesWriteLock
  <1>4. CASE ExitReadLock(t)
    BY <1>4 DEF ExitReadLock
  <1>5. CASE UncountReader(t) \/ LastReaderFreesWriteLock(t)
    BY <1>5 DEF UncountReader, LastReaderFreesWriteLock
  <1>6. CASE AcquireWrite(t) \/ ReleaseWrite(t)
    BY <1>6, SMT DEF AcquireWrite, ReleaseWrite
  <1> QED
    BY <1>1, <1>2, <1>3, <1>4, <1>5, <1>6 DEF ThreadCall, ThreadStep

\* Every instruction keeps a reader that waits for _write_lock the only one counted.
LEMMA StepFirstReader ==
  ASSUME RWInv, NEW t \in Thread, ThreadCall(t) \/ ThreadStep(t)
  PROVE  FirstReaderInv'
  <1> USE DEF RWInv, RWTypeOK, FirstReaderInv, CountedPC, RWGoto
  <1>1. CASE CallAcquireRead(t) \/ CallAcquireWrite(t) \/ TryAcquireWrite(t)
    BY <1>1 DEF CallAcquireRead, CallAcquireWrite, TryAcquireWrite
  <1>2. CASE EnterReadLock(t)
    BY <1>2 DEF EnterReadLock
  <1>3. CASE CountReader(t)
    <2>1. CASE active_readers = 0
      BY <1>3, <2>1, CountZero DEF CountReader
    <2>2. CASE active_readers # 0
      BY <1>3, <2>2 DEF CountReader, ReadLockInv, InReadLock
    <2> QED
      BY <2>1, <2>2
  <1>4. CASE FirstReaderTakesWriteLock(t) \/ ExitReadLock(t)
    BY <1>4 DEF FirstReaderTakesWriteLock, ExitReadLock
  <1>5. CASE UncountReader(t) \/ LastReaderFreesWriteLock(t)
    BY <1>5 DEF UncountReader, LastReaderFreesWriteLock
  <1>6. CASE AcquireWrite(t) \/ ReleaseWrite(t)
    BY <1>6, ZenonT(60) DEF AcquireWrite, ReleaseWrite
  <1> QED
    BY <1>1, <1>2, <1>3, <1>4, <1>5, <1>6 DEF ThreadCall, ThreadStep

\* Every instruction keeps the owners of _write_lock apart.
LEMMA StepWriteLock ==
  ASSUME RWInv, NEW t \in Thread, ThreadCall(t) \/ ThreadStep(t)
  PROVE  WriteLockInv'
  <1> USE DEF RWInv, RWTypeOK, WriteLockInv, RWGoto
  <1>1. CASE CallAcquireRead(t) \/ CallAcquireWrite(t) \/ TryAcquireWrite(t)
    BY <1>1, SMT DEF CallAcquireRead, CallAcquireWrite, TryAcquireWrite
  <1>2. CASE EnterReadLock(t)
    BY <1>2 DEF EnterReadLock
  <1>3. CASE CountReader(t)
    <2>1. CASE active_readers = 0
      BY <1>3, <2>1 DEF CountReader
    <2>2. CASE active_readers # 0
      \* The reader joins a group that owns the write lock already.
      <3>1. PICK u \in Thread : u # t /\ rwpc[u] \in CountedPC
        BY <1>3, <2>2, CountMany DEF CountReader, CountedPC
      <3>2. rwpc[u] \in {"read_exit", "reading"}
        BY <1>3, <3>1 DEF CountReader, ReadLockInv, InReadLock, CountedPC
      <3> QED
        BY <1>3, <2>2, <3>2 DEF CountReader
    <2> QED
      BY <2>1, <2>2
  <1>4. CASE FirstReaderTakesWriteLock(t)
    BY <1>4, SMT DEF FirstReaderTakesWriteLock
  <1>5. CASE ExitReadLock(t)
    BY <1>5 DEF ExitReadLock
  <1>6. CASE UncountReader(t)
    <2>1. CASE active_readers = 1
      \* The last reader inherits the write lock from the group.
      <3>1. \A u \in Thread : rwpc[u] \in CountedPC => u = t
        BY <1>6, <2>1, CountOne DEF UncountReader, CountedPC
      <3> QED
        BY <1>6, <2>1, <3>1, SMT DEF UncountReader, CountedPC
    <2>2. CASE active_readers # 1
      BY <1>6, <2>2 DEF UncountReader
    <2> QED
      BY <2>1, <2>2
  <1>7. CASE LastReaderFreesWriteLock(t)
    BY <1>7 DEF LastReaderFreesWriteLock
  <1>8. CASE AcquireWrite(t)
    BY <1>8, SMT DEF AcquireWrite
  <1>9. CASE ReleaseWrite(t)
    BY <1>9 DEF ReleaseWrite
  <1> QED
    BY <1>1, <1>2, <1>3, <1>4, <1>5, <1>6, <1>7, <1>8, <1>9 DEF ThreadCall, ThreadStep

\* Every instruction of the lock keeps the invariant.
LEMMA RWNextInv == RWInv /\ [RWNext]_rwVars => RWInv'
  <1> SUFFICES ASSUME RWInv, [RWNext]_rwVars PROVE RWInv'
    OBVIOUS
  <1>1. CASE UNCHANGED rwVars
    BY <1>1 DEF rwVars, RWInv, RWTypeOK, CountIsExact, ReadLockInv, FirstReaderInv, WriteLockInv, At
  <1>2. ASSUME NEW t \in Thread, ThreadCall(t) \/ ThreadStep(t)
        PROVE  RWInv'
    BY <1>2, StepType, StepCount, StepReadLock, StepFirstReader, StepWriteLock DEF RWInv
  <1> QED
    BY <1>1, <1>2 DEF RWNext

\* The inductive invariant of read_write_lock holds.
LEMMA RWInvariance == RWSpec => []RWInv
  BY RWInitInv, RWNextInv, PTL DEF RWSpec

-----------------------------------------------------------------------------
(***************************************************************************)
(* The lock words, the reader count and the program points stay well       *)
(* typed; in particular release_read never takes _active_readers below     *)
(* zero.                                                                   *)
(***************************************************************************)
THEOREM RWTypeCorrect == RWSpec => []RWTypeOK
  <1>1. RWInv => RWTypeOK
    BY DEF RWInv
  <1> QED
    BY <1>1, RWInvariance, PTL

(***************************************************************************)
(* The reader count is exact, for any finite number of threads.            *)
(***************************************************************************)
THEOREM CountCorrect == RWSpec => []CountIsExact
  <1>1. RWInv => CountIsExact
    BY DEF RWInv
  <1> QED
    BY <1>1, RWInvariance, PTL

(***************************************************************************)
(* A thread that has returned from acquire_write (or from a successful     *)
(* try_acquire_write) is alone in the lock until it calls release_write,   *)
(* for any finite number of threads.                                       *)
(***************************************************************************)
THEOREM MutualExclusion == RWSpec => []Exclusion
  <1>1. RWInv => Exclusion
    BY DEF RWInv, WriteLockInv, Exclusion, Readers, Writers, At
  <1> QED
    BY <1>1, RWInvariance, PTL

(***************************************************************************)
(* read_write_lock implements RWLockSpec: each instruction of the code is  *)
(* an atomic entry or exit of the abstract lock, or changes nothing there. *)
(***************************************************************************)
THEOREM Refinement == RWSpec => ImplementsRWLockSpec
  <1>1. RWInit => Abstract!Init
    BY DEF RWInit, Abstract!Init, Readers, Writers, At
  <1>2. RWInv /\ [RWNext]_rwVars => [Abstract!Next]_Abstract!vars
    <2> SUFFICES ASSUME RWInv, [RWNext]_rwVars
                 PROVE  [Abstract!Next]_Abstract!vars
      OBVIOUS
    <2> USE DEF RWInv, RWTypeOK, Readers, Writers, At, RWGoto
    <2>1. CASE UNCHANGED rwVars
      BY <2>1 DEF rwVars, Abstract!vars
    <2>2. ASSUME NEW t \in Thread, ThreadCall(t) \/ ThreadStep(t)
          PROVE  [Abstract!Next]_Abstract!vars
      <3>1. CASE \/ CallAcquireRead(t) \/ CallAcquireWrite(t)
                 \/ EnterReadLock(t) \/ LastReaderFreesWriteLock(t)
        BY <3>1 DEF CallAcquireRead, CallAcquireWrite, EnterReadLock,
                    LastReaderFreesWriteLock, Abstract!vars
      <3>2. CASE ExitReadLock(t)
        BY <3>2 DEF ExitReadLock, Abstract!vars
      <3>3. CASE CountReader(t)
        <4>1. CASE active_readers = 0
          BY <3>3, <4>1 DEF CountReader, Abstract!vars
        <4>2. CASE active_readers # 0
          <5>1. PICK u \in Thread : u # t /\ rwpc[u] \in CountedPC
            BY <3>3, <4>2, CountMany DEF CountReader, CountedPC
          <5>2. rwpc[u] \in {"read_exit", "reading"}
            BY <3>3, <5>1 DEF CountReader, ReadLockInv, InReadLock, CountedPC
          <5>3. Writers = {}
            BY <5>2 DEF WriteLockInv
          <5>4. t \notin Readers /\ Readers' = Readers \union {t} /\ Writers' = Writers
            BY <3>3, <4>2 DEF CountReader
          <5> QED
            BY <5>3, <5>4 DEF Abstract!Next, Abstract!EnterRead
        <4> QED
          BY <4>1, <4>2
      <3>4. CASE FirstReaderTakesWriteLock(t)
        <4>1. Writers = {}
          BY <3>4, SMT DEF FirstReaderTakesWriteLock, WriteLockInv
        <4>2. t \notin Readers /\ Readers' = Readers \union {t} /\ Writers' = Writers
          BY <3>4 DEF FirstReaderTakesWriteLock
        <4> QED
          BY <4>1, <4>2 DEF Abstract!Next, Abstract!EnterRead
      <3>5. CASE UncountReader(t)
        <4>1. t \in Readers /\ Readers' = Readers \ {t} /\ Writers' = Writers
          BY <3>5 DEF UncountReader
        <4> QED
          BY <4>1 DEF Abstract!Next, Abstract!ExitRead
      <3>6. CASE AcquireWrite(t) \/ (TryAcquireWrite(t) /\ write_lock = 0)
        <4>1. Readers = {} /\ Writers = {}
          BY <3>6, SMT DEF AcquireWrite, TryAcquireWrite, WriteLockInv
        <4>2. Readers' = Readers /\ Writers' = {t}
          BY <3>6, <4>1 DEF AcquireWrite, TryAcquireWrite
        <4> QED
          BY <4>1, <4>2 DEF Abstract!Next, Abstract!EnterWrite
      <3>7. CASE TryAcquireWrite(t) /\ write_lock # 0
        BY <3>7 DEF TryAcquireWrite, Abstract!vars
      <3>8. CASE ReleaseWrite(t)
        <4>1. t \in Writers /\ Writers' = Writers \ {t} /\ Readers' = Readers
          BY <3>8 DEF ReleaseWrite
        <4> QED
          BY <4>1 DEF Abstract!Next, Abstract!ExitWrite
      <3> QED
        BY <2>2, <3>1, <3>2, <3>3, <3>4, <3>5, <3>6, <3>7, <3>8 DEF ThreadCall, ThreadStep
    <2> QED
      BY <2>1, <2>2 DEF RWNext
  <1> QED
    BY <1>1, <1>2, RWInvariance, PTL DEF RWSpec, ImplementsRWLockSpec, Abstract!Spec
=============================================================================
