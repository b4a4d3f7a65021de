------------------------------- MODULE FsBlock -------------------------------
(***************************************************************************)
(* Blocking on a file system node: fs::fs_blocker (Kernel/include/fs/      *)
(* fs_blocker.h, Kernel/src/fs/fs_blocker.cpp), thread::block and          *)
(* thread::unblock (Kernel/src/arch/x86_64/thread.cpp) and the loop with   *)
(* which a writer wakes the readers of a pseudoterminal (Kernel/src/       *)
(* pty.cpp).                                                               *)
(*                                                                         *)
(* A reader has at most one blocker, on its own stack, alive from the      *)
(* constructor to the end of the destructor; it is named by its reader.    *)
(* The node's list of blockers is kept as a set: a writer wakes the first  *)
(* blocker of the list until it stops, and no property depends on which    *)
(* one is first.                                                           *)
(***************************************************************************)
EXTENDS Naturals, FiniteSets

CONSTANTS
    Reader,         \* threads that block on the node
    Waker,          \* threads that wake the blockers of the node
    SpuriousResume  \* TRUE: yield() may return to a thread that is blocked

ASSUME SpuriousAssumption == SpuriousResume \in BOOLEAN

\* A thread is named by what it does: it reads or it wakes.
ASSUME ThreadAssumption == Reader \intersect Waker = {}

VARIABLES
    smp,            \* the machine: TRUE if each thread may have a CPU of its
                    \* own; FALSE if `cli` keeps every other thread out
    node_lock,      \* fs_node::_blocked_lock
    blocked,        \* fs_node::_blocked
    lock,           \* thread_blocker::_lock of each blocker
    should_block,   \* thread_blocker::_should_block
    removed,        \* thread_blocker::_removed
    has_thread,     \* thread_blocker::_thread is not null
    state,          \* thread::state of each reader
    pc,             \* where each reader is
    wpc,            \* where each waker is
    target          \* the blocker each waker is calling unblock() on

blocker_vars == <<lock, should_block, removed, has_thread>>
vars == <<smp, node_lock, blocked, blocker_vars, state, pc, wpc, target>>

PC == {"idle", "ctor_node", "ctor_add", "ctor_unlock",
       "block_lock", "block_test", "block_skip", "block_commit", "block_park",
       "parked", "dtor_lock", "dtor_try", "dtor_remove", "dtor_unlock"}
WPC == {"idle", "loop", "wait_lock", "remove", "release"}

Init ==
    /\ smp \in BOOLEAN
    /\ node_lock = 0
    /\ blocked = {}
    /\ lock = [r \in Reader |-> 0]
    /\ should_block = [r \in Reader |-> TRUE]
    /\ removed = [r \in Reader |-> FALSE]
    /\ has_thread = [r \in Reader |-> FALSE]
    /\ state = [r \in Reader |-> "running"]
    /\ pc = [r \in Reader |-> "idle"]
    /\ wpc = [w \in Waker |-> "idle"]
    /\ target \in [Waker -> Reader]

\* A thread with interrupts disabled has its CPU for itself.
InterruptsOff(r) == pc[r] \in {"block_commit", "block_park"}
CanRun(a) == smp \/ \A r \in Reader \ {a} : ~InterruptsOff(r)

Goto(r, from, to) ==
    /\ pc[r] = from
    /\ pc' = [pc EXCEPT ![r] = to]
    /\ UNCHANGED <<smp, wpc, target>>

WGoto(w, from, to) ==
    /\ wpc[w] = from
    /\ wpc' = [wpc EXCEPT ![w] = to]
    /\ UNCHANGED <<smp, pc>>

-----------------------------------------------------------------------------
(* fs_blocker::fs_blocker                                                  *)

\* The members are initialised, then _lock = 1.
Construct(r) ==
    /\ Goto(r, "idle", "ctor_node")
    /\ lock' = [lock EXCEPT ![r] = 1]
    /\ should_block' = [should_block EXCEPT ![r] = TRUE]
    /\ removed' = [removed EXCEPT ![r] = FALSE]
    /\ has_thread' = [has_thread EXCEPT ![r] = FALSE]
    /\ UNCHANGED <<node_lock, blocked, state>>

CtorLockNode(r) ==
    /\ node_lock = 0
    /\ Goto(r, "ctor_node", "ctor_add")
    /\ node_lock' = 1
    /\ UNCHANGED <<blocked, blocker_vars, state>>

\* blocked()->add(this), then node->unlock().
CtorAdd(r) ==
    /\ Goto(r, "ctor_add", "ctor_unlock")
    /\ blocked' = blocked \union {r}
    /\ node_lock' = 0
    /\ UNCHANGED <<blocker_vars, state>>

CtorUnlock(r) ==
    /\ Goto(r, "ctor_unlock", "block_lock")
    /\ lock' = [lock EXCEPT ![r] = 0]
    /\ UNCHANGED <<node_lock, blocked, should_block, removed, has_thread, state>>

-----------------------------------------------------------------------------
(* thread::block                                                           *)

GetLock(r) ==
    /\ lock[r] = 0
    /\ Goto(r, "block_lock", "block_test")
    /\ lock' = [lock EXCEPT ![r] = 1]
    /\ UNCHANGED <<node_lock, blocked, should_block, removed, has_thread, state>>

\* Mutant: block() never asks should_block().
TestShouldBlockIgnored(r) ==
    /\ Goto(r, "block_test", "block_commit")
    /\ has_thread' = [has_thread EXCEPT ![r] = TRUE]
    /\ UNCHANGED <<node_lock, blocked, lock, should_block, removed, state>>

\* cli; set_thread(this); the test, and sti again if it fails.
TestShouldBlock(r) ==
    /\ Goto(r, "block_test", IF should_block[r] THEN "block_commit" ELSE "block_skip")
    /\ has_thread' = [has_thread EXCEPT ![r] = TRUE]
    /\ UNCHANGED <<node_lock, blocked, lock, should_block, removed, state>>

\* return true: the lock object goes out of scope.
SkipBlock(r) ==
    /\ Goto(r, "block_skip", "dtor_lock")
    /\ lock' = [lock EXCEPT ![r] = 0]
    /\ UNCHANGED <<node_lock, blocked, should_block, removed, has_thread, state>>

\* The lock object goes out of scope, interrupts still disabled.
CommitBlock(r) ==
    /\ Goto(r, "block_commit", "block_park")
    /\ lock' = [lock EXCEPT ![r] = 0]
    /\ UNCHANGED <<node_lock, blocked, should_block, removed, has_thread, state>>

\* state = blocked; sti; and the thread is switched out by yield().
Park(r) ==
    /\ Goto(r, "block_park", "parked")
    /\ state' = [state EXCEPT ![r] = "blocked"]
    /\ UNCHANGED <<node_lock, blocked, blocker_vars>>

\* yield() returns, and block() with it.
Resume(r) ==
    /\ state[r] = "running" \/ SpuriousResume
    /\ Goto(r, "parked", "dtor_lock")
    /\ UNCHANGED <<node_lock, blocked, blocker_vars, state>>

-----------------------------------------------------------------------------
(* fs_blocker::~fs_blocker                                                 *)

\* Mutant: the destructor trusts _removed without taking _lock.
DtorLockNotTaken(r) ==
    /\ Goto(r, "dtor_lock", IF removed[r] THEN "dtor_unlock" ELSE "dtor_try")
    /\ UNCHANGED <<node_lock, blocked, blocker_vars, state>>

DtorLock(r) ==
    /\ lock[r] = 0
    /\ Goto(r, "dtor_lock", IF removed[r] THEN "dtor_unlock" ELSE "dtor_try")
    /\ lock' = [lock EXCEPT ![r] = 1]
    /\ UNCHANGED <<node_lock, blocked, should_block, removed, has_thread, state>>

\* Mutant: the destructor spins for the node with _lock held.
DtorLockNodeSpins(r) ==
    /\ node_lock = 0
    /\ Goto(r, "dtor_try", "dtor_remove")
    /\ node_lock' = 1
    /\ UNCHANGED <<blocked, blocker_vars, state>>

\* try_lock: if the node is taken, release _lock and start again.
DtorTryLockNode(r) ==
    \/ /\ node_lock = 0
       /\ Goto(r, "dtor_try", "dtor_remove")
       /\ node_lock' = 1
       /\ UNCHANGED <<blocked, blocker_vars, state>>
    \/ /\ node_lock = 1
       /\ Goto(r, "dtor_try", "dtor_lock")
       /\ lock' = [lock EXCEPT ![r] = 0]
       /\ UNCHANGED <<node_lock, blocked, should_block, removed, has_thread, state>>

\* blocked()->remove(this), then unlock().
DtorRemove(r) ==
    /\ Goto(r, "dtor_remove", "dtor_unlock")
    /\ blocked' = blocked \ {r}
    /\ node_lock' = 0
    /\ UNCHANGED <<blocker_vars, state>>

DtorUnlock(r) ==
    /\ Goto(r, "dtor_unlock", "idle")
    /\ lock' = [lock EXCEPT ![r] = 0]
    /\ UNCHANGED <<node_lock, blocked, should_block, removed, has_thread, state>>

-----------------------------------------------------------------------------
(* The wake loop of pty::controller_write and pty::worker_write.           *)

WakeLockNode(w) ==
    /\ node_lock = 0
    /\ WGoto(w, "idle", "loop")
    /\ node_lock' = 1
    /\ UNCHANGED <<blocked, blocker_vars, state, target>>

\* The loop ends when nobody is blocked, or has_lines()/has_data() is false.
WakeUnlockNode(w) ==
    /\ WGoto(w, "loop", "idle")
    /\ node_lock' = 0
    /\ UNCHANGED <<blocked, blocker_vars, state, target>>

\* fs_blocker::unblock sets _should_block before it takes _lock.
UnblockFlag(w) ==
    \E r \in blocked :
        /\ WGoto(w, "loop", "wait_lock")
        /\ target' = [target EXCEPT ![w] = r]
        /\ should_block' = [should_block EXCEPT ![r] = FALSE]
        /\ UNCHANGED <<node_lock, blocked, lock, removed, has_thread, state>>

UnblockLock(w) ==
    /\ lock[target[w]] = 0
    /\ WGoto(w, "wait_lock", "remove")
    /\ lock' = [lock EXCEPT ![target[w]] = 1]
    /\ UNCHANGED <<node_lock, blocked, should_block, removed, has_thread, state, target>>

\* Mutant: unblock() does not call thread::unblock().
UnblockRemoveOnly(w) ==
    LET r == target[w] IN
    /\ WGoto(w, "remove", "release")
    /\ blocked' = blocked \ {r}
    /\ removed' = [removed EXCEPT ![r] = TRUE]
    /\ UNCHANGED <<node_lock, lock, should_block, has_thread, state, target>>

\* remove(this) and _removed = true, then thread::unblock().
UnblockRemove(w) ==
    LET r == target[w] IN
    /\ WGoto(w, "remove", "release")
    /\ blocked' = blocked \ {r}
    /\ removed' = [removed EXCEPT ![r] = TRUE]
    /\ state' = IF has_thread[r] THEN [state EXCEPT ![r] = "running"] ELSE state
    /\ UNCHANGED <<node_lock, lock, should_block, has_thread, target>>

UnblockUnlock(w) ==
    /\ WGoto(w, "release", "loop")
    /\ lock' = [lock EXCEPT ![target[w]] = 0]
    /\ UNCHANGED <<node_lock, blocked, should_block, removed, has_thread, state, target>>

-----------------------------------------------------------------------------
ReaderStep(r) ==
    \/ CtorLockNode(r) \/ CtorAdd(r) \/ CtorUnlock(r)
    \/ GetLock(r) \/ TestShouldBlock(r) \/ SkipBlock(r) \/ CommitBlock(r) \/ Park(r)
    \/ Resume(r)
    \/ DtorLock(r) \/ DtorTryLockNode(r) \/ DtorRemove(r) \/ DtorUnlock(r)

WakerStep(w) ==
    \/ WakeUnlockNode(w) \/ UnblockFlag(w) \/ UnblockLock(w)
    \/ UnblockRemove(w) \/ UnblockUnlock(w)

Next ==
    \/ \E r \in Reader : CanRun(r) /\ (Construct(r) \/ ReaderStep(r))
    \/ \E w \in Waker : CanRun(w) /\ (WakeLockNode(w) \/ WakerStep(w))

Spec == Init /\ [][Next]_vars

\* A thread that can go on gets the CPU in the end, however often others have
\* interrupts disabled.  Nobody is obliged to start reading or waking, and a
\* blocked thread is not obliged to be resumed.
FairSpec ==
    /\ Spec
    /\ \A r \in Reader : WF_vars(ReaderStep(r) /\ (pc[r] = "parked" => state[r] = "running"))
    /\ \A w \in Waker : WF_vars(WakerStep(w))

-----------------------------------------------------------------------------
TypeOK ==
    /\ smp \in BOOLEAN
    /\ node_lock \in {0, 1}
    /\ blocked \subseteq Reader
    /\ lock \in [Reader -> {0, 1}]
    /\ should_block \in [Reader -> BOOLEAN]
    /\ removed \in [Reader -> BOOLEAN]
    /\ has_thread \in [Reader -> BOOLEAN]
    /\ state \in [Reader -> {"running", "blocked"}]
    /\ pc \in [Reader -> PC]
    /\ wpc \in [Waker -> WPC]
    /\ target \in [Waker -> Reader]

\* The waker has a pointer to the blocker of its target.
Calling(w) == wpc[w] \in {"wait_lock", "remove", "release"}

\* The blockers that are constructed, added, and not yet taken off the list.
OnList(r) == ~removed[r] /\ pc[r] \notin {"idle", "ctor_node", "ctor_add", "dtor_unlock"}

(***************************************************************************)
(* The node lists exactly the live blockers that were added and not yet    *)
(* removed: no blocker is left on the list when its reader's stack frame   *)
(* is gone, and none is taken off it without knowing (_removed).           *)
(***************************************************************************)
ListIsExact == blocked = {r \in Reader : OnList(r)}

(***************************************************************************)
(* A waker inside unblock() works on a blocker whose destructor cannot     *)
(* have finished, although the reader may leave block() by itself (it saw  *)
(* _should_block before the waker had _lock) at any moment.                *)
(***************************************************************************)
TargetAlive == \A w \in Waker : Calling(w) => pc[target[w]] \notin {"idle", "ctor_node"}

(***************************************************************************)
(* The two locks are taken in opposite orders (constructor and destructor: *)
(* _lock, then the node; unblock(): the node, then _lock).  Still the wait *)
(* is never circular: a reader that holds the _lock a waker spins for can  *)
(* always move on.                                                         *)
(***************************************************************************)
NoCircularWait ==
    \A w \in Waker :
        wpc[w] = "wait_lock" /\ lock[target[w]] = 1
            => ENABLED ReaderStep(target[w])

(***************************************************************************)
(* "If unblock() is called before the thread is blocked or the lock is     *)
(* acquired then tell the thread not to block" (thread.h:38): a thread     *)
(* that unblock() has finished with is not left blocked.                   *)
(***************************************************************************)
NoLostWakeup == \A r \in Reader : removed[r] /\ pc[r] = "parked" => state[r] = "running"

(***************************************************************************)
(* On one CPU that promise is kept: the reader decides and parks with      *)
(* interrupts disabled.                                                    *)
(***************************************************************************)
NoLostWakeupOneCPU == ~smp => NoLostWakeup

(***************************************************************************)
(* On one CPU a reader whose blocker was unblocked returns from block()    *)
(* and finishes the destructor.                                            *)
(***************************************************************************)
WokenReturns ==
    \A r \in Reader : (~smp /\ removed[r] /\ pc[r] # "idle") ~> (pc[r] = "idle")

\* The lists of blockers and the wakers' pointers into them are right, together
\* with the types: what fs_blocker's constructor, unblock() and destructor keep.
BlockersAreSafe == TypeOK /\ ListIsExact /\ TargetAlive
=============================================================================
