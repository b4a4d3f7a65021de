------------------------------ MODULE Scheduler ------------------------------
(***************************************************************************)
(* The scheduler (Kernel/src/arch/x86_64/scheduler.cpp): one run queue per *)
(* CPU, round robin with time slices, thread creation, process exit and    *)
(* the collection of dead processes.  A process has one thread: no system  *)
(* call creates a second one, so a process is named by its thread and the  *)
(* loops of end_process over the other threads find none.                  *)
(*                                                                         *)
(* insert_new_thread does not take the lock of the run queue (it copies    *)
(* the lock word), so on two CPUs an insertion can meet another change of  *)
(* the same list.  That is a data race on the list: the model marks it as  *)
(* a fault, after which nothing is promised.                               *)
(***************************************************************************)
EXTENDS Naturals, Sequences, FiniteSets, Functions

CONSTANTS
    NumCPU,         \* smp::get_proc_count()
    Thread,         \* threads other than the idle ones
    Unborn,         \* threads that are created during the run
    MayBlock,       \* threads that may block
    Kernel,         \* the kernel process, which collects dead processes
    DefaultSlice,   \* time_slice_default
    Idle, Null      \* a CPU's idle thread, and no thread at all

ASSUME SchedulerAssumption ==
    /\ NumCPU \in Nat \ {0}
    /\ Unborn \subseteq Thread \ {Kernel} /\ MayBlock \subseteq Thread
    /\ Kernel \in Thread /\ IsFiniteSet(Thread)
    /\ DefaultSlice \in Nat
    /\ Idle # Null /\ {Idle, Null} \cap Thread = {}

CPU == 0..NumCPU - 1

VARIABLES
    run_queue, run_queue_count, run_queue_lock, current_thread,  \* per CPU
    state, time_slice,                                           \* per thread
    pc,             \* where each thread is
    next_cpu,       \* the CPU whose queue end_process or insert_new_thread is at
    processes, dead_processes,
    fault           \* "overran": the assertion at the end of end_process failed
                    \* "torn": a run queue was changed by two CPUs at once

cpu_vars == <<run_queue, run_queue_count, current_thread>>
vars == <<cpu_vars, run_queue_lock, state, time_slice, pc, next_cpu,
          processes, dead_processes, fault>>

PC == {"unborn", "starting", "run", "choose", "insert", "yield",
       "exit_own", "exit_own_taken", "exit_own_cli",
       "exit_other", "exit_other_taken", "exit_other_cli", "exit_list", "exit_die", "gone"}

\* The points at which a thread has interrupts disabled.
InterruptsOff == {"insert", "exit_own_cli", "exit_other_cli"}

\* The queues when the scheduler is ready: the threads that exist were inserted
\* one after the other, the kernel process first, each into a shortest queue.
Init ==
    /\ \E boot \in Bijection(1..Cardinality(Thread \ Unborn), Thread \ Unborn) :
         /\ boot[1] = Kernel
         /\ run_queue = [c \in CPU |->
              [i \in 1..Cardinality({k \in DOMAIN boot : (k - 1) % NumCPU = c}) |->
                 boot[(i - 1) * NumCPU + c + 1]]]
    /\ run_queue_count = [c \in CPU |-> Len(run_queue[c])]
    /\ run_queue_lock = [c \in CPU |-> 0]
    /\ current_thread = [c \in CPU |-> Null]
    /\ state = [t \in Thread |-> "running"]
    /\ time_slice = [t \in Thread |-> DefaultSlice]
    /\ pc = [t \in Thread |-> IF t \in Unborn THEN "unborn" ELSE "run"]
    /\ next_cpu = [t \in Thread |-> 0]
    /\ processes = Thread \ Unborn
    /\ dead_processes = {}
    /\ fault = "none"

-----------------------------------------------------------------------------
(* schedule                                                                *)

Position(c, t) == CHOOSE i \in 1..Len(run_queue[c]) : run_queue[c][i] = t

\* hook.next of a queued thread, or Null.
After(c, t) ==
    LET i == Position(c, t)
    IN  IF i < Len(run_queue[c]) THEN run_queue[c][i + 1] ELSE Null

\* The thread whose turn it is after t: the next one, or the front.
Turn(c, t) ==
    IF t # Idle /\ After(c, t) # Null THEN After(c, t) ELSE Head(run_queue[c])

\* The loop that leaves a blocked thread: it goes on while the thread it finds
\* is NOT blocked, and ends at a blocked one or at the end of the queue.
SkipBlocked(c, t) ==
    LET behind == {i \in 1..Len(run_queue[c]) :
                     i > Position(c, t) /\ state[run_queue[c][i]] = "blocked"}
    IN  IF state[t] # "blocked" THEN t
        ELSE IF behind = {} THEN Idle
        ELSE run_queue[c][CHOOSE i \in behind : \A k \in behind : i <= k]

\* A list after erase of its i-th entry.
RemoveAt(s, i) == SubSeq(s, 1, i - 1) \o SubSeq(s, i + 1, Len(s))

SetCurrent(c, t) == current_thread' = [current_thread EXCEPT ![c] = t]

\* Mutant: a thread that leaves the queue is still counted.
EraseCurrentUncounted(c) ==
    /\ run_queue' = [run_queue EXCEPT ![c] = RemoveAt(@, Position(c, current_thread[c]))]
    /\ SetCurrent(c, Idle)
    /\ UNCHANGED <<run_queue_count, time_slice>>

\* The current thread is dying: it leaves the queue.
EraseCurrent(c) ==
    /\ run_queue' = [run_queue EXCEPT ![c] = RemoveAt(@, Position(c, current_thread[c]))]
    /\ run_queue_count' = [run_queue_count EXCEPT ![c] = @ - 1]
    /\ SetCurrent(c, Idle)
    /\ UNCHANGED time_slice

\* schedule() with the queue's lock taken; st is the state of the threads.
Switch(c, st) ==
    LET cur == current_thread[c] IN
    \/ /\ run_queue_count[c] <= 0 \/ cur = Null
       /\ SetCurrent(c, Idle)
       /\ UNCHANGED <<run_queue, run_queue_count, time_slice>>
    \/ /\ run_queue_count[c] > 0 /\ cur \in Thread /\ st = "dying"
       /\ EraseCurrent(c)
    \/ /\ run_queue_count[c] > 0 /\ cur # Null /\ st # "dying"
       /\ SetCurrent(c, SkipBlocked(c, Turn(c, cur)))
       /\ time_slice' = IF cur = Idle THEN time_slice
                        ELSE [time_slice EXCEPT ![cur] = DefaultSlice]
       /\ UNCHANGED <<run_queue, run_queue_count>>

StateOf(t) == IF t \in Thread THEN state[t] ELSE "running"

\* A timer tick, or the IPI that passes it on to the other CPUs.  The lock is
\* only tried: if it is taken, the current thread goes on.
Tick(c) ==
    LET cur == current_thread[c] IN
    /\ fault = "none"
    /\ cur \in Thread => pc[cur] \notin InterruptsOff
    /\ \/ /\ cur \in Thread /\ time_slice[cur] > 0
          /\ time_slice' = [time_slice EXCEPT ![cur] = @ - 1]
          /\ UNCHANGED cpu_vars
       \/ /\ cur \in Thread => time_slice[cur] = 0
          /\ run_queue_lock[c] = 0
          /\ Switch(c, StateOf(cur))
    /\ UNCHANGED <<run_queue_lock, state, pc, next_cpu, processes, dead_processes, fault>>

-----------------------------------------------------------------------------
(* What the current thread t of CPU c does.  A failed assertion stops      *)
(* every CPU.                                                              *)

Runs(c, t, from, to) ==
    /\ fault = "none"
    /\ current_thread[c] = t
    /\ pc[t] = from
    /\ pc' = [pc EXCEPT ![t] = to]

\* thread::block and thread::sleep, up to the call of yield().
Block(c, t) ==
    /\ t \in MayBlock
    /\ Runs(c, t, "run", "yield")
    /\ state' = [state EXCEPT ![t] = "blocked"]
    /\ UNCHANGED <<cpu_vars, run_queue_lock, time_slice, next_cpu, processes,
                   dead_processes, fault>>

\* yield(): the time slice ends and schedule() is called through an interrupt.
Yield(c, t) ==
    /\ \E from \in {"run", "yield"} : Runs(c, t, from, "run")
    /\ \/ /\ run_queue_lock[c] = 0
          /\ Switch(c, state[t])
       \/ /\ run_queue_lock[c] = 1
          /\ time_slice' = [time_slice EXCEPT ![t] = 0]
          /\ UNCHANGED cpu_vars
    /\ UNCHANGED <<run_queue_lock, state, next_cpu, processes, dead_processes, fault>>

\* thread::unblock, by the timer or by another thread.  (On a thread that runs
\* again already it would only renew the time slice.)
Unblock(t) ==
    /\ fault = "none"
    /\ state[t] = "blocked"
    /\ state' = [state EXCEPT ![t] = "running"]
    /\ time_slice' = [time_slice EXCEPT ![t] = DefaultSlice]
    /\ UNCHANGED <<cpu_vars, run_queue_lock, pc, next_cpu, processes, dead_processes, fault>>

\* The CPU that insert_new_thread chooses: the first with a shortest queue.
ShortestQueue ==
    CHOOSE c \in CPU : \A d \in CPU :
        /\ run_queue_count[c] <= run_queue_count[d]
        /\ run_queue_count[c] = run_queue_count[d] => c <= d

\* create_process or create_elf_process and start_process: the queue is chosen.
Spawn(c, t, new) ==
    /\ fault = "none" /\ current_thread[c] = t /\ pc[t] = "run" /\ pc[new] = "unborn"
    /\ pc' = [pc EXCEPT ![t] = "choose", ![new] = "starting"]
    /\ next_cpu' = [next_cpu EXCEPT ![t] = ShortestQueue, ![new] = ShortestQueue]
    /\ UNCHANGED <<cpu_vars, run_queue_lock, state, time_slice, processes,
                   dead_processes, fault>>

\* The copy of the lock word is made, and interrupts are disabled.
SpawnCli(c, t) ==
    /\ Runs(c, t, "choose", "insert")
    /\ UNCHANGED <<cpu_vars, run_queue_lock, state, time_slice, next_cpu, processes,
                   dead_processes, fault>>

\* Threads that are changing the list of CPU q.
Inserting(q) == {t \in Thread : pc[t] = "insert" /\ next_cpu[t] = q}

\* The thread is pushed to the queue, and interrupts are enabled.
SpawnPush(c, t, new) ==
    LET q == next_cpu[t] IN
    /\ fault = "none" /\ current_thread[c] = t
    /\ pc[t] = "insert" /\ pc[new] = "starting" /\ next_cpu[new] = q
    /\ pc' = [pc EXCEPT ![t] = "run", ![new] = "run"]
    /\ run_queue' = [run_queue EXCEPT ![q] = Append(@, new)]
    /\ run_queue_count' = [run_queue_count EXCEPT ![q] = @ + 1]
    /\ processes' = processes \union {new}
    /\ fault' = IF Inserting(q) = {t} THEN fault ELSE "torn"
    /\ UNCHANGED <<current_thread, run_queue_lock, state, time_slice, next_cpu, dead_processes>>

\* gc(): the kernel process deletes the dead ones.
Gc(c) ==
    /\ fault = "none" /\ current_thread[c] = Kernel /\ pc[Kernel] = "run"
    /\ dead_processes # {}
    /\ dead_processes' = {}
    /\ UNCHANGED <<cpu_vars, run_queue_lock, state, time_slice, pc, next_cpu, processes, fault>>

-----------------------------------------------------------------------------
(* end_process, called by the process that ends                            *)

EndProcess(c, t) ==
    /\ t # Kernel
    /\ Runs(c, t, "run", "exit_own")
    /\ UNCHANGED <<cpu_vars, run_queue_lock, state, time_slice, next_cpu, processes,
                   dead_processes, fault>>

\* The lock of a run queue is taken with interrupts enabled: until the cli that
\* follows, the thread may lose its CPU with the lock held.
ExitLock(c, t, from, to, q) ==
    /\ Runs(c, t, from, to)
    /\ run_queue_lock[q] = 0
    /\ run_queue_lock' = [run_queue_lock EXCEPT ![q] = 1]
    /\ UNCHANGED <<cpu_vars, state, time_slice, next_cpu, processes, dead_processes, fault>>

ExitLockOwn(c, t) == ExitLock(c, t, "exit_own", "exit_own_taken", c)

ExitLockOther(c, t) == ExitLock(c, t, "exit_other", "exit_other_taken", next_cpu[t])

ExitCli(c, t) ==
    /\ \/ Runs(c, t, "exit_own_taken", "exit_own_cli")
       \/ Runs(c, t, "exit_other_taken", "exit_other_cli")
    /\ UNCHANGED <<cpu_vars, run_queue_lock, state, time_slice, next_cpu, processes,
                   dead_processes, fault>>

\* The CPU the loop visits from i on, or NumCPU.
OtherFrom(c, i) == IF i = c THEN i + 1 ELSE i

\* remove_threads finds no other thread of the process; the lock is released
\* and the loop goes on with CPU i.
ExitUnlock(c, t, from, q, i) ==
    /\ Runs(c, t, from, IF OtherFrom(c, i) < NumCPU THEN "exit_other" ELSE "exit_list")
    /\ run_queue_lock' = [run_queue_lock EXCEPT ![q] = 0]
    /\ next_cpu' = [next_cpu EXCEPT ![t] = OtherFrom(c, i)]
    /\ UNCHANGED <<cpu_vars, state, time_slice, processes, dead_processes, fault>>

ExitUnlockOwn(c, t) == ExitUnlock(c, t, "exit_own_cli", c, 0)

\* Mutant: the loop over the other CPUs does not advance.
ExitUnlockOtherAgain(c, t) ==
    ExitUnlock(c, t, "exit_other_cli", next_cpu[t], next_cpu[t])

ExitUnlockOther(c, t) ==
    ExitUnlock(c, t, "exit_other_cli", next_cpu[t], next_cpu[t] + 1)

\* The files are closed and the process moves to dead_processes.
ExitList(c, t) ==
    /\ Runs(c, t, "exit_list", "exit_die")
    /\ processes' = processes \ {t}
    /\ dead_processes' = dead_processes \union {t}
    /\ UNCHANGED <<cpu_vars, run_queue_lock, state, time_slice, next_cpu, fault>>

\* cli, the thread is dying, and schedule() is called for the last time.  If
\* it returns, the assertion behind it fails.
ExitDie(c, t) ==
    /\ Runs(c, t, "exit_die", "gone")
    /\ state' = [state EXCEPT ![t] = "dying"]
    /\ \/ /\ run_queue_lock[c] = 0
          /\ Switch(c, "dying")
          /\ fault' = IF Inserting(c) = {} THEN fault ELSE "torn"
       \/ /\ run_queue_lock[c] = 1
          /\ fault' = "overran"
          /\ UNCHANGED <<cpu_vars, time_slice>>
    /\ UNCHANGED <<run_queue_lock, next_cpu, processes, dead_processes>>

-----------------------------------------------------------------------------
\* The steps of a thread inside insert_new_thread or end_process.
ThreadStep(c, t) ==
    \/ SpawnCli(c, t) \/ \E new \in Unborn : SpawnPush(c, t, new)
    \/ ExitCli(c, t)
    \/ ExitLockOwn(c, t) \/ ExitUnlockOwn(c, t)
    \/ ExitLockOther(c, t) \/ ExitUnlockOther(c, t)
    \/ ExitList(c, t) \/ ExitDie(c, t)

Next ==
    \/ \E c \in CPU : Tick(c) \/ Gc(c)
    \/ \E c \in CPU, t \in Thread :
         \/ Block(c, t) \/ Yield(c, t) \/ EndProcess(c, t) \/ ThreadStep(c, t)
         \/ \E new \in Unborn : Spawn(c, t, new)
    \/ \E t \in Thread : Unblock(t)

Spec == Init /\ [][Next]_vars

\* The timer ticks on every CPU, and a thread that gets the CPU again and again
\* goes on: a time slice is long enough for a step, and the lock of a queue is
\* contended only while other processes end, which each does once.
FairSpec ==
    /\ Spec
    /\ \A c \in CPU : WF_vars(Tick(c))
    /\ \A t \in Thread : SF_vars(\E c \in CPU : ThreadStep(c, t))

-----------------------------------------------------------------------------
TypeOK ==
    /\ \A c \in CPU : Range(run_queue[c]) \subseteq Thread
    /\ run_queue_count \in [CPU -> Nat]
    /\ run_queue_lock \in [CPU -> {0, 1}]
    /\ current_thread \in [CPU -> Thread \union {Idle, Null}]
    /\ state \in [Thread -> {"running", "blocked", "dying"}]
    /\ time_slice \in [Thread -> 0..DefaultSlice]
    /\ pc \in [Thread -> PC]
    /\ next_cpu \in [Thread -> 0..NumCPU]
    /\ processes \subseteq Thread /\ dead_processes \subseteq Thread
    /\ fault \in {"none", "overran", "torn"}

\* Threads that were started and have not made their last call of schedule().
Live == {t \in Thread : pc[t] \notin {"unborn", "starting", "gone"}}

(***************************************************************************)
(* Every live thread is in exactly one run queue, once, and the queues     *)
(* hold nothing else; run_queue_count, on which schedule() and             *)
(* insert_new_thread decide, is the length of the queue.                   *)
(***************************************************************************)
QueuesHoldLiveThreads ==
    fault = "none" =>
        /\ \A t \in Live : \E c \in CPU : \E i \in DOMAIN run_queue[c] :
             /\ run_queue[c][i] = t
             /\ \A d \in CPU : \A k \in DOMAIN run_queue[d] :
                  run_queue[d][k] = t => d = c /\ k = i
        /\ \A c \in CPU : /\ Range(run_queue[c]) \subseteq Live
                          /\ run_queue_count[c] = Len(run_queue[c])

(***************************************************************************)
(* The current thread of a CPU is in the CPU's own queue, which schedule() *)
(* follows its hook in; so no thread runs on two CPUs, and none runs after *)
(* its last call of schedule().                                            *)
(***************************************************************************)
CurrentIsQueued ==
    fault = "none" => \A c \in CPU : current_thread[c] \in Thread
                    => current_thread[c] \in Range(run_queue[c])

\* The thread has taken the lock of run queue q.
Holds(t, q) ==
    \/ pc[t] \in {"exit_own_taken", "exit_own_cli"} /\ t \in Range(run_queue[q])
    \/ pc[t] \in {"exit_other_taken", "exit_other_cli"} /\ q = next_cpu[t]

(***************************************************************************)
(* Two processes that end at the same time take each other's run queue     *)
(* locks, and may lose the CPU with a lock held.  A lock that is taken     *)
(* belongs to exactly one thread, which is inside end_process, and a lock  *)
(* that is free to none.                                                   *)
(***************************************************************************)
LocksHaveOneOwner ==
    fault = "none" =>
        \A q \in CPU : run_queue_lock[q] = Cardinality({t \in Thread : Holds(t, q)})

NobodyIsBlocked == \A t \in Thread : state[t] # "blocked"

(***************************************************************************)
(* Round robin: if no thread ever blocks, every thread that is started     *)
(* gets a CPU again and again until it ends.                               *)
(***************************************************************************)
EveryThreadRuns ==
    []NobodyIsBlocked =>
        \A t \in Thread :
            (pc[t] = "run") ~> (fault # "none" \/ \E c \in CPU : current_thread[c] = t)

(***************************************************************************)
(* If no thread ever blocks, a process that calls end_process ends: no two *)
(* of them wait for each other's run queue lock (short of a fault, which   *)
(* stops the machine).                                                     *)
(***************************************************************************)
EndProcessEnds ==
    []NobodyIsBlocked =>
        \A t \in Thread : (pc[t] = "exit_own") ~> (fault # "none" \/ pc[t] = "gone")

(***************************************************************************)
(* A blocked thread does not run: end_process sets state to blocked to     *)
(* "Stop the thread from running further" (scheduler.cpp:439).             *)
(***************************************************************************)
BlockedNeverScheduled ==
    [][\A c \in CPU : current_thread'[c] # current_thread[c] /\ current_thread'[c] \in Thread
         => state[current_thread'[c]] # "blocked"]_vars

(***************************************************************************)
(* assert(!"Failed to exit process, overran interrupt")                    *)
(* (scheduler.cpp:532): the last call of schedule() does not return.       *)
(***************************************************************************)
NeverOverran == fault # "overran"

\* The run queues, the threads current on the CPUs and the run queue locks agree,
\* at every step of schedule(), insert_new_thread and end_process.
QueuesAreExact == TypeOK /\ QueuesHoldLiveThreads /\ CurrentIsQueued /\ LocksHaveOneOwner

\* While nobody blocks, the round robin of schedule() serves every thread and
\* every end_process that began comes to its end.
EveryoneGetsOn == EveryThreadRuns /\ EndProcessEnds
=============================================================================
