----------------------------- MODULE TimerQueue -----------------------------
(***************************************************************************)
(* The sleep queue of the timer (Kernel/src/arch/x86_64/timer.cpp): a list *)
(* of timer_events in which each event holds the ticks that it waits after *)
(* the one before it.  Threads construct and destroy events under          *)
(* sleep_list_lock; the timer interrupt charges the ticks one by one, and  *)
(* keeps them in pending_ticks when it finds the lock taken.               *)
(*                                                                         *)
(* Three variables are history.  asked[e] is what event e asked for;       *)
(* left[e] is that less the timer interrupts that came while e was in the  *)
(* queue, whatever the handler did with them; drift[e] is how many ticks   *)
(* the queue has got wrong about e.                                        *)
(***************************************************************************)
EXTENDS Integers, Sequences, FiniteSets

CONSTANTS
    Event,          \* timer_events, each constructed once
    OnStack,        \* the events of thread::block, destroyed when it returns;
                    \* those of thread::sleep are never destroyed
    Request,        \* the lengths a caller may ask for, in ticks; 0 is what
                    \* semaphore::wait() asks for
    Frequency,      \* ticks per second
    MaxPending      \* bound: ticks that pass while a thread has the queue

ASSUME TimerAssumption ==
    /\ OnStack \subseteq Event
    /\ Request \subseteq Nat
    /\ Frequency \in Nat \ {0}
    /\ MaxPending \in Nat \ {0}

VARIABLES
    ticks,          \* timer::ticks, the ticks of the current second
    pending_ticks,  \* timer::pending_ticks
    sleeping,       \* timer::sleeping, a sequence of [ev, ticks]
    sleep_list_lock,
    handling,       \* timer_handler has the lock
    stage,          \* where each event is in its life
    called,         \* the events whose callback was called
    asked,          \* history: the ticks each event asked for
    left,           \* history: what is left of them, counting interrupts
    drift,          \* history: what the queue adds to that
    crashed         \* the queue was used with a destroyed event in it: no
                    \* promise holds any more

history == <<asked, left, drift>>
timerVars == <<ticks, pending_ticks, sleeping, sleep_list_lock, handling, stage, called,
               asked, left, drift, crashed>>

Stages == {"new", "ctor_lock", "ctor_insert", "live", "dtor_remove", "gone"}

TimerInit ==
    /\ ticks = 0
    /\ pending_ticks = 0
    /\ sleeping = << >>
    /\ sleep_list_lock = 0 /\ handling = FALSE
    /\ stage = [e \in Event |-> "new"]
    /\ called = {}
    /\ asked = [e \in Event |-> 0]
    /\ left = [e \in Event |-> 0]
    /\ drift = [e \in Event |-> 0]
    /\ crashed = FALSE

Queued == {sleeping[i].ev : i \in 1..Len(sleeping)}
Position(e) == CHOOSE i \in 1..Len(sleeping) : sleeping[i].ev = e
DeadQueued == \E e \in Queued : stage[e] = "gone"

Pass(e, from, to) ==
    /\ ~crashed
    /\ stage[e] = from
    /\ stage' = [stage EXCEPT ![e] = to]

-----------------------------------------------------------------------------
(* timer_event::timer_event                                                *)

\* Mutant: the early return does not call back.
EventCtorSilent(e) ==
    \E n \in Request :
        /\ asked' = [asked EXCEPT ![e] = n]
        /\ left' = [left EXCEPT ![e] = n]
        /\ Pass(e, "new", IF ticks <= 0 THEN "live" ELSE "ctor_lock")
        /\ UNCHANGED <<ticks, pending_ticks, sleeping, sleep_list_lock, handling, called, drift, crashed>>

\* The test is on the global tick counter, not on the event's _ticks.
EventCtor(e) ==
    \E n \in Request :
        /\ asked' = [asked EXCEPT ![e] = n]
        /\ left' = [left EXCEPT ![e] = n]
        /\ \/ /\ ticks <= 0
              /\ Pass(e, "new", "live")
              /\ called' = called \union {e}
           \/ /\ ticks > 0
              /\ Pass(e, "new", "ctor_lock")
              /\ UNCHANGED called
        /\ UNCHANGED <<ticks, pending_ticks, sleeping, sleep_list_lock, handling, drift, crashed>>

EventCtorLock(e) ==
    /\ sleep_list_lock = 0
    /\ Pass(e, "ctor_lock", "ctor_insert")
    /\ sleep_list_lock' = 1
    /\ UNCHANGED <<ticks, pending_ticks, sleeping, handling, called, history, crashed>>

\* What is left of n ticks in front of entry k of the queue q, and behind its end:
\* each entry that is passed takes off its own ticks.
Rest(q, n) ==
    LET rest[k \in 1..Len(q) + 1] == IF k = 1 THEN n ELSE rest[k - 1] - q[k - 1].ticks
    IN  rest

\* The walk stops at the first event that waits at least as long as what is
\* left of n in front of it.
InsertionPoint(n) ==
    CHOOSE k \in 1..Len(sleeping) + 1 :
        /\ \A i \in 1..k - 1 : sleeping[i].ticks < Rest(sleeping, n)[i]
        /\ k <= Len(sleeping) => sleeping[k].ticks >= Rest(sleeping, n)[k]

\* Mutant: the event behind the new one keeps its ticks.
InsertedUnadjusted(e, n) ==
    LET k == InsertionPoint(n)
    IN  [i \in 1..Len(sleeping) + 1 |->
            IF i < k THEN sleeping[i]
            ELSE IF i = k THEN [ev |-> e, ticks |-> Rest(sleeping, n)[k]]
            ELSE sleeping[i - 1]]

\* The new event takes what is left of its ticks, and the event behind it
\* waits that much less.
Inserted(e, n) ==
    LET k == InsertionPoint(n)
        rest == Rest(sleeping, n)[k]
    IN  [i \in 1..Len(sleeping) + 1 |->
            IF i < k THEN sleeping[i]
            ELSE IF i = k THEN [ev |-> e, ticks |-> rest]
            ELSE IF i = k + 1 THEN [sleeping[k] EXCEPT !.ticks = @ - rest]
            ELSE sleeping[i - 1]]

\* The walk and the insertion, then release_lock.  The ticks that came while the
\* lock was taken will be charged to the new event too.
EventCtorInsert(e) ==
    /\ Pass(e, "ctor_insert", "live")
    /\ sleep_list_lock' = 0
    /\ IF DeadQueued
         THEN crashed' = TRUE /\ UNCHANGED <<sleeping, drift>>
         ELSE /\ sleeping' = Inserted(e, asked[e])
              /\ drift' = [drift EXCEPT ![e] = - pending_ticks]
              /\ UNCHANGED crashed
    /\ UNCHANGED <<ticks, pending_ticks, handling, called, asked, left>>

-----------------------------------------------------------------------------
(* timer_event::~timer_event                                               *)

EventDtor(e) ==
    /\ e \in OnStack
    /\ sleep_list_lock = 0
    /\ Pass(e, "live", "dtor_remove")
    /\ sleep_list_lock' = 1
    /\ UNCHANGED <<ticks, pending_ticks, sleeping, handling, called, history, crashed>>

\* The queue without entry k, whose ticks the next one takes over.
Without(k) ==
    [i \in 1..Len(sleeping) - 1 |->
        IF i < k THEN sleeping[i]
        ELSE IF i = k /\ sleeping[k].ticks >= 0
          THEN [sleeping[k + 1] EXCEPT !.ticks = @ + sleeping[k].ticks]
        ELSE sleeping[i + 1]]

\* Only an event that has a next one is erased.
EventDtorRemove(e) ==
    /\ Pass(e, "dtor_remove", "gone")
    /\ sleep_list_lock' = 0
    /\ sleeping' = IF e \in Queued /\ Position(e) < Len(sleeping)
                     THEN Without(Position(e)) ELSE sleeping
    /\ UNCHANGED <<ticks, pending_ticks, handling, called, history, crashed>>

-----------------------------------------------------------------------------
(* timer_handler and timer_event::dispatch                                 *)

\* The ticks of the second; the seconds of uptime are left out.
CountTick ==
    /\ ticks' = (ticks + 1) % Frequency
    /\ left' = [e \in Event |-> IF e \in Queued THEN left[e] - 1 ELSE left[e]]

\* Mutant: the tick is not kept.
TickDeferredLost ==
    /\ ~crashed
    /\ sleep_list_lock = 1 /\ ~handling
    /\ CountTick
    /\ UNCHANGED <<pending_ticks, sleeping, sleep_list_lock, handling, stage, called, asked, drift,
                   crashed>>

\* A thread has the queue: the tick is kept for later.
TickDeferred ==
    /\ ~crashed
    /\ sleep_list_lock = 1 /\ ~handling
    /\ pending_ticks < MaxPending
    /\ CountTick
    /\ pending_ticks' = pending_ticks + 1
    /\ UNCHANGED <<sleeping, sleep_list_lock, handling, stage, called, asked, drift, crashed>>

\* The queue is free: the handler takes it.
Tick ==
    /\ ~crashed
    /\ sleep_list_lock = 0
    /\ ~DeadQueued
    /\ CountTick
    /\ pending_ticks' = pending_ticks + 1
    /\ sleep_list_lock' = 1 /\ handling' = TRUE
    /\ UNCHANGED <<sleeping, stage, called, asked, drift, crashed>>

\* The handler finds the queue with an event in it that was destroyed.
TickOnDead ==
    /\ ~crashed
    /\ sleep_list_lock = 0
    /\ DeadQueued
    /\ crashed' = TRUE
    /\ UNCHANGED <<ticks, pending_ticks, sleeping, sleep_list_lock, handling, stage, called, history>>

\* How many events at the head of q have waited long enough.
Expired(q) ==
    CHOOSE k \in 0..Len(q) :
        /\ \A i \in 1..k : q[i].ticks <= 0
        /\ k < Len(q) => q[k + 1].ticks > 0

\* One turn of the outer loop: the first event waits one tick less, and the
\* events at the head that have waited long enough are dispatched, which takes
\* them off the list and calls them back.  A first event of zero ticks takes the
\* tick all the same, and those behind it wait one tick more than they asked for.
ChargeTick ==
    /\ handling /\ sleeping # << >> /\ pending_ticks > 0
    /\ pending_ticks' = pending_ticks - 1
    /\ LET d == [sleeping EXCEPT ![1].ticks = @ - 1]
           k == Expired(d)
       IN  /\ sleeping' = [i \in 1..Len(d) - k |-> d[i + k]]
           /\ called' = called \union {d[i].ev : i \in 1..k}
    /\ drift' = [e \in Event |->
                    IF e \in Queued /\ sleeping[1].ticks <= 0 THEN drift[e] + 1 ELSE drift[e]]
    /\ UNCHANGED <<ticks, sleep_list_lock, handling, stage, asked, left, crashed>>

\* The end of the loop: what is left of the pending ticks is dropped.
EndTick ==
    /\ handling /\ (sleeping = << >> \/ pending_ticks <= 0)
    /\ pending_ticks' = 0
    /\ sleep_list_lock' = 0 /\ handling' = FALSE
    /\ UNCHANGED <<ticks, sleeping, stage, called, history, crashed>>

-----------------------------------------------------------------------------
EventStep(e) == EventCtorLock(e) \/ EventCtorInsert(e) \/ EventDtorRemove(e)

TimerNext ==
    \/ \E e \in Event : EventCtor(e) \/ EventDtor(e) \/ EventStep(e)
    \/ TickDeferred \/ Tick \/ TickOnDead \/ ChargeTick \/ EndTick

TimerSpec == TimerInit /\ [][TimerNext]_timerVars

\* The timer interrupts again and again and its handler runs to its end.  A
\* thread inside the constructor or the destructor of an event keeps running;
\* the handler has the lock for a small part of the time between two ticks, so
\* a thread that spins for it finds it free.
FairTimerSpec ==
    /\ TimerSpec
    /\ WF_timerVars(Tick \/ TickOnDead)
    /\ WF_timerVars(ChargeTick \/ EndTick)
    /\ \A e \in Event : SF_timerVars(EventStep(e))

-----------------------------------------------------------------------------
TimerTypeOK ==
    /\ ticks \in 0..Frequency - 1
    /\ pending_ticks \in 0..MaxPending + 1
    /\ sleeping \in Seq([ev : Event, ticks : Nat])
    /\ sleep_list_lock \in {0, 1} /\ handling \in BOOLEAN
    /\ stage \in [Event -> Stages]
    /\ called \subseteq Event
    /\ asked \in [Event -> Nat]
    /\ left \in [Event -> Int]
    /\ drift \in [Event -> Int]
    /\ crashed \in BOOLEAN

(***************************************************************************)
(* "all waiting threads have a counter as an offset from the previous      *)
(* waiting thread" (timer.cpp:14): the counters up to an event add up to   *)
(* exactly the ticks it still has to wait, the ones that are pending and   *)
(* its drift, so that passing all of them leaves nothing, whatever was     *)
(* inserted before it, removed before it, or charged late.                 *)
(***************************************************************************)
DeltasAddUp ==
    \A i \in 1..Len(sleeping) :
        LET e == sleeping[i].ev
        IN  Rest(sleeping, left[e] + pending_ticks + drift[e])[i + 1] = 0

(***************************************************************************)
(* No tick is lost or charged twice but in two ways: an event is called    *)
(* back early by the ticks that were pending when it was inserted, and     *)
(* late by at most one tick for each event of zero ticks that was          *)
(* dispatched.                                                             *)
(***************************************************************************)
ZeroCalled == {z \in called : asked[z] = 0}
DriftIsBounded ==
    \A e \in Queued : - MaxPending <= drift[e] /\ drift[e] <= Cardinality(ZeroCalled)

(***************************************************************************)
(* Events are dispatched in the order in which they are due, but for what  *)
(* they drifted apart.                                                     *)
(***************************************************************************)
FiresInOrder ==
    [][\A e \in (called' \ called) \cap Queued, f \in Queued \ called' :
          left[e] + drift[e] <= left[f] + drift[f]]_timerVars

(***************************************************************************)
(* Every thread::sleep ends (or the handler meets a destroyed event),      *)
(* however often the timer interrupt finds the queue locked.               *)
(***************************************************************************)
SleepEnds == \A e \in Event \ OnStack : (stage[e] # "new") ~> (e \in called \/ crashed)

(***************************************************************************)
(* A thread that waits for n ticks is called back after n ticks and not    *)
(* before (the worked example of timer.cpp:14-16).                         *)
(***************************************************************************)
NeverEarly == \A e \in called : left[e] <= 0

\* The sleep queue is what the constructor, the destructor and the interrupt
\* handler of timer.cpp may leave: of its type, with offsets that add up to what
\* the events asked for less the interrupts since, and with a bounded error.
QueueIsExact == TimerTypeOK /\ DeltasAddUp /\ DriftIsBounded
=============================================================================
