--------------------------- MODULE SchedulerProofs ---------------------------
(***************************************************************************)
(* For any number of CPUs and threads: while no fault has happened, every  *)
(* live thread is in exactly one run queue, once; the counts of the queues *)
(* are their lengths; the current thread of a CPU is in the CPU's own      *)
(* queue; and a run queue lock that is taken has exactly one owner.        *)
(***************************************************************************)
EXTENDS Scheduler, TLAPS

\* A leaf is proved by Zenon, unless it cites another prover.
USE Zenon

Typed ==
    /\ run_queue \in [CPU -> Seq(Thread)]
    /\ run_queue_count \in [CPU -> Nat]
    /\ run_queue_lock \in [CPU -> {0, 1}]
    /\ current_thread \in [CPU -> Thread \union {Idle, Null}]
    /\ state \in [Thread -> {"running", "blocked", "dying"}]
    /\ time_slice \in [Thread -> 0..DefaultSlice]
    /\ pc \in [Thread -> PC]
    /\ next_cpu \in [Thread -> 0..NumCPU]
    /\ processes \subseteq Thread /\ dead_processes \subseteq Thread
    /\ fault \in {"none", "overran", "torn"}

\* No thread is twice in the sequence.
Once(s) == \A i, k \in DOMAIN s : s[i] = s[k] => i = k

\* The run queues hold the live threads, each once.
QueueInv ==
    /\ \A c \in CPU : Once(run_queue[c]) /\ run_queue_count[c] = Len(run_queue[c])
    /\ \A c, d \in CPU : c # d => Range(run_queue[c]) \cap Range(run_queue[d]) = {}
    /\ \A t \in Thread : t \in Live <=> \E c \in CPU : t \in Range(run_queue[c])
    /\ \A c \in CPU : current_thread[c] \in Thread => current_thread[c] \in Range(run_queue[c])

\* A thread is dying only after its last call of schedule(), and one that is about
\* to change or lock a queue by its number has the number of a CPU.
ThreadInv ==
    \A t \in Thread :
        /\ state[t] = "dying" => pc[t] = "gone"
        /\ pc[t] \in {"choose", "insert", "starting", "exit_other", "exit_other_taken",
                      "exit_other_cli"} => next_cpu[t] \in CPU

\* A free lock has no owner, and a taken one has one.
LockInv ==
    \A q \in CPU :
        \/ run_queue_lock[q] = 0 /\ \A t \in Thread : ~Holds(t, q)
        \/ /\ run_queue_lock[q] = 1
           /\ \E t \in Thread : Holds(t, q) /\ \A u \in Thread : Holds(u, q) => u = t

IInv == Typed /\ (fault = "none" => QueueInv /\ ThreadInv /\ LockInv)

-----------------------------------------------------------------------------
(* Numbers and sequences                                                   *)

\* A sequence and its length.
LEMMA LenFacts ==
  ASSUME NEW S, NEW s \in Seq(S)
  PROVE  Len(s) \in Nat /\ DOMAIN s = 1 .. Len(s) /\ \A i \in 1 .. Len(s) : s[i] \in S
  BY SMT

\* A function from 1 .. n is a sequence of length n.
LEMMA FunctionIsSeq ==
  ASSUME NEW S, NEW n \in Nat, NEW f \in [1 .. n -> S]
  PROVE  f \in Seq(S) /\ Len(f) = n
  BY SMT

\* The first of a sequence.
LEMMA HeadFacts ==
  ASSUME NEW S, NEW s \in Seq(S), Len(s) > 0
  PROVE  Head(s) = s[1]
  BY SMT

\* A sequence with one entry more.
LEMMA AppendFacts ==
  ASSUME NEW S, NEW s \in Seq(S), NEW e \in S
  PROVE  /\ Append(s, e) \in Seq(S) /\ Len(Append(s, e)) = Len(s) + 1
         /\ \A i \in 1 .. Len(s) : Append(s, e)[i] = s[i]
         /\ Append(s, e)[Len(s) + 1] = e
  <1>1. Append(s, e) \in Seq(S) /\ Len(Append(s, e)) = Len(s) + 1
    BY SMT
  <1>2. (\A i \in 1 .. Len(s) : Append(s, e)[i] = s[i]) /\ Append(s, e)[Len(s) + 1] = e
    BY SMT
  <1> QED
    BY <1>1, <1>2

\* Two sequences, one behind the other.
LEMMA ConcatFacts ==
  ASSUME NEW S, NEW s \in Seq(S), NEW t \in Seq(S)
  PROVE  /\ s \o t \in Seq(S) /\ Len(s \o t) = Len(s) + Len(t)
         /\ \A i \in 1 .. Len(s) + Len(t) : (s \o t)[i] = IF i <= Len(s) THEN s[i] ELSE t[i - Len(s)]
  <1>1. s \o t \in Seq(S) /\ Len(s \o t) = Len(s) + Len(t)
    BY SMT
  <1>2. \A i \in 1 .. Len(s) + Len(t) : (s \o t)[i] = IF i <= Len(s) THEN s[i] ELSE t[i - Len(s)]
    BY SMT
  <1> QED
    BY <1>1, <1>2

\* The entries from m to n of a sequence.
LEMMA SubSeqFacts ==
  ASSUME NEW S, NEW s \in Seq(S), NEW m \in 1 .. Len(s) + 1, NEW n \in 0 .. Len(s), m <= n + 1
  PROVE  /\ SubSeq(s, m, n) \in Seq(S) /\ Len(SubSeq(s, m, n)) = n + 1 - m
         /\ \A i \in 1 .. n + 1 - m : SubSeq(s, m, n)[i] = s[m + i - 1]
  <1>1. SubSeq(s, m, n) \in Seq(S) /\ Len(SubSeq(s, m, n)) = n + 1 - m
    BY SMT
  <1>2. \A i \in 1 .. n + 1 - m : SubSeq(s, m, n)[i] = s[m + i - 1]
    BY SMT
  <1> QED
    BY <1>1, <1>2

\* A number is a multiple of NumCPU and a remainder, in one way.
LEMMA Division ==
  ASSUME NEW x \in Nat
  PROVE  \E q \in Nat : x = q * NumCPU + (x % NumCPU) /\ x % NumCPU \in CPU /\ q <= x
  <1>1. NumCPU \in Nat /\ NumCPU > 0
    BY SchedulerAssumption, SMT
  <1>2. x % NumCPU \in 0..NumCPU - 1
    BY <1>1, SMT
  <1>3. x = (x \div NumCPU) * NumCPU + (x % NumCPU)
    BY <1>1, SMT
  <1>4. x \div NumCPU \in Nat
    BY <1>1, SMT
  <1>5. x \div NumCPU <= x
    BY <1>1, <1>2, <1>3, <1>4, SMT
  <1> QED
    BY <1>2, <1>3, <1>4, <1>5 DEF CPU

\* A number is a multiple of NumCPU and a remainder in no other way.
LEMMA DivisionIsUnique ==
  ASSUME NEW p \in Nat, NEW q \in Nat, NEW r \in CPU, NEW s \in CPU,
         p * NumCPU + r = q * NumCPU + s
  PROVE  p = q /\ r = s
  <1>1. NumCPU \in Nat /\ NumCPU > 0 /\ r \in 0..NumCPU - 1 /\ s \in 0..NumCPU - 1
    BY SchedulerAssumption, SMT DEF CPU
  <1>2. ASSUME NEW a \in Nat, NEW b \in Nat, a < b PROVE a * NumCPU + NumCPU <= b * NumCPU
    <2>1. PICK d \in Nat : b = a + 1 + d
      <3>1. b - a - 1 \in Nat /\ b = a + 1 + (b - a - 1)
        BY <1>2, SMT
      <3> QED
        BY <3>1
    <2>2. b * NumCPU = a * NumCPU + NumCPU + d * NumCPU
      BY <1>1, <2>1, SMT
    <2>3. d * NumCPU \in Nat /\ a * NumCPU \in Nat
      BY <1>1, SMT
    <2> QED
      BY <1>1, <2>2, <2>3, SMT
  <1>3. p * NumCPU \in Nat /\ q * NumCPU \in Nat
    BY <1>1, SMT
  <1>4. ~(p < q)
    BY <1>1, <1>2, <1>3, SMT
  <1>5. ~(q < p)
    BY <1>1, <1>2, <1>3, SMT
  <1>6. p = q
    BY <1>4, <1>5, SMT
  <1> QED
    BY <1>1, <1>3, <1>6, SMT

\* push_back of a thread that is not in the queue.
LEMMA Pushed ==
  ASSUME NEW s \in Seq(Thread), Once(s), NEW t \in Thread, t \notin Range(s)
  PROVE  /\ Append(s, t) \in Seq(Thread) /\ Len(Append(s, t)) = Len(s) + 1
         /\ Once(Append(s, t))
         /\ Range(Append(s, t)) = Range(s) \union {t}
  <1> DEFINE a == Append(s, t)
  <1>1. Len(s) \in Nat /\ DOMAIN s = 1 .. Len(s)
    BY LenFacts
  <1>2. /\ a \in Seq(Thread) /\ Len(a) = Len(s) + 1
        /\ \A i \in 1 .. Len(s) : a[i] = s[i]
        /\ a[Len(s) + 1] = t
    BY AppendFacts, SMT
  <1>3. DOMAIN a = 1 .. Len(s) + 1
    BY <1>2, LenFacts
  <1> HIDE DEF a
  <1>4. \A i \in DOMAIN a : (i \in DOMAIN s /\ a[i] = s[i]) \/ (i = Len(s) + 1 /\ a[i] = t)
    BY <1>1, <1>2, <1>3, SMT
  <1>5. \A i \in DOMAIN s : i \in DOMAIN a /\ a[i] = s[i]
    BY <1>1, <1>2, <1>3, SMT
  <1>6. Len(s) + 1 \in DOMAIN a
    BY <1>1, <1>3, SMT
  <1>7. Once(a)
    BY <1>4 DEF Once, Range
  <1>8. Range(a) = Range(s) \union {t}
    BY <1>2, <1>4, <1>5, <1>6 DEF Range
  <1> QED
    BY <1>2, <1>7, <1>8 DEF a

\* erase of a queue's entry.
LEMMA Erased ==
  ASSUME NEW s \in Seq(Thread), Once(s), NEW i \in DOMAIN s
  PROVE  /\ RemoveAt(s, i) \in Seq(Thread) /\ Len(RemoveAt(s, i)) = Len(s) - 1
         /\ Once(RemoveAt(s, i))
         /\ Range(RemoveAt(s, i)) = Range(s) \ {s[i]}
  <1> DEFINE a == RemoveAt(s, i)
             n == Len(s)
             h == SubSeq(s, 1, i - 1)
             g == SubSeq(s, i + 1, n)
  <1>1. n \in Nat /\ DOMAIN s = 1 .. n /\ i \in 1 .. n
    BY LenFacts
  <1>2. h \in Seq(Thread) /\ Len(h) = i - 1 /\ \A k \in 1 .. i - 1 : h[k] = s[k]
    <2>1. 1 \in 1 .. n + 1 /\ i - 1 \in 0 .. n /\ 1 <= (i - 1) + 1 /\ (i - 1) + 1 - 1 = i - 1
      BY <1>1, SMT
    <2>2. /\ h \in Seq(Thread) /\ Len(h) = (i - 1) + 1 - 1
          /\ \A k \in 1 .. (i - 1) + 1 - 1 : h[k] = s[1 + k - 1]
      BY <2>1, SubSeqFacts
    <2> HIDE DEF h
    <2> QED
      BY <2>1, <2>2, SMT
  <1>3. g \in Seq(Thread) /\ Len(g) = n - i /\ \A k \in 1 .. n - i : g[k] = s[i + k]
    <2>1. i + 1 \in 1 .. n + 1 /\ n \in 0 .. n /\ i + 1 <= n + 1 /\ n + 1 - (i + 1) = n - i
      BY <1>1, SMT
    <2>2. /\ g \in Seq(Thread) /\ Len(g) = n + 1 - (i + 1)
          /\ \A k \in 1 .. n + 1 - (i + 1) : g[k] = s[(i + 1) + k - 1]
      BY <2>1, SubSeqFacts, SMT
    <2>3. \A k \in 1 .. n - i : (i + 1) + k - 1 = i + k
      BY <1>1, SMT
    <2> HIDE DEF g
    <2> QED
      BY <2>1, <2>2, <2>3
  <1>4. a = h \o g
    BY DEF RemoveAt
  <1> HIDE DEF a, h, g, n
  <1>5. /\ a \in Seq(Thread) /\ Len(a) = n - 1
        /\ \A k \in 1 .. n - 1 : a[k] = IF k <= i - 1 THEN h[k] ELSE g[k - (i - 1)]
    <2>1. /\ a \in Seq(Thread) /\ Len(a) = Len(h) + Len(g)
          /\ \A k \in 1 .. Len(h) + Len(g) : a[k] = IF k <= Len(h) THEN h[k] ELSE g[k - Len(h)]
      BY <1>2, <1>3, <1>4, ConcatFacts
    <2>2. Len(h) + Len(g) = n - 1
      BY <1>1, <1>2, <1>3, SMT
    <2> QED
      BY <1>2, <2>1, <2>2
  <1>6. DOMAIN a = 1 .. n - 1
    BY <1>5, LenFacts
  <1>7. \A k \in 1 .. n - 1 : a[k] = IF k < i THEN s[k] ELSE s[k + 1]
    <2> SUFFICES ASSUME NEW k \in 1 .. n - 1 PROVE a[k] = IF k < i THEN s[k] ELSE s[k + 1]
      OBVIOUS
    <2>1. CASE k < i
      BY <1>1, <1>2, <1>5, <2>1, SMT
    <2>2. CASE ~(k < i)
      <3>1. k - (i - 1) \in 1 .. n - i /\ i + (k - (i - 1)) = k + 1
        BY <1>1, <2>2, SMT
      <3> QED
        <4>1. a[k] = g[k - (i - 1)]
          BY <1>1, <1>5, <2>2, SMT
        <4>2. g[k - (i - 1)] = s[i + (k - (i - 1))]
          BY <1>3, <3>1
        <4> QED
          BY <2>2, <3>1, <4>1, <4>2
    <2> QED
      BY <2>1, <2>2
  <1>8. Once(a)
    <2> SUFFICES ASSUME NEW k \in 1 .. n - 1, NEW l \in 1 .. n - 1, a[k] = a[l] PROVE k = l
      BY <1>6 DEF Once
    <2>1. \A x, y \in 1 .. n : s[x] = s[y] => x = y
      BY <1>1 DEF Once
    <2>2. k \in 1 .. n /\ k + 1 \in 1 .. n /\ l \in 1 .. n /\ l + 1 \in 1 .. n
      BY <1>1, SMT
    <2> QED
      BY <1>1, <1>7, <2>1, <2>2, SMT
  <1>9. ASSUME NEW t PROVE t \in Range(a) <=> t \in Range(s) /\ t # s[i]
    <2>1. ASSUME NEW k \in 1 .. n - 1, t = a[k] PROVE t \in Range(s) /\ t # s[i]
      <3>1. \A x, y \in 1 .. n : s[x] = s[y] => x = y
        BY <1>1 DEF Once
      <3>2. k \in 1 .. n /\ k + 1 \in 1 .. n
        BY <1>1, SMT
      <3>3. a[k] = IF k < i THEN s[k] ELSE s[k + 1]
        BY <1>7
      <3>4. PICK x \in 1 .. n : t = s[x] /\ x # i
        <4>1. CASE k < i
          BY <1>1, <2>1, <3>2, <3>3, <4>1, SMT
        <4>2. CASE ~(k < i)
          BY <1>1, <2>1, <3>2, <3>3, <4>2, SMT
        <4> QED
          BY <4>1, <4>2
      <3>5. t # s[i]
        BY <1>1, <3>1, <3>4
      <3> QED
        BY <1>1, <3>4, <3>5 DEF Range
    <2>2. ASSUME NEW k \in 1 .. n, t = s[k], t # s[i] PROVE \E l \in 1 .. n - 1 : a[l] = t
      <3>1. CASE k < i
        BY <1>1, <1>7, <2>2, <3>1, SMT
      <3>2. CASE k > i
        <4>1. k - 1 \in 1 .. n - 1 /\ ~(k - 1 < i) /\ (k - 1) + 1 = k
          BY <1>1, <3>2, SMT
        <4> QED
          BY <1>7, <2>2, <4>1
      <3> QED
        BY <1>1, <2>2, <3>1, <3>2, SMT
    <2> QED
      BY <1>1, <1>6, <2>1, <2>2 DEF Range
  <1> QED
    BY <1>5, <1>8, <1>9 DEF a, n

\* Multiplying by NumCPU keeps the order.
LEMMA Multiples ==
  ASSUME NEW a \in Nat, NEW b \in Nat, a <= b
  PROVE  a * NumCPU \in Nat /\ b * NumCPU \in Nat /\ a * NumCPU <= b * NumCPU /\ a <= a * NumCPU
  <1>1. NumCPU \in Nat /\ NumCPU >= 1
    BY SchedulerAssumption, SMT
  <1>2. PICK d \in Nat : b = a + d
    <2>1. b - a \in Nat /\ b = a + (b - a)
      BY SMT
    <2> QED
      BY <2>1
  <1>3. PICK e \in Nat : NumCPU = 1 + e
    <2>1. NumCPU - 1 \in Nat /\ NumCPU = 1 + (NumCPU - 1)
      BY <1>1, SMT
    <2> QED
      BY <2>1
  <1>4. b * NumCPU = a * NumCPU + d * NumCPU /\ a * NumCPU = a + a * e
    BY <1>1, <1>2, <1>3, SMT
  <1>5. a * NumCPU \in Nat /\ d * NumCPU \in Nat /\ a * e \in Nat /\ b * NumCPU \in Nat
    BY <1>1, SMT
  <1> QED
    BY <1>4, <1>5, SMT

\* The elements of a run queue are threads.
LEMMA QueueElements ==
  ASSUME Typed, NEW c \in CPU
  PROVE  Range(run_queue[c]) \subseteq Thread
  <1>1. run_queue[c] \in Seq(Thread) /\ DOMAIN run_queue[c] = 1 .. Len(run_queue[c])
    BY LenFacts DEF Typed
  <1>2. \A i \in DOMAIN run_queue[c] : run_queue[c][i] \in Thread
    BY <1>1, LenFacts
  <1> QED
    BY <1>2 DEF Range

\* The current thread of a CPU is at its position in the CPU's queue.
LEMMA PositionFacts ==
  ASSUME Typed, NEW c \in CPU, NEW t, t \in Range(run_queue[c])
  PROVE  /\ run_queue[c] \in Seq(Thread) /\ Len(run_queue[c]) \in Nat
         /\ DOMAIN run_queue[c] = 1 .. Len(run_queue[c])
         /\ Position(c, t) \in 1 .. Len(run_queue[c]) /\ run_queue[c][Position(c, t)] = t
  <1>1. /\ run_queue[c] \in Seq(Thread) /\ Len(run_queue[c]) \in Nat
        /\ DOMAIN run_queue[c] = 1 .. Len(run_queue[c])
    BY LenFacts DEF Typed
  <1>2. \E i \in 1 .. Len(run_queue[c]) : run_queue[c][i] = t
    BY <1>1 DEF Range
  <1> QED
    BY <1>1, <1>2 DEF Position

-----------------------------------------------------------------------------
(* The steps                                                               *)

\* A step that changes no queue and starts and ends no thread.
LEMMA KeepQueues ==
  ASSUME QueueInv, UNCHANGED <<run_queue, run_queue_count>>, Live' = Live,
         \A c \in CPU : current_thread'[c] \in Thread => current_thread'[c] \in Range(run_queue[c])
  PROVE  QueueInv'
  BY DEF QueueInv

\* A step that takes and releases no lock.
LEMMA KeepLocks ==
  ASSUME LockInv, UNCHANGED run_queue_lock,
         \A t \in Thread, q \in CPU : Holds(t, q)' <=> Holds(t, q)
  PROVE  LockInv'
  BY DEF LockInv

Alive == PC \ {"unborn", "starting", "gone"}
Locked == {"exit_own_taken", "exit_own_cli", "exit_other_taken", "exit_other_cli"}

\* A step of the current thread of a CPU.
LEMMA RunsFacts ==
  ASSUME IInv, NEW c \in CPU, NEW t \in Thread, NEW from \in Alive, NEW to \in PC,
         Runs(c, t, from, to)
  PROVE  /\ fault = "none" /\ QueueInv /\ ThreadInv /\ LockInv /\ Typed
         /\ pc' \in [Thread -> PC] /\ pc[t] = from /\ pc'[t] = to
         /\ \A u \in Thread \ {t} : pc'[u] = pc[u]
         /\ to \in Alive => Live' = Live
         /\ current_thread[c] = t /\ t \in Range(run_queue[c])
         /\ state[t] # "dying"
  <1>1. /\ fault = "none" /\ QueueInv /\ ThreadInv /\ LockInv /\ Typed
        /\ pc \in [Thread -> PC] /\ current_thread[c] = t
        /\ pc[t] = from /\ pc' = [pc EXCEPT ![t] = to]
    BY DEF Runs, IInv, Typed
  <1>2. /\ pc' \in [Thread -> PC] /\ pc'[t] = to
        /\ \A u \in Thread \ {t} : pc'[u] = pc[u]
    BY <1>1
  <1>3. to \in Alive => Live' = Live
    BY <1>1, <1>2 DEF Live, Alive
  <1>4. t \in Range(run_queue[c])
    BY <1>1 DEF QueueInv
  <1>5. state[t] # "dying"
    BY <1>1 DEF ThreadInv, Alive
  <1> QED
    BY <1>1, <1>2, <1>3, <1>4, <1>5

\* A step of a thread that goes on, outside the places where it has a lock.
LEMMA GoesOn ==
  ASSUME IInv, NEW c \in CPU, NEW t \in Thread, NEW from \in Alive \ Locked, NEW to \in Alive \ Locked,
         Runs(c, t, from, to),
         to \notin {"choose", "insert", "starting", "exit_other"} \/ next_cpu'[t] \in CPU,
         UNCHANGED <<run_queue, run_queue_count, run_queue_lock>>,
         current_thread' \in [CPU -> Thread \union {Idle, Null}],
         \A d \in CPU : current_thread'[d] \in Thread => current_thread'[d] \in Range(run_queue[d]),
         state' \in [Thread -> {"running", "blocked", "dying"}],
         \A u \in Thread : state'[u] = "dying" => state[u] = "dying",
         time_slice' \in [Thread -> 0..DefaultSlice],
         next_cpu' \in [Thread -> 0..NumCPU], \A u \in Thread \ {t} : next_cpu'[u] = next_cpu[u],
         processes' \subseteq Thread, dead_processes' \subseteq Thread, UNCHANGED fault
  PROVE  IInv'
  <1>1. /\ fault = "none" /\ QueueInv /\ ThreadInv /\ LockInv /\ Typed
        /\ pc' \in [Thread -> PC] /\ pc[t] = from /\ pc'[t] = to
        /\ \A u \in Thread \ {t} : pc'[u] = pc[u]
        /\ Live' = Live /\ state[t] # "dying"
    BY RunsFacts, SMT DEF Alive
  <1>2. QueueInv'
    BY <1>1, KeepQueues
  <1>3. ThreadInv'
    BY <1>1 DEF ThreadInv, Alive, Locked
  <1>4. \A u \in Thread, q \in CPU : Holds(u, q)' <=> Holds(u, q)
    BY <1>1 DEF Holds, Locked
  <1>5. LockInv'
    BY <1>1, <1>4, KeepLocks
  <1>6. Typed'
    BY <1>1 DEF Typed
  <1> QED
    BY <1>2, <1>3, <1>5, <1>6 DEF IInv

\* A step that changes neither the queues nor where a thread is.
LEMMA StandsStill ==
  ASSUME IInv, fault = "none", UNCHANGED <<run_queue, run_queue_count, run_queue_lock, pc, next_cpu, fault>>,
         current_thread' \in [CPU -> Thread \union {Idle, Null}],
         \A d \in CPU : current_thread'[d] \in Thread => current_thread'[d] \in Range(run_queue[d]),
         state' \in [Thread -> {"running", "blocked", "dying"}],
         \A u \in Thread : state'[u] = "dying" => state[u] = "dying",
         time_slice' \in [Thread -> 0..DefaultSlice],
         processes' \subseteq Thread, dead_processes' \subseteq Thread
  PROVE  IInv'
  <1>1. QueueInv /\ ThreadInv /\ LockInv /\ Typed
    BY DEF IInv
  <1>2. QueueInv'
    <2>1. Live' = Live
      BY DEF Live
    <2> QED
      BY <1>1, <2>1, KeepQueues
  <1>3. ThreadInv'
    BY <1>1 DEF ThreadInv
  <1>4. \A u \in Thread, q \in CPU : Holds(u, q)' <=> Holds(u, q)
    BY DEF Holds
  <1>5. LockInv'
    BY <1>1, <1>4, KeepLocks
  <1>6. Typed'
    BY <1>1 DEF Typed
  <1> QED
    BY <1>2, <1>3, <1>5, <1>6 DEF IInv

\* What the invariant says while no fault has happened.
LEMMA TypedFacts ==
  ASSUME IInv, fault = "none"
  PROVE  /\ Typed /\ QueueInv
         /\ current_thread \in [CPU -> Thread \union {Idle, Null}]
         /\ \A d \in CPU : current_thread[d] \in Thread => current_thread[d] \in Range(run_queue[d])
         /\ state \in [Thread -> {"running", "blocked", "dying"}]
         /\ time_slice \in [Thread -> 0..DefaultSlice]
         /\ next_cpu \in [Thread -> 0..NumCPU]
         /\ processes \subseteq Thread /\ dead_processes \subseteq Thread
         /\ \A c \in CPU : current_thread[c] \in Thread => state[current_thread[c]] # "dying"
  <1>1. /\ Typed /\ QueueInv /\ ThreadInv
    BY DEF IInv
  <1>2. ASSUME NEW c \in CPU, current_thread[c] \in Thread
        PROVE  state[current_thread[c]] # "dying"
    <2>1. current_thread[c] \in Live
      BY <1>1, <1>2 DEF QueueInv
    <2> QED
      BY <1>1, <2>1 DEF ThreadInv, Live
  <1> QED
    BY <1>1, <1>2 DEF Typed, QueueInv

\* The push: the thread is in no queue yet.
LEMMA SpawnPushStep ==
  ASSUME IInv, NEW c \in CPU, NEW t \in Thread, NEW new \in Unborn, SpawnPush(c, t, new)
  PROVE  IInv'
  <1> DEFINE q == next_cpu[t]
  <1>1. /\ fault = "none" /\ Typed /\ QueueInv /\ ThreadInv /\ LockInv /\ new \in Thread
        /\ pc \in [Thread -> PC] /\ pc[t] = "insert" /\ pc[new] = "starting" /\ t # new
        /\ run_queue \in [CPU -> Seq(Thread)] /\ run_queue_count \in [CPU -> Nat]
    BY SchedulerAssumption DEF SpawnPush, IInv, Typed
  <1>2. q \in CPU
    BY <1>1 DEF ThreadInv
  <1>3. /\ run_queue' = [run_queue EXCEPT ![q] = Append(@, new)]
        /\ run_queue_count' = [run_queue_count EXCEPT ![q] = @ + 1]
        /\ pc' = [pc EXCEPT ![t] = "run", ![new] = "run"]
        /\ processes' = processes \union {new}
        /\ fault' \in {fault, "torn"}
        /\ UNCHANGED <<current_thread, run_queue_lock, state, time_slice, next_cpu, dead_processes>>
    BY DEF SpawnPush
  <1> HIDE DEF q
  <1>4. /\ pc' \in [Thread -> PC] /\ pc'[t] = "run" /\ pc'[new] = "run"
        /\ \A u \in Thread \ {t, new} : pc'[u] = pc[u]
    BY <1>1, <1>3 DEF PC
  <1>5. \A d \in CPU : new \notin Range(run_queue[d])
    BY <1>1 DEF QueueInv, Live
  <1>6. /\ run_queue'[q] \in Seq(Thread) /\ Len(run_queue'[q]) = Len(run_queue[q]) + 1
        /\ Once(run_queue'[q])
        /\ Range(run_queue'[q]) = Range(run_queue[q]) \union {new}
    <2>1. run_queue'[q] = Append(run_queue[q], new) /\ run_queue[q] \in Seq(Thread) /\ Once(run_queue[q])
      BY <1>1, <1>2, <1>3 DEF QueueInv
    <2> QED
      BY <1>1, <1>2, <1>5, <2>1, Pushed, ZenonT(60)
  <1>7. \A d \in CPU \ {q} : run_queue'[d] = run_queue[d] /\ run_queue_count'[d] = run_queue_count[d]
    BY <1>1, <1>3
  <1>8. /\ run_queue_count'[q] = run_queue_count[q] + 1 /\ run_queue_count' \in [CPU -> Nat]
        /\ run_queue' \in [CPU -> Seq(Thread)]
    BY <1>1, <1>2, <1>3, <1>6, SMT
  <1>9. \A u \in Thread : u \in Live' <=> u \in Live \/ u = new
    BY <1>1, <1>4 DEF Live
  <1>10. QueueInv'
    <2>1. \A d \in CPU : Once(run_queue'[d]) /\ run_queue_count'[d] = Len(run_queue'[d])
      BY <1>1, <1>6, <1>7, <1>8 DEF QueueInv
    <2>2. ASSUME NEW d \in CPU, NEW e \in CPU, d # e
          PROVE  Range(run_queue'[d]) \cap Range(run_queue'[e]) = {}
      <3>1. Range(run_queue[d]) \cap Range(run_queue[e]) = {}
        BY <1>1, <2>2 DEF QueueInv
      <3>2. \A x \in {d, e} : /\ new \notin Range(run_queue[x])
                              /\ x # q => Range(run_queue'[x]) = Range(run_queue[x])
        BY <1>5, <1>7
      <3> QED
        BY <1>6, <2>2, <3>1, <3>2
    <2>3. ASSUME NEW u \in Thread
          PROVE  u \in Live' <=> \E d \in CPU : u \in Range(run_queue'[d])
      BY <1>1, <1>2, <1>5, <1>6, <1>7, <1>9, ZenonT(60) DEF QueueInv
    <2>4. \A d \in CPU : current_thread'[d] \in Thread => current_thread'[d] \in Range(run_queue'[d])
      BY <1>1, <1>3, <1>6, <1>7 DEF QueueInv
    <2> QED
      BY <2>1, <2>2, <2>3, <2>4 DEF QueueInv
  <1>11. ThreadInv'
    <2> SUFFICES ASSUME NEW u \in Thread
                 PROVE  /\ state'[u] = "dying" => pc'[u] = "gone"
                        /\ pc'[u] \in {"choose", "insert", "starting", "exit_other", "exit_other_taken",
                                       "exit_other_cli"} => next_cpu'[u] \in CPU
      BY DEF ThreadInv
    <2> QED
      BY <1>1, <1>3, <1>4 DEF ThreadInv
  <1>12. LockInv'
    <2>1. ASSUME NEW u \in Thread, NEW d \in CPU PROVE Holds(u, d)' <=> Holds(u, d)
      <3>1. u # new => (u \in Range(run_queue'[d]) <=> u \in Range(run_queue[d]))
        BY <1>6, <1>7
      <3> QED
        BY <1>1, <1>3, <1>4, <3>1 DEF Holds
    <2> QED
      BY <1>1, <1>3, <2>1, KeepLocks
  <1>13. Typed'
    BY <1>1, <1>3, <1>4, <1>8 DEF Typed
  <1> QED
    BY <1>10, <1>11, <1>12, <1>13 DEF IInv

\* end_process: a lock is taken, kept over the cli, and released.  Nobody else gets
\* or loses one meanwhile.
LEMMA LockStep ==
  ASSUME IInv, NEW c \in CPU, NEW t \in Thread, NEW from \in Alive, NEW to \in Alive,
         Runs(c, t, from, to),
         to \notin {"choose", "insert", "starting", "exit_other", "exit_other_taken", "exit_other_cli"}
             \/ next_cpu'[t] \in CPU,
         UNCHANGED <<cpu_vars, state, time_slice, processes, dead_processes, fault>>,
         next_cpu' \in [Thread -> 0..NumCPU], \A u \in Thread \ {t} : next_cpu'[u] = next_cpu[u],
         run_queue_lock' \in [CPU -> {0, 1}],
         \A q \in CPU :
            \/ run_queue_lock'[q] = run_queue_lock[q] /\ (Holds(t, q)' <=> Holds(t, q))
            \/ run_queue_lock[q] = 0 /\ run_queue_lock'[q] = 1 /\ Holds(t, q)'
            \/ Holds(t, q) /\ run_queue_lock'[q] = 0 /\ ~Holds(t, q)'
  PROVE  IInv'
  <1>1. /\ fault = "none" /\ QueueInv /\ ThreadInv /\ LockInv /\ Typed
        /\ pc' \in [Thread -> PC] /\ pc[t] = from /\ pc'[t] = to
        /\ \A u \in Thread \ {t} : pc'[u] = pc[u]
        /\ Live' = Live /\ state[t] # "dying"
    BY RunsFacts, SMT DEF Alive
  <1>2. QueueInv'
    <2>1. \A d \in CPU : current_thread'[d] \in Thread => current_thread'[d] \in Range(run_queue[d])
      BY <1>1 DEF QueueInv, cpu_vars
    <2> QED
      BY <1>1, <2>1, KeepQueues DEF cpu_vars
  <1>3. ThreadInv'
    BY <1>1 DEF ThreadInv
  <1>4. \A u \in Thread \ {t}, q \in CPU : Holds(u, q)' <=> Holds(u, q)
    BY <1>1 DEF Holds, cpu_vars
  <1>5. LockInv'
    <2> SUFFICES ASSUME NEW q \in CPU
                 PROVE  \/ run_queue_lock'[q] = 0 /\ \A u \in Thread : ~Holds(u, q)'
                        \/ /\ run_queue_lock'[q] = 1
                           /\ \E o \in Thread : Holds(o, q)' /\ \A u \in Thread : Holds(u, q)' => u = o
      BY DEF LockInv
    <2> DEFINE H(u) == Holds(u, q)
               G(u) == Holds(u, q)'
    <2>1. \/ run_queue_lock[q] = 0 /\ \A u \in Thread : ~H(u)
          \/ /\ run_queue_lock[q] = 1
             /\ \E o \in Thread : H(o) /\ \A u \in Thread : H(u) => u = o
      BY <1>1 DEF LockInv
    <2>2. \A u \in Thread \ {t} : G(u) <=> H(u)
      BY <1>4
    <2>3. \/ run_queue_lock'[q] = run_queue_lock[q] /\ (G(t) <=> H(t))
          \/ run_queue_lock[q] = 0 /\ run_queue_lock'[q] = 1 /\ G(t)
          \/ H(t) /\ run_queue_lock'[q] = 0 /\ ~G(t)
      OBVIOUS
    <2> SUFFICES \/ run_queue_lock'[q] = 0 /\ \A u \in Thread : ~G(u)
                 \/ /\ run_queue_lock'[q] = 1
                    /\ \E o \in Thread : G(o) /\ \A u \in Thread : G(u) => u = o
      OBVIOUS
    <2> HIDE DEF H, G
    <2>4. CASE run_queue_lock'[q] = run_queue_lock[q] /\ (G(t) <=> H(t))
      <3>1. \A u \in Thread : G(u) <=> H(u)
        BY <2>2, <2>4
      <3> QED
        BY <2>1, <2>4, <3>1
    <2>5. CASE run_queue_lock[q] = 0 /\ run_queue_lock'[q] = 1 /\ G(t)
      BY <2>1, <2>2, <2>5, SMT
    <2>6. CASE H(t) /\ run_queue_lock'[q] = 0 /\ ~G(t)
      BY <2>1, <2>2, <2>6
    <2> QED
      BY <2>3, <2>4, <2>5, <2>6
  <1>6. Typed'
    BY <1>1 DEF Typed, cpu_vars
  <1> QED
    BY <1>2, <1>3, <1>5, <1>6 DEF IInv

\* end_process takes the lock of its own queue, then one after the other.
LEMMA ExitLockStep ==
  ASSUME IInv, NEW c \in CPU, NEW t \in Thread, ExitLockOwn(c, t) \/ ExitLockOther(c, t) \/ ExitCli(c, t)
  PROVE  IInv'
  <1>0. fault = "none" /\ Typed /\ QueueInv /\ ThreadInv
        /\ run_queue_lock \in [CPU -> {0, 1}] /\ next_cpu \in [Thread -> 0..NumCPU]
    BY DEF ExitLockOwn, ExitLockOther, ExitLock, ExitCli, Runs, IInv, Typed
  <1>1. CASE ExitLockOwn(c, t)
    <2>1. /\ Runs(c, t, "exit_own", "exit_own_taken")
          /\ run_queue_lock[c] = 0 /\ run_queue_lock' = [run_queue_lock EXCEPT ![c] = 1]
          /\ UNCHANGED <<cpu_vars, state, time_slice, next_cpu, processes, dead_processes, fault>>
      BY <1>1 DEF ExitLockOwn, ExitLock
    <2>2. "exit_own" \in Alive /\ "exit_own_taken" \in Alive /\ "exit_own_taken" \in PC
      BY DEF Alive, PC
    <2>3. pc[t] = "exit_own" /\ pc'[t] = "exit_own_taken" /\ t \in Range(run_queue[c])
      <3>1. Runs(c, t, "exit_own", "exit_own_taken")
        BY <2>1
      <3> QED
        BY <2>2, <3>1, RunsFacts, SMT
    <2>4. \A q \in CPU : (Holds(t, q)' <=> q = c) /\ ~Holds(t, q)
      BY <1>0, <2>1, <2>3 DEF Holds, QueueInv, cpu_vars
    <2>5. /\ run_queue_lock' \in [CPU -> {0, 1}]
          /\ \A q \in CPU :
               \/ run_queue_lock'[q] = run_queue_lock[q] /\ (Holds(t, q)' <=> Holds(t, q))
               \/ run_queue_lock[q] = 0 /\ run_queue_lock'[q] = 1 /\ Holds(t, q)'
      BY <1>0, <2>1, <2>4
    <2> QED
      BY <1>0, <2>1, <2>2, <2>5, LockStep
  <1>2. CASE ExitLockOther(c, t)
    <2> DEFINE p == next_cpu[t]
    <2>1. /\ Runs(c, t, "exit_other", "exit_other_taken")
          /\ run_queue_lock[p] = 0 /\ run_queue_lock' = [run_queue_lock EXCEPT ![p] = 1]
          /\ UNCHANGED <<cpu_vars, state, time_slice, next_cpu, processes, dead_processes, fault>>
      BY <1>2 DEF ExitLockOther, ExitLock
    <2>2. "exit_other" \in Alive /\ "exit_other_taken" \in Alive
      BY DEF Alive, PC
    <2>3. pc[t] = "exit_other" /\ pc'[t] = "exit_other_taken"
      BY <2>1, <2>2, RunsFacts, SMT DEF Alive
    <2>4. p \in CPU
      BY <1>0, <2>3 DEF ThreadInv
    <2>5. \A q \in CPU : (Holds(t, q)' <=> q = p) /\ ~Holds(t, q)
      BY <2>1, <2>3 DEF Holds
    <2>6. /\ run_queue_lock' \in [CPU -> {0, 1}]
          /\ \A q \in CPU :
               \/ run_queue_lock'[q] = run_queue_lock[q] /\ (Holds(t, q)' <=> Holds(t, q))
               \/ run_queue_lock[q] = 0 /\ run_queue_lock'[q] = 1 /\ Holds(t, q)'
      BY <1>0, <2>1, <2>5
    <2> QED
      BY <1>0, <2>1, <2>2, <2>4, <2>6, LockStep
  <1>3. CASE ExitCli(c, t)
    <2>1. UNCHANGED <<cpu_vars, run_queue_lock, state, time_slice, next_cpu, processes,
                      dead_processes, fault>>
      BY <1>3 DEF ExitCli
    <2>2. Alive \in SUBSET PC /\ {"exit_own_taken", "exit_own_cli", "exit_other_taken", "exit_other_cli"} \subseteq Alive
      BY DEF Alive, PC
    <2>3. CASE Runs(c, t, "exit_own_taken", "exit_own_cli")
      <3>1. pc[t] = "exit_own_taken" /\ pc'[t] = "exit_own_cli"
        <4>1. "exit_own_taken" \in Alive /\ "exit_own_cli" \in PC
          BY DEF Alive, PC
        <4> QED
          BY <2>3, <4>1, RunsFacts, SMT
      <3>2. \A q \in CPU : Holds(t, q)' <=> Holds(t, q)
        BY <2>1, <3>1 DEF Holds, cpu_vars
      <3> QED
        BY <1>0, <2>1, <2>2, <2>3, <3>2, LockStep
    <2>4. CASE Runs(c, t, "exit_other_taken", "exit_other_cli")
      <3>1. pc[t] = "exit_other_taken" /\ pc'[t] = "exit_other_cli"
        BY <2>2, <2>4, RunsFacts, SMT
      <3>2. \A q \in CPU : Holds(t, q)' <=> Holds(t, q)
        BY <2>1, <3>1 DEF Holds, cpu_vars
      <3>3. next_cpu[t] \in CPU
        BY <1>0, <3>1 DEF ThreadInv
      <3> QED
        BY <1>0, <2>1, <2>2, <2>4, <3>2, <3>3, LockStep
    <2> QED
      BY <1>3, <2>3, <2>4 DEF ExitCli
  <1> QED
    BY <1>1, <1>2, <1>3

\* end_process gives the locks back.
LEMMA ExitUnlockStep ==
  ASSUME IInv, NEW c \in CPU, NEW t \in Thread, ExitUnlockOwn(c, t) \/ ExitUnlockOther(c, t)
  PROVE  IInv'
  <1>0. /\ fault = "none" /\ Typed /\ QueueInv /\ ThreadInv
        /\ run_queue_lock \in [CPU -> {0, 1}] /\ next_cpu \in [Thread -> 0..NumCPU]
        /\ NumCPU \in Nat /\ CPU = 0..NumCPU - 1
    BY SchedulerAssumption DEF ExitUnlockOwn, ExitUnlockOther, ExitUnlock, Runs, IInv, Typed, CPU
  <1>1. ASSUME NEW from \in {"exit_own_cli", "exit_other_cli"}, NEW q \in CPU, NEW i \in 0..NumCPU,
               from = "exit_own_cli" => q = c, from = "exit_other_cli" => q = next_cpu[t],
               ExitUnlock(c, t, from, q, i), i = NumCPU => i # c
        PROVE  IInv'
    <2> DEFINE n == OtherFrom(c, i)
               to == IF n < NumCPU THEN "exit_other" ELSE "exit_list"
    <2>1. /\ Runs(c, t, from, to)
          /\ run_queue_lock' = [run_queue_lock EXCEPT ![q] = 0]
          /\ next_cpu' = [next_cpu EXCEPT ![t] = n]
          /\ UNCHANGED <<cpu_vars, state, time_slice, processes, dead_processes, fault>>
      BY <1>1 DEF ExitUnlock
    <2>2. n \in 0..NumCPU /\ (n < NumCPU => n \in CPU)
      BY <1>0, <1>1, SMT DEF OtherFrom
    <2>3. from \in Alive /\ to \in {"exit_other", "exit_list"} /\ to \in Alive /\ Alive \in SUBSET PC
      BY DEF Alive, PC
    <2>4. pc[t] = from /\ pc'[t] = to /\ t \in Range(run_queue[c])
      BY <2>1, <2>3, RunsFacts, SMT
    <2>5. to = "exit_other" => n \in CPU
      BY <2>2
    <2> HIDE DEF n, to
    <2>6. next_cpu' \in [Thread -> 0..NumCPU] /\ next_cpu'[t] = n
          /\ \A u \in Thread \ {t} : next_cpu'[u] = next_cpu[u]
      BY <1>0, <2>1, <2>2
    <2>7. \A p \in CPU : (Holds(t, p) <=> p = q) /\ ~Holds(t, p)'
      <3>1. \A p \in CPU : ~Holds(t, p)'
        BY <2>3, <2>4 DEF Holds
      <3>2. \A p \in CPU : t \in Range(run_queue[p]) <=> p = c
        BY <1>0, <2>4 DEF QueueInv
      <3>3. \A p \in CPU : Holds(t, p) <=> p = q
        BY <1>1, <2>4, <3>2, SMT DEF Holds
      <3> QED
        BY <3>1, <3>3
    <2>8. /\ run_queue_lock' \in [CPU -> {0, 1}]
          /\ \A p \in CPU :
               \/ run_queue_lock'[p] = run_queue_lock[p] /\ (Holds(t, p)' <=> Holds(t, p))
               \/ Holds(t, p) /\ run_queue_lock'[p] = 0 /\ ~Holds(t, p)'
      BY <1>0, <2>1, <2>7
    <2> QED
      BY <2>1, <2>3, <2>5, <2>6, <2>8, LockStep
  <1>2. CASE ExitUnlockOwn(c, t)
    BY <1>0, <1>1, <1>2, SMT DEF ExitUnlockOwn
  <1>3. CASE ExitUnlockOther(c, t)
    <2>1. next_cpu[t] \in CPU
      BY <1>0, <1>3 DEF ExitUnlockOther, ExitUnlock, Runs, ThreadInv
    <2>2. /\ next_cpu[t] + 1 \in 0..NumCPU
          /\ next_cpu[t] + 1 = NumCPU => next_cpu[t] + 1 # c
      BY <1>0, <2>1, SMT
    <2> QED
      BY <1>1, <1>3, <2>1, <2>2 DEF ExitUnlockOther
  <1> QED
    BY <1>2, <1>3

\* The last call of schedule(): the thread leaves the queue it is in.
LEMMA ExitDieStep ==
  ASSUME IInv, NEW c \in CPU, NEW t \in Thread, ExitDie(c, t)
  PROVE  IInv'
  <1>1. "exit_die" \in Alive /\ "gone" \in PC
    BY DEF Alive, PC
  <1>2. /\ fault = "none" /\ QueueInv /\ ThreadInv /\ LockInv /\ Typed
        /\ pc' \in [Thread -> PC] /\ pc[t] = "exit_die" /\ pc'[t] = "gone"
        /\ \A u \in Thread \ {t} : pc'[u] = pc[u]
        /\ current_thread[c] = t /\ t \in Range(run_queue[c])
    BY <1>1, RunsFacts, SMT DEF ExitDie
  <1>3. /\ state' = [state EXCEPT ![t] = "dying"]
        /\ UNCHANGED <<run_queue_lock, next_cpu, processes, dead_processes>>
    BY DEF ExitDie
  <1>4. state' \in [Thread -> {"running", "blocked", "dying"}] /\ state'[t] = "dying"
        /\ \A u \in Thread \ {t} : state'[u] = state[u]
    BY <1>2, <1>3 DEF Typed
  <1>5. CASE fault' = "overran" /\ UNCHANGED <<cpu_vars, time_slice>>
    <2>1. Typed'
      BY <1>2, <1>3, <1>4, <1>5 DEF Typed, cpu_vars
    <2> QED
      BY <1>5, <2>1 DEF IInv
  <1>6. CASE Switch(c, "dying") /\ fault' = IF Inserting(c) = {} THEN fault ELSE "torn"
    <2> DEFINE s == run_queue[c]
               i == Position(c, t)
    <2>1. /\ s \in Seq(Thread) /\ Once(s) /\ i \in DOMAIN s /\ s[i] = t /\ Len(s) \in Nat /\ Len(s) >= 1
      <3>1. /\ s \in Seq(Thread) /\ Len(s) \in Nat /\ DOMAIN s = 1 .. Len(s)
            /\ i \in 1 .. Len(s) /\ s[i] = t
        <4>1. Typed /\ t \in Range(run_queue[c])
          BY <1>2
        <4> QED
          BY <4>1, PositionFacts
      <3>2. Once(s)
        <4>1. QueueInv
          BY <1>2
        <4> QED
          BY <4>1 DEF QueueInv
      <3> HIDE DEF s, i
      <3> QED
        BY <3>1, <3>2, SMT
    <2>2. run_queue_count[c] = Len(s) /\ run_queue_count \in [CPU -> Nat] /\ t # Null
      BY <1>2, SchedulerAssumption DEF QueueInv, Typed
    <2>3. EraseCurrent(c)
      BY <1>2, <1>6, <2>1, <2>2, SMT DEF Switch
    <2>4. /\ run_queue' = [run_queue EXCEPT ![c] = RemoveAt(s, i)]
          /\ run_queue_count' = [run_queue_count EXCEPT ![c] = @ - 1]
          /\ current_thread' = [current_thread EXCEPT ![c] = Idle]
          /\ UNCHANGED time_slice
      BY <1>2, <2>3 DEF EraseCurrent, SetCurrent
    <2>5. run_queue \in [CPU -> Seq(Thread)] /\ current_thread \in [CPU -> Thread \union {Idle, Null}]
          /\ Idle \notin Thread
      BY <1>2, SchedulerAssumption DEF Typed
    <2>6. /\ run_queue'[c] \in Seq(Thread) /\ Len(run_queue'[c]) = Len(s) - 1
          /\ Once(run_queue'[c])
          /\ Range(run_queue'[c]) = Range(s) \ {t}
      <3>1. run_queue'[c] = RemoveAt(s, i)
        BY <2>4, <2>5
      <3> HIDE DEF s, i
      <3> QED
        BY <2>1, <3>1, Erased
    <2>7. /\ \A d \in CPU \ {c} : /\ run_queue'[d] = run_queue[d]
                                  /\ run_queue_count'[d] = run_queue_count[d]
                                  /\ current_thread'[d] = current_thread[d]
          /\ current_thread'[c] = Idle /\ current_thread' \in [CPU -> Thread \union {Idle, Null}]
          /\ run_queue_count'[c] = Len(s) - 1
      BY <2>2, <2>4, <2>5
    <2>8. run_queue' \in [CPU -> Seq(Thread)] /\ run_queue_count' \in [CPU -> Nat]
      <3> HIDE DEF s, i
      <3> QED
        BY <2>1, <2>2, <2>4, <2>5, <2>6, SMT
    <2> HIDE DEF i
    <2>9. ASSUME NEW d \in CPU PROVE Range(run_queue'[d]) = Range(run_queue[d]) \ {t}
      <3>1. CASE d = c
        BY <2>6, <3>1
      <3>2. CASE d # c
        <4>1. t \notin Range(run_queue[d])
          BY <1>2, <3>2 DEF QueueInv
        <4> QED
          BY <2>7, <3>2, <4>1
      <3> QED
        BY <3>1, <3>2
    <2>10. \A u \in Thread : u \in Live' <=> u \in Live /\ u # t
      BY <1>2 DEF Live
    <2>11. QueueInv'
      <3>1. ASSUME NEW d \in CPU
            PROVE  Once(run_queue'[d]) /\ run_queue_count'[d] = Len(run_queue'[d])
        <4>1. CASE d = c
          BY <2>6, <2>7, <4>1
        <4>2. CASE d # c
          <5>1. Once(run_queue[d]) /\ run_queue_count[d] = Len(run_queue[d])
            BY <1>2 DEF QueueInv
          <5> QED
            BY <2>7, <4>2, <5>1
        <4> QED
          BY <4>1, <4>2
      <3>2. ASSUME NEW d \in CPU, NEW e \in CPU, d # e
            PROVE  Range(run_queue'[d]) \cap Range(run_queue'[e]) = {}
        <4>1. Range(run_queue[d]) \cap Range(run_queue[e]) = {}
          BY <1>2, <3>2 DEF QueueInv
        <4> QED
          BY <2>9, <4>1
      <3>3. ASSUME NEW u \in Thread
            PROVE  u \in Live' <=> \E d \in CPU : u \in Range(run_queue'[d])
        <4>1. u \in Live <=> \E d \in CPU : u \in Range(run_queue[d])
          BY <1>2 DEF QueueInv
        <4> QED
          BY <2>9, <2>10, <4>1
      <3>4. ASSUME NEW d \in CPU, current_thread'[d] \in Thread
            PROVE  current_thread'[d] \in Range(run_queue'[d])
        <4>1. d # c /\ current_thread'[d] = current_thread[d]
          BY <2>5, <2>7, <3>4
        <4>2. current_thread[d] \in Range(run_queue[d])
          BY <1>2, <3>4, <4>1 DEF QueueInv
        <4> QED
          BY <2>7, <4>1, <4>2
      <3> QED
        BY <3>1, <3>2, <3>3, <3>4 DEF QueueInv
    <2>12. ThreadInv'
      BY <1>2, <1>3, <1>4, SMT DEF ThreadInv
    <2>13. LockInv'
      <3>1. ASSUME NEW u \in Thread, NEW d \in CPU PROVE Holds(u, d)' <=> Holds(u, d)
        <4>1. u # t => (u \in Range(run_queue'[d]) <=> u \in Range(run_queue[d]))
          BY <2>9
        <4> QED
          BY <1>2, <1>3, <4>1 DEF Holds
      <3> QED
        BY <1>2, <1>3, <3>1, KeepLocks
    <2>14. Typed'
      BY <1>2, <1>3, <1>4, <1>6, <2>4, <2>7, <2>8 DEF Typed
    <2> QED
      BY <2>11, <2>12, <2>13, <2>14 DEF IInv
  <1> QED
    BY <1>5, <1>6 DEF ExitDie

-----------------------------------------------------------------------------
(* What rests on the library: the least of a set, and the sizes of sets    *)

INSTANCE FiniteSetTheorems

\* A set of natural numbers has a least element.
LEMMA LeastNat ==
  ASSUME NEW S \in SUBSET Nat, S # {}
  PROVE  \E x \in S : \A y \in S : x <= y
  <1>1. IsWellFoundedOn({ss \in Nat \X Nat : ss[1] < ss[2]}, Nat)
    BY NatLessThanWellFounded DEF OpToRel
  <1>2. PICK x \in S : \A y \in S : ~(<<y, x>> \in {ss \in Nat \X Nat : ss[1] < ss[2]})
    BY <1>1, WFMin
  <1>3. \A y \in S : ~(y < x)
    BY <1>2
  <1> QED
    BY <1>3, SMT

-----------------------------------------------------------------------------
(* schedule                                                                *)

\* schedule() that does not meet a dying thread chooses a thread of the CPU's own
\* queue, or the idle one.
LEMMA Chosen ==
  ASSUME Typed, QueueInv, NEW c \in CPU, NEW cur, cur = current_thread[c],
         run_queue_count[c] > 0, cur # Null
  PROVE  LET t == SkipBlocked(c, Turn(c, cur)) IN t = Idle \/ t \in Range(run_queue[c])
  <1> DEFINE s == run_queue[c]
  <1>1. s \in Seq(Thread) /\ Len(s) \in Nat /\ DOMAIN s = 1 .. Len(s) /\ Len(s) > 0
    BY LenFacts DEF Typed, QueueInv
  <1>2. \A i \in 1 .. Len(s) : s[i] \in Range(s)
    BY <1>1 DEF Range
  <1>3. Head(s) = s[1] /\ 1 \in 1 .. Len(s)
    BY <1>1, HeadFacts, SMT
  <1>4. cur = Idle \/ cur \in Range(s)
    BY DEF Typed, QueueInv
  <1>5. Turn(c, cur) \in Range(s)
    <2>1. CASE cur = Idle
      BY <1>2, <1>3, <2>1 DEF Turn
    <2>2. CASE cur \in Range(s)
      <3>1. Position(c, cur) \in 1 .. Len(s)
        BY <2>2, PositionFacts
      <3>2. After(c, cur) # Null => After(c, cur) \in Range(s)
        <4>1. CASE Position(c, cur) < Len(s)
          <5>1. Position(c, cur) + 1 \in 1 .. Len(s)
            BY <1>1, <3>1, <4>1, SMT
          <5> QED
            BY <1>2, <4>1, <5>1 DEF After
        <4>2. CASE ~(Position(c, cur) < Len(s))
          BY <4>2 DEF After
        <4> QED
          BY <4>1, <4>2
      <3> QED
        BY <1>2, <1>3, <3>2 DEF Turn
    <2> QED
      BY <1>4, <2>1, <2>2
  <1>6. ASSUME NEW t \in Range(s) PROVE SkipBlocked(c, t) = Idle \/ SkipBlocked(c, t) \in Range(s)
    <2> DEFINE behind == {i \in 1..Len(run_queue[c]) :
                     i > Position(c, t) /\ state[run_queue[c][i]] = "blocked"}
    <2>1. behind \in SUBSET Nat /\ behind \subseteq 1 .. Len(s)
      BY <1>1, SMT
    <2>2. CASE behind # {}
      <3>1. \E i \in behind : \A k \in behind : i <= k
        <4> HIDE DEF behind
        <4> QED
          BY <2>1, <2>2, LeastNat
      <3>2. (CHOOSE i \in behind : \A k \in behind : i <= k) \in behind
        <4> HIDE DEF behind
        <4> QED
          BY <3>1
      <3> QED
        BY <1>2, <2>1, <2>2, <3>2 DEF SkipBlocked
    <2> QED
      BY <2>2 DEF SkipBlocked
  <1> QED
    BY <1>5, <1>6

\* schedule() that meets no dying thread leaves the queues alone.
LEMMA SwitchKeeps ==
  ASSUME Typed, QueueInv, NEW c \in CPU, NEW st, Switch(c, st),
         current_thread[c] \in Thread => st # "dying"
  PROVE  /\ UNCHANGED <<run_queue, run_queue_count>>
         /\ current_thread' \in [CPU -> Thread \union {Idle, Null}]
         /\ \A d \in CPU : current_thread'[d] \in Thread => current_thread'[d] \in Range(run_queue[d])
         /\ time_slice' \in [Thread -> 0..DefaultSlice]
  <1>1. /\ Idle \notin Thread /\ Null \notin Thread /\ DefaultSlice \in 0..DefaultSlice
        /\ current_thread \in [CPU -> Thread \union {Idle, Null}]
        /\ \A d \in CPU : current_thread[d] \in Thread => current_thread[d] \in Range(run_queue[d])
        /\ time_slice \in [Thread -> 0..DefaultSlice]
        /\ \A d \in CPU : Range(run_queue[d]) \subseteq Thread
    <2>1. \A d \in CPU : Range(run_queue[d]) \subseteq Thread
      BY QueueElements
    <2> QED
      BY <2>1, SchedulerAssumption, SMT DEF Typed, QueueInv
  <1>2. ASSUME NEW t, t = Idle \/ t \in Range(run_queue[c]), SetCurrent(c, t)
        PROVE  /\ current_thread' \in [CPU -> Thread \union {Idle, Null}]
               /\ \A d \in CPU : current_thread'[d] \in Thread
                                   => current_thread'[d] \in Range(run_queue[d])
    BY <1>1, <1>2 DEF SetCurrent
  <1>3. CASE /\ run_queue_count[c] <= 0 \/ current_thread[c] = Null
             /\ SetCurrent(c, Idle)
             /\ UNCHANGED <<run_queue, run_queue_count, time_slice>>
    BY <1>1, <1>2, <1>3
  <1>4. CASE /\ run_queue_count[c] > 0 /\ current_thread[c] # Null /\ st # "dying"
             /\ SetCurrent(c, SkipBlocked(c, Turn(c, current_thread[c])))
             /\ time_slice' = IF current_thread[c] = Idle THEN time_slice
                              ELSE [time_slice EXCEPT ![current_thread[c]] = DefaultSlice]
             /\ UNCHANGED <<run_queue, run_queue_count>>
    <2> DEFINE n == SkipBlocked(c, Turn(c, current_thread[c]))
    <2>1. n = Idle \/ n \in Range(run_queue[c])
      BY <1>4, Chosen
    <2>2. SetCurrent(c, n)
      BY <1>4
    <2> HIDE DEF n
    <2>3. time_slice' \in [Thread -> 0..DefaultSlice]
      BY <1>1, <1>4
    <2> QED
      BY <1>2, <1>4, <2>1, <2>2, <2>3
  <1> QED
    BY <1>1, <1>3, <1>4 DEF Switch

\* insert_new_thread finds a CPU.
LEMMA ShortestFacts == ASSUME Typed PROVE ShortestQueue \in CPU
  <1>1. CPU \in SUBSET Nat /\ 0 \in CPU /\ run_queue_count \in [CPU -> Nat]
    BY SchedulerAssumption, SMT DEF CPU, Typed
  <1> DEFINE S == {run_queue_count[c] : c \in CPU}
  <1>2. PICK m \in S : \A n \in S : m <= n
    <2>1. S \in SUBSET Nat /\ S # {}
      BY <1>1
    <2> HIDE DEF S
    <2> QED
      BY <2>1, LeastNat
  <1> DEFINE T == {c \in CPU : run_queue_count[c] = m}
  <1>3. PICK c \in T : \A d \in T : c <= d
    <2>1. T \in SUBSET Nat /\ T # {}
      BY <1>1, <1>2
    <2> HIDE DEF T
    <2> QED
      BY <2>1, LeastNat
  <1>4. c \in CPU /\ \A d \in CPU : /\ run_queue_count[c] <= run_queue_count[d]
                                    /\ run_queue_count[c] = run_queue_count[d] => c <= d
    BY <1>2, <1>3
  <1> QED
    BY <1>4 DEF ShortestQueue

\* A tick counts a time slice down, or calls schedule().
LEMMA TickStep == ASSUME IInv, NEW c \in CPU, Tick(c) PROVE IInv'
  <1>0. fault = "none"
    BY DEF Tick
  <1> DEFINE cur == current_thread[c]
  <1>1. CASE cur \in Thread /\ time_slice[cur] > 0 /\ time_slice' = [time_slice EXCEPT ![cur] = @ - 1]
             /\ UNCHANGED cpu_vars
    <2>1. time_slice' \in [Thread -> 0..DefaultSlice]
      BY <1>0, <1>1, TypedFacts, SchedulerAssumption, SMT
    <2> QED
      BY <1>0, <1>1, <2>1, TypedFacts, StandsStill DEF Tick, cpu_vars
  <1>2. CASE Switch(c, StateOf(cur))
    <2>1. cur \in Thread => StateOf(cur) # "dying"
      BY <1>0, TypedFacts DEF StateOf
    <2>2. /\ UNCHANGED <<run_queue, run_queue_count>>
          /\ current_thread' \in [CPU -> Thread \union {Idle, Null}]
          /\ \A d \in CPU : current_thread'[d] \in Thread => current_thread'[d] \in Range(run_queue[d])
          /\ time_slice' \in [Thread -> 0..DefaultSlice]
      BY <1>0, <1>2, <2>1, TypedFacts, SwitchKeeps
    <2> QED
      BY <1>0, <2>2, TypedFacts, StandsStill DEF Tick
  <1> QED
    BY <1>1, <1>2 DEF Tick

\* Blocking, yielding, waking, collecting, and the steps of a start and an exit that
\* touch neither a queue nor a lock.
LEMMA SmallSteps ==
  ASSUME IInv, NEW c \in CPU, NEW t \in Thread,
         \/ Block(c, t) \/ Yield(c, t) \/ EndProcess(c, t) \/ SpawnCli(c, t) \/ ExitList(c, t)
         \/ Gc(c) \/ Unblock(t)
  PROVE  IInv'
  <1>0. fault = "none"
    BY DEF Block, Yield, EndProcess, SpawnCli, ExitList, Gc, Unblock, Runs
  <1>1. CASE Block(c, t)
    <2>1. /\ Runs(c, t, "run", "yield") /\ state' = [state EXCEPT ![t] = "blocked"]
          /\ UNCHANGED <<cpu_vars, run_queue_lock, time_slice, next_cpu, processes,
                   dead_processes, fault>>
      BY <1>1 DEF Block
    <2> QED
      BY <1>0, <2>1, TypedFacts, GoesOn DEF cpu_vars, Alive, Locked, PC
  <1>2. CASE Yield(c, t)
    <2>1. PICK from \in {"run", "yield"} : Runs(c, t, from, "run")
      BY <1>2 DEF Yield
    <2>2. from \in Alive \ Locked /\ "run" \in Alive \ Locked
      BY DEF Alive, Locked, PC
    <2>3. CASE Switch(c, state[t])
      <3>1. state[t] # "dying"
        BY <2>1, <2>2, RunsFacts DEF Alive
      <3>2. /\ UNCHANGED <<run_queue, run_queue_count>>
            /\ current_thread' \in [CPU -> Thread \union {Idle, Null}]
            /\ \A d \in CPU : current_thread'[d] \in Thread => current_thread'[d] \in Range(run_queue[d])
            /\ time_slice' \in [Thread -> 0..DefaultSlice]
        BY <1>0, <2>3, <3>1, TypedFacts, SwitchKeeps
      <3>3. UNCHANGED <<run_queue_lock, state, next_cpu, processes, dead_processes, fault>>
        BY <1>2 DEF Yield
      <3> QED
        BY <1>0, <2>1, <2>2, <3>2, <3>3, TypedFacts, GoesOn
    <2>4. CASE time_slice' = [time_slice EXCEPT ![t] = 0] /\ UNCHANGED cpu_vars
      <3>1. time_slice' \in [Thread -> 0..DefaultSlice]
        BY <1>0, <2>4, TypedFacts, SchedulerAssumption, SMT
      <3>2. UNCHANGED <<run_queue_lock, state, next_cpu, processes, dead_processes, fault>>
        BY <1>2 DEF Yield
      <3> QED
        BY <1>0, <2>1, <2>2, <2>4, <3>1, <3>2, TypedFacts, GoesOn, SMT DEF cpu_vars
    <2> QED
      BY <1>2, <2>3, <2>4 DEF Yield
  <1>3. CASE EndProcess(c, t)
    BY <1>0, <1>3, TypedFacts, GoesOn DEF EndProcess, cpu_vars, Alive, Locked, PC
  <1>4. CASE SpawnCli(c, t)
    <2>1. next_cpu[t] \in CPU
      BY <1>4 DEF SpawnCli, Runs, IInv, ThreadInv
    <2> QED
      BY <1>0, <1>4, <2>1, TypedFacts, GoesOn DEF SpawnCli, cpu_vars, Alive, Locked, PC
  <1>5. CASE ExitList(c, t)
    <2>1. processes' \subseteq Thread /\ dead_processes' \subseteq Thread
      BY <1>0, <1>5, TypedFacts DEF ExitList
    <2> QED
      BY <1>0, <1>5, <2>1, TypedFacts, GoesOn, SMT DEF ExitList, cpu_vars, Alive, Locked, PC
  <1>6. CASE Gc(c)
    BY <1>0, <1>6, TypedFacts, StandsStill DEF Gc, cpu_vars
  <1>7. CASE Unblock(t)
    <2>1. time_slice' \in [Thread -> 0..DefaultSlice]
      BY <1>0, <1>7, TypedFacts, SchedulerAssumption, SMT DEF Unblock
    <2>2. state' \in [Thread -> {"running", "blocked", "dying"}]
      BY <1>0, <1>7, TypedFacts DEF Unblock
    <2>3. \A u \in Thread : state'[u] = "dying" => state[u] = "dying"
      BY <1>0, <1>7, TypedFacts, SMT DEF Unblock
    <2> QED
      BY <1>0, <1>7, <2>1, <2>2, <2>3, TypedFacts, StandsStill DEF Unblock, cpu_vars
  <1> QED
    BY <1>1, <1>2, <1>3, <1>4, <1>5, <1>6, <1>7, SMT

\* insert_new_thread, up to the push: the CPU is chosen for the thread that starts.
LEMMA SpawnStep ==
  ASSUME IInv, NEW c \in CPU, NEW t \in Thread, NEW new \in Unborn, Spawn(c, t, new)
  PROVE  IInv'
  <1>1. /\ fault = "none" /\ Typed /\ QueueInv /\ ThreadInv /\ LockInv /\ new \in Thread
        /\ pc \in [Thread -> PC] /\ pc[t] = "run" /\ pc[new] = "unborn" /\ t # new
        /\ next_cpu \in [Thread -> 0..NumCPU]
    BY SchedulerAssumption DEF Spawn, IInv, Typed
  <1>2. /\ pc' \in [Thread -> PC] /\ pc'[t] = "choose" /\ pc'[new] = "starting"
        /\ \A u \in Thread \ {t, new} : pc'[u] = pc[u]
    BY <1>1 DEF Spawn, PC
  <1>3. ShortestQueue \in CPU /\ CPU \subseteq 0..NumCPU
    BY <1>1, ShortestFacts, SchedulerAssumption, SMT DEF CPU
  <1>4. /\ next_cpu' \in [Thread -> 0..NumCPU]
        /\ next_cpu'[t] \in CPU /\ next_cpu'[new] \in CPU
        /\ \A u \in Thread \ {t, new} : next_cpu'[u] = next_cpu[u]
    BY <1>1, <1>3 DEF Spawn
  <1>5. UNCHANGED <<run_queue, run_queue_count, current_thread, run_queue_lock, state,
                    time_slice, processes, dead_processes, fault>>
    BY DEF Spawn, cpu_vars
  <1>6. QueueInv'
    <2>1. Live' = Live
      BY <1>1, <1>2 DEF Live
    <2>2. \A d \in CPU : current_thread'[d] \in Thread => current_thread'[d] \in Range(run_queue[d])
      BY <1>1, <1>5 DEF QueueInv
    <2> QED
      BY <1>1, <1>5, <2>1, <2>2, KeepQueues
  <1>7. ThreadInv'
    <2> SUFFICES ASSUME NEW u \in Thread
                 PROVE  /\ state'[u] = "dying" => pc'[u] = "gone"
                        /\ pc'[u] \in {"choose", "insert", "starting", "exit_other", "exit_other_taken",
                                       "exit_other_cli"} => next_cpu'[u] \in CPU
      BY DEF ThreadInv
    <2>1. CASE u \in {t, new}
      BY <1>1, <1>2, <1>4, <1>5, <2>1 DEF ThreadInv
    <2>2. CASE u \notin {t, new}
      BY <1>1, <1>2, <1>4, <1>5, <2>2 DEF ThreadInv
    <2> QED
      BY <2>1, <2>2
  <1>8. \A u \in Thread, q \in CPU : Holds(u, q)' <=> Holds(u, q)
    BY <1>1, <1>2, <1>4, <1>5, SMT DEF Holds
  <1>9. LockInv'
    BY <1>1, <1>5, <1>8, KeepLocks
  <1>10. Typed'
    BY <1>1, <1>2, <1>4, <1>5 DEF Typed
  <1> QED
    BY <1>6, <1>7, <1>9, <1>10 DEF IInv

-----------------------------------------------------------------------------
(* The initial queues                                                      *)

\* The place in boot order of the thread at index i of queue c.
At(i, c) == (i - 1) * NumCPU + c + 1

\* The length that Init gives queue c when n threads exist is the number of places
\* of the queue among the n.
LEMMA QueueLength ==
  ASSUME NEW n \in Nat, NEW c \in CPU
  PROVE  LET m == Cardinality({k \in 1 .. n : (k - 1) % NumCPU = c})
         IN  m \in Nat /\ \A i \in Nat \ {0} : i <= m <=> At(i, c) <= n
  <1> DEFINE K == {k \in 1 .. n : (k - 1) % NumCPU = c}
             S == {i \in Nat : i * NumCPU + c + 1 > n}
  <1>1. NumCPU \in Nat /\ NumCPU >= 1 /\ c \in Nat /\ c \in 0 .. NumCPU - 1
    BY SchedulerAssumption, SMT DEF CPU
  <1>2. n \in S
    BY <1>1, Multiples, SMT
  <1>3. PICK m \in S : \A i \in S : m <= i
    BY <1>2, LeastNat
  <1>4. ASSUME NEW i \in Nat PROVE i < m <=> i * NumCPU + c + 1 <= n
    <2>1. i * NumCPU \in Nat /\ m * NumCPU \in Nat
      BY <1>3, Multiples, SMT
    <2>2. CASE i < m
      <3>1. ~(m <= i)
        BY <1>3, <2>2, SMT
      <3>2. i \notin S
        BY <1>3, <3>1
      <3> QED
        BY <1>1, <2>1, <2>2, <3>2, SMT
    <2>3. CASE m <= i
      <3>1. m * NumCPU <= i * NumCPU /\ m * NumCPU + c + 1 > n
        BY <1>3, <2>3, Multiples
      <3>2. ~(i < m)
        BY <1>3, <2>3, SMT
      <3> QED
        BY <1>1, <2>1, <3>1, <3>2, SMT
    <2> QED
      BY <1>3, <2>2, <2>3, SMT
  <1>5. ASSUME NEW i \in Nat \ {0}
        PROVE  /\ i <= m <=> At(i, c) <= n
               /\ i - 1 \in Nat /\ (i - 1) * NumCPU \in Nat /\ At(i, c) \in Nat /\ At(i, c) >= 1
               /\ (At(i, c) - 1) % NumCPU = c
    <2> DEFINE j == i - 1
    <2>1. j \in Nat /\ (i <= m <=> j < m)
      BY <1>3, SMT
    <2>2. j * NumCPU \in Nat
      BY <2>1, Multiples, SMT
    <2>3. (j * NumCPU + c) % NumCPU = c
      <3> HIDE DEF j
      <3> QED
        BY <1>1, <2>1, SMT
    <2>4. j < m <=> j * NumCPU + c + 1 <= n
      BY <1>4, <2>1
    <2>5. At(i, c) = j * NumCPU + c + 1
      BY DEF At
    <2> HIDE DEF j
    <2>6. At(i, c) - 1 = j * NumCPU + c
      BY <1>1, <2>2, <2>5, SMT
    <2> QED
      BY <1>1, <2>1, <2>2, <2>3, <2>4, <2>5, <2>6, SMT DEF j
  <1> DEFINE f == [i \in 1 .. m |-> At(i, c)]
  <1>6. \A i \in 1 .. m : i \in Nat \ {0} /\ i <= m
    BY <1>3, SMT
  <1>7. f \in [1 .. m -> K]
    <2>1. ASSUME NEW i \in 1 .. m PROVE At(i, c) \in K
      <3>1. At(i, c) <= n /\ At(i, c) \in Nat /\ At(i, c) >= 1 /\ (At(i, c) - 1) % NumCPU = c
        BY <1>5, <1>6
      <3> QED
        BY <3>1, SMT
    <2> QED
      BY <2>1
  <1>8. IsInjective(f)
    <2>1. ASSUME NEW i \in 1 .. m, NEW k \in 1 .. m, At(i, c) = At(k, c) PROVE i = k
      <3>1. /\ i - 1 \in Nat /\ (i - 1) * NumCPU \in Nat
            /\ k - 1 \in Nat /\ (k - 1) * NumCPU \in Nat
        BY <1>5, <1>6
      <3>2. (i - 1) * NumCPU + c = (k - 1) * NumCPU + c
        BY <1>1, <2>1, <3>1, SMT DEF At
      <3>3. i - 1 = k - 1
        BY <3>1, <3>2, DivisionIsUnique, SMT
      <3> QED
        BY <1>6, <3>3, SMT
    <2> QED
      BY <2>1 DEF IsInjective
  <1>9. \A k \in K : \E i \in 1 .. m : f[i] = k
    <2> SUFFICES ASSUME NEW k \in K PROVE \E i \in 1 .. m : f[i] = k
      OBVIOUS
    <2>1. k - 1 \in Nat /\ (k - 1) % NumCPU = c /\ k <= n /\ k \in Nat
      BY SMT
    <2>2. PICK q \in Nat : k - 1 = q * NumCPU + ((k - 1) % NumCPU)
      BY <2>1, Division
    <2>3. q + 1 \in Nat \ {0} /\ (q + 1) - 1 = q /\ q * NumCPU \in Nat
      BY Multiples, SMT
    <2>4. At(q + 1, c) = k
      <3>1. At(q + 1, c) = q * NumCPU + c + 1
        BY <2>3 DEF At
      <3> QED
        BY <1>1, <2>1, <2>2, <2>3, <3>1, SMT
    <2>5. q + 1 <= m
      BY <1>5, <2>1, <2>3, <2>4
    <2>6. q + 1 \in 1 .. m
      BY <1>3, <2>5, SMT
    <2> QED
      BY <2>4, <2>6
  <1>10. f \in Bijection(1 .. m, K)
    <2> HIDE DEF f, K
    <2> QED
      BY <1>7, <1>8, <1>9 DEF Bijection, Injection, Surjection
  <1>11. Cardinality(K) = m
    <2> HIDE DEF f, K
    <2> QED
      BY <1>3, <1>10, FS_CountingElements DEF ExistsBijection
  <1> QED
    BY <1>3, <1>5, <1>11

\* The threads that exist were inserted each once.
LEMMA BootOrder ==
  ASSUME NEW boot \in Bijection(1..Cardinality(Thread \ Unborn), Thread \ Unborn)
  PROVE  \E n \in Nat :
            /\ boot \in [1 .. n -> Thread \ Unborn]
            /\ \A i, k \in 1 .. n : boot[i] = boot[k] => i = k
            /\ \A t \in Thread \ Unborn : \E k \in 1 .. n : boot[k] = t
  <1> DEFINE S == Thread \ Unborn
             n == Cardinality(S)
  <1>1. IsFiniteSet(S) /\ n \in Nat
    BY SchedulerAssumption, FS_Difference, FS_CardinalityType
  <1>2. boot \in [1 .. n -> S] /\ \A i, k \in 1 .. n : boot[i] = boot[k] => i = k
    BY DEF Bijection, Injection, IsInjective
  <1>3. IsFiniteSet(1 .. n) /\ Cardinality(1 .. n) = n
    BY <1>1, FS_Interval, SMT
  <1>4. boot \in Injection(1 .. n, S)
    BY <1>2 DEF Injection, IsInjective
  <1>5. boot \in Surjection(1 .. n, S)
    <2> HIDE DEF S
    <2> QED
      BY <1>1, <1>3, <1>4, FS_Injection
  <1>6. \A t \in S : \E k \in 1 .. n : boot[k] = t
    BY <1>5 DEF Surjection
  <1> QED
    BY <1>1, <1>2, <1>6

\* The threads that exist are each in one queue; none is current, and nobody has
\* taken a lock.
LEMMA InitIInv == Init => IInv
  <1> SUFFICES ASSUME Init PROVE IInv
    OBVIOUS
  <1>1. PICK boot \in Bijection(1..Cardinality(Thread \ Unborn), Thread \ Unborn) :
          run_queue = [c \in CPU |->
              [i \in 1..Cardinality({k \in DOMAIN boot : (k - 1) % NumCPU = c}) |->
                 boot[(i - 1) * NumCPU + c + 1]]]
    BY DEF Init
  <1>2. PICK n \in Nat :
            /\ boot \in [1 .. n -> Thread \ Unborn]
            /\ \A i, k \in 1 .. n : boot[i] = boot[k] => i = k
            /\ \A t \in Thread \ Unborn : \E k \in 1 .. n : boot[k] = t
    BY BootOrder
  <1> DEFINE m(c) == Cardinality({k \in 1 .. n : (k - 1) % NumCPU = c})
  <1>3. ASSUME NEW c \in CPU
        PROVE  m(c) \in Nat /\ \A i \in Nat \ {0} : i <= m(c) <=> At(i, c) <= n
    BY QueueLength
  <1>4. \A c \in CPU : run_queue[c] = [i \in 1 .. m(c) |-> boot[At(i, c)]]
    BY <1>1, <1>2 DEF At
  <1>5. ASSUME NEW c \in CPU, NEW i \in 1 .. m(c)
        PROVE  /\ i - 1 \in Nat /\ (i - 1) * NumCPU \in Nat
               /\ At(i, c) = (i - 1) * NumCPU + c + 1
               /\ At(i, c) \in 1 .. n
    <2>1. i \in Nat \ {0} /\ i <= m(c) /\ i - 1 \in Nat
      BY <1>3, SMT
    <2>2. At(i, c) <= n
      BY <1>3, <2>1
    <2>3. (i - 1) * NumCPU \in Nat /\ c \in Nat
      BY <2>1, Multiples, SMT DEF CPU
    <2>4. At(i, c) = (i - 1) * NumCPU + c + 1
      BY DEF At
    <2> QED
      BY <2>1, <2>2, <2>3, <2>4, SMT
  <1> HIDE DEF m
  <1>6. ASSUME NEW c \in CPU
        PROVE  /\ run_queue[c] \in Seq(Thread) /\ Len(run_queue[c]) = m(c)
               /\ DOMAIN run_queue[c] = 1 .. m(c)
               /\ \A i \in 1 .. m(c) : run_queue[c][i] = boot[At(i, c)]
    <2>1. \A i \in 1 .. m(c) : boot[At(i, c)] \in Thread
      BY <1>2, <1>5
    <2>2. run_queue[c] = [i \in 1 .. m(c) |-> boot[At(i, c)]]
      BY <1>4
    <2>3. run_queue[c] \in [1 .. m(c) -> Thread]
      BY <2>1, <2>2
    <2>4. m(c) \in Nat
      BY <1>3
    <2>5. run_queue[c] \in Seq(Thread)
      BY <2>3, <2>4, FunctionIsSeq
    <2>6. Len(run_queue[c]) = m(c)
      BY <2>3, <2>4, <2>5, LenFacts, SMT
    <2> QED
      BY <2>2, <2>3, <2>5, <2>6
  <1>7. ASSUME NEW c \in CPU, NEW d \in CPU, NEW i \in 1 .. m(c), NEW k \in 1 .. m(d),
               run_queue[c][i] = run_queue[d][k]
        PROVE  c = d /\ i = k
    <2>1. At(i, c) = At(k, d)
      BY <1>2, <1>5, <1>6, <1>7, SMT
    <2>2. c \in Nat /\ d \in Nat /\ i \in Nat /\ k \in Nat
      BY <1>3, SMT DEF CPU
    <2>3. (i - 1) * NumCPU + c = (k - 1) * NumCPU + d
      <3> DEFINE p == (i - 1) * NumCPU
                 q == (k - 1) * NumCPU
      <3>1. At(i, c) = p + c + 1 /\ p \in Nat /\ At(k, d) = q + d + 1 /\ q \in Nat
        BY <1>5
      <3> HIDE DEF p, q
      <3>2. p + c + 1 = q + d + 1
        BY <2>1, <3>1
      <3>3. p + c = q + d
        BY <2>2, <3>1, <3>2, SMT
      <3> QED
        BY <3>3 DEF p, q
    <2>4. i - 1 = k - 1 /\ c = d
      BY <1>5, <2>3, DivisionIsUnique, SMT
    <2> QED
      BY <2>2, <2>4, SMT
  <1>8. ASSUME NEW t \in Thread \ Unborn
        PROVE  \E c \in CPU : t \in Range(run_queue[c])
    <2>1. PICK k \in 1 .. n : boot[k] = t
      BY <1>2
    <2>2. k \in Nat /\ k - 1 \in Nat /\ k <= n
      BY <1>2, SMT
    <2>3. PICK q \in Nat : /\ k - 1 = q * NumCPU + ((k - 1) % NumCPU)
                           /\ (k - 1) % NumCPU \in CPU
      BY <2>2, Division
    <2> DEFINE c == (k - 1) % NumCPU
    <2>4. c \in CPU /\ c \in Nat /\ k - 1 = q * NumCPU + c
      BY <2>3, SMT DEF CPU
    <2> HIDE DEF c
    <2>5. q + 1 \in Nat \ {0} /\ (q + 1) - 1 = q /\ q * NumCPU \in Nat
      BY Multiples, SMT
    <2>6. At(q + 1, c) = q * NumCPU + c + 1
      BY <2>5 DEF At
    <2>7. At(q + 1, c) = k
      BY <2>2, <2>4, <2>5, <2>6, SMT
    <2>8. q + 1 <= m(c)
      BY <1>3, <2>2, <2>4, <2>5, <2>7
    <2>9. q + 1 \in 1 .. m(c)
      BY <1>3, <2>4, <2>8, SMT
    <2>10. run_queue[c][q + 1] = t
      <3>1. run_queue[c][q + 1] = boot[At(q + 1, c)]
        BY <1>6, <2>4, <2>9
      <3> QED
        BY <2>1, <2>7, <3>1
    <2> QED
      BY <1>6, <2>4, <2>9, <2>10 DEF Range
  <1>9. \A c \in CPU : Range(run_queue[c]) \subseteq Thread \ Unborn
    <2> SUFFICES ASSUME NEW c \in CPU, NEW i \in 1 .. m(c) PROVE run_queue[c][i] \in Thread \ Unborn
      BY <1>6, SMT DEF Range
    <2> QED
      BY <1>2, <1>5, <1>6, SMT
  <1>10. Typed
    <2>1. run_queue \in [CPU -> Seq(Thread)]
      BY <1>1, <1>6
    <2>2. NumCPU \in Nat /\ DefaultSlice \in Nat /\ Unborn \subseteq Thread
      BY SchedulerAssumption
    <2>3. run_queue_count \in [CPU -> Nat]
      BY <1>3, <1>6 DEF Init
    <2>4. /\ run_queue_lock \in [CPU -> {0, 1}]
          /\ current_thread \in [CPU -> Thread \union {Idle, Null}]
      BY DEF Init
    <2>5. /\ state \in [Thread -> {"running", "blocked", "dying"}]
          /\ pc \in [Thread -> PC]
      BY DEF Init, PC
    <2>6. /\ time_slice \in [Thread -> 0..DefaultSlice]
          /\ next_cpu \in [Thread -> 0..NumCPU]
      BY <2>2, SMT DEF Init
    <2>7. /\ processes \subseteq Thread /\ dead_processes \subseteq Thread
          /\ fault \in {"none", "overran", "torn"}
      BY DEF Init
    <2> QED
      BY <2>1, <2>3, <2>4, <2>5, <2>6, <2>7 DEF Typed
  <1>11. QueueInv
    <2>1. \A c \in CPU : Once(run_queue[c]) /\ run_queue_count[c] = Len(run_queue[c])
      <3>1. \A c \in CPU : run_queue_count[c] = Len(run_queue[c])
        BY DEF Init
      <3>2. \A c \in CPU : Once(run_queue[c])
        <4> SUFFICES ASSUME NEW c \in CPU, NEW i \in DOMAIN run_queue[c], NEW k \in DOMAIN run_queue[c],
                            run_queue[c][i] = run_queue[c][k]
                     PROVE  i = k
          BY DEF Once
        <4>1. DOMAIN run_queue[c] = 1 .. m(c)
          BY <1>6
        <4> QED
          BY <1>7, <4>1
      <3> QED
        BY <3>1, <3>2
    <2>2. \A c, d \in CPU : c # d => Range(run_queue[c]) \cap Range(run_queue[d]) = {}
      BY <1>6, <1>7, SMT DEF Range
    <2>3. \A t \in Thread : t \in Live <=> t \notin Unborn
      BY DEF Live, Init
    <2>4. \A t \in Thread : t \in Live <=> \E c \in CPU : t \in Range(run_queue[c])
      BY <1>8, <1>9, <2>3
    <2>5. \A c \in CPU : current_thread[c] \notin Thread
      BY SchedulerAssumption DEF Init
    <2> QED
      BY <2>1, <2>2, <2>4, <2>5 DEF QueueInv
  <1>12. ThreadInv
    BY DEF Init, ThreadInv
  <1>13. LockInv
    BY DEF Init, LockInv, Holds
  <1> QED
    BY <1>10, <1>11, <1>12, <1>13 DEF IInv

-----------------------------------------------------------------------------
(* The theorems                                                            *)

\* Every step of a CPU or a thread keeps the invariant.
LEMMA NextIInv == IInv /\ [Next]_vars => IInv'
  <1> SUFFICES ASSUME IInv, [Next]_vars PROVE IInv'
    OBVIOUS
  <1>1. CASE UNCHANGED vars
    <2>1. CASE fault = "none"
      BY <1>1, <2>1, TypedFacts, StandsStill DEF vars, cpu_vars
    <2>2. CASE fault # "none"
      BY <1>1, <2>2 DEF vars, cpu_vars, IInv, Typed
    <2> QED
      BY <2>1, <2>2
  <1>2. ASSUME NEW c \in CPU, Tick(c) \/ Gc(c) PROVE IInv'
    BY <1>2, TickStep, SmallSteps, SchedulerAssumption
  <1>3. ASSUME NEW c \in CPU, NEW t \in Thread,
               Block(c, t) \/ Yield(c, t) \/ EndProcess(c, t)
        PROVE  IInv'
    BY <1>3, SmallSteps
  <1>4. ASSUME NEW c \in CPU, NEW t \in Thread, ThreadStep(c, t) PROVE IInv'
    BY <1>4, SmallSteps, SpawnPushStep, ExitLockStep, ExitUnlockStep, ExitDieStep DEF ThreadStep
  <1>5. ASSUME NEW c \in CPU, NEW t \in Thread, NEW new \in Unborn, Spawn(c, t, new) PROVE IInv'
    BY <1>5, SpawnStep
  <1>6. ASSUME NEW t \in Thread, Unblock(t) PROVE IInv'
    <2>1. 0 \in CPU
      BY SchedulerAssumption, SMT DEF CPU
    <2> QED
      BY <1>6, <2>1, SmallSteps
  <1> QED
    BY <1>1, <1>2, <1>3, <1>4, <1>5, <1>6 DEF Next

\* The run queues, the current threads and the locks agree in every state before
\* the first fault.
THEOREM IInvHolds == Spec => []IInv
  BY InitIInv, NextIInv, PTL DEF Spec

\* However schedule(), insert_new_thread and end_process of any number of CPUs
\* interleave: short of a fault, every live thread is in exactly one run queue,
\* run_queue_count is the queue's length, the current thread is in the queue of its
\* CPU, and a taken run queue lock has exactly one owner, which is inside
\* end_process.
THEOREM ExactQueues == Spec => []QueuesAreExact
  <1>1. IInv => QueuesAreExact
    <2> SUFFICES ASSUME IInv PROVE QueuesAreExact
      OBVIOUS
    <2>1. Typed
      BY DEF IInv
    <2>2. TypeOK
      BY <2>1, QueueElements DEF TypeOK, Typed
    <2>3. QueuesHoldLiveThreads
      <3> SUFFICES ASSUME fault = "none"
                   PROVE  /\ \A t \in Live : \E c \in CPU : \E i \in DOMAIN run_queue[c] :
                               /\ run_queue[c][i] = t
                               /\ \A d \in CPU : \A k \in DOMAIN run_queue[d] :
                                    run_queue[d][k] = t => d = c /\ k = i
                          /\ \A c \in CPU : /\ Range(run_queue[c]) \subseteq Live
                                            /\ run_queue_count[c] = Len(run_queue[c])
        BY DEF QueuesHoldLiveThreads
      <3>1. QueueInv
        BY DEF IInv
      <3>2. ASSUME NEW t \in Live
            PROVE  \E c \in CPU : \E i \in DOMAIN run_queue[c] :
                               /\ run_queue[c][i] = t
                               /\ \A d \in CPU : \A k \in DOMAIN run_queue[d] :
                                    run_queue[d][k] = t => d = c /\ k = i
        <4>1. PICK c \in CPU : t \in Range(run_queue[c])
          BY <3>1 DEF QueueInv, Live
        <4>2. PICK i \in DOMAIN run_queue[c] : run_queue[c][i] = t
          BY <4>1 DEF Range
        <4>3. ASSUME NEW d \in CPU, NEW k \in DOMAIN run_queue[d], run_queue[d][k] = t
              PROVE  d = c /\ k = i
          <5>1. t \in Range(run_queue[d])
            BY <4>3 DEF Range
          <5>2. d = c
            BY <3>1, <4>1, <5>1 DEF QueueInv
          <5> QED
            BY <3>1, <4>2, <4>3, <5>2 DEF QueueInv, Once
        <4> QED
          BY <4>2, <4>3, SMT
      <3>3. \A c \in CPU : Range(run_queue[c]) \subseteq Live
        BY <2>1, <3>1, QueueElements DEF QueueInv
      <3>4. \A c \in CPU : run_queue_count[c] = Len(run_queue[c])
        BY <3>1 DEF QueueInv
      <3> QED
        BY <3>2, <3>3, <3>4
    <2>4. CurrentIsQueued
      BY DEF IInv, QueueInv, CurrentIsQueued
    <2>5. LocksHaveOneOwner
      <3> SUFFICES ASSUME fault = "none", NEW q \in CPU
                   PROVE  run_queue_lock[q] = Cardinality({t \in Thread : Holds(t, q)})
        BY DEF LocksHaveOneOwner
      <3> DEFINE H == {t \in Thread : Holds(t, q)}
      <3>1. \/ run_queue_lock[q] = 0 /\ H = {}
            \/ run_queue_lock[q] = 1 /\ \E t : H = {t}
        <4>1. \/ run_queue_lock[q] = 0 /\ \A t \in Thread : ~Holds(t, q)
              \/ /\ run_queue_lock[q] = 1
                 /\ \E t \in Thread : Holds(t, q) /\ \A u \in Thread : Holds(u, q) => u = t
          BY DEF IInv, LockInv
        <4>2. ASSUME NEW t \in Thread, Holds(t, q), \A u \in Thread : Holds(u, q) => u = t
              PROVE  H = {t}
          BY <4>2
        <4> QED
          BY <4>1, <4>2
      <3> HIDE DEF H
      <3> QED
        BY <3>1, FS_EmptySet, FS_Singleton DEF H
    <2> QED
      BY <2>2, <2>3, <2>4, <2>5 DEF QueuesAreExact
  <1> QED
    BY <1>1, IInvHolds, PTL
=============================================================================
