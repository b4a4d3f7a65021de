----------------------------- MODULE DiskProofs -----------------------------
(***************************************************************************)
(* For any number of threads, DMA buffers and command slots, and any sizes *)
(* of block, buffer and cache: the buffer semaphore counts exactly, a      *)
(* buffer has one owner, the block cache's map and list agree and point to *)
(* memory that is allocated, and a request that met no error and shared    *)
(* the command table with no other reads the sectors it asked for.         *)
(* First the inductive invariant and the steps that change the memory and  *)
(* the block cache: read_block, find_cmdslot, lru_cache::set, memcpy and   *)
(* the return; then the buffers, the device and the theorems.              *)
(***************************************************************************)
EXTENDS Disk, TLAPS

\* A leaf is proved by Zenon, unless it cites another prover.
USE Zenon

Contents == Seq(Nat \union {Junk})
OpType == [block : Nat, cached : BOOLEAN, lba : Nat, left : Nat, slot : Nat, idx : Nat,
           ptr : Nat, dst : Contents, hurt : BOOLEAN, freed : BOOLEAN]
PCs == {"idle", "slot", "sem", "blocked", "scan", "read", "wait", "release", "signal", "set",
        "memcpy", "done"}

Types ==
    /\ pc \in [Threads -> PCs] /\ op \in [Threads -> OpType]
    /\ Buffers \in Nat /\ DOMAIN bufLock = 0 .. Buffers - 1
    /\ bufLock \in [DOMAIN bufLock -> Threads \union {NoThread, Junk}]
    /\ dma \in [DOMAIN bufLock -> Contents]
    /\ val \in Int /\ lost \in Nat
    /\ table \in [buf : Nat, lba : Nat, n : Nat] /\ issued \subseteq Nat /\ tfes \in BOOLEAN
    /\ Allocated \subseteq Nat \ {0}
    /\ mem \in [Allocated -> [data : Contents, hurt : BOOLEAN]]
    /\ DOMAIN map \subseteq Nat /\ map \in [DOMAIN map -> Nat]
    /\ list \in Seq([block : Nat, ptr : Nat])

\* The semaphore and the locks of the buffers, with the range of an index.
SemInv ==
    /\ SemaphoreExact
    /\ \A t \in Threads : /\ pc[t] \in {"read", "wait", "release"} => op[t].idx \in DOMAIN bufLock
                          /\ pc[t] = "scan" => op[t].idx <= Buffers

\* A request that still has its block of memory to itself: nobody else knows it.
Pending(t) == op[t].cached /\ pc[t] \in PCs \ {"idle", "memcpy", "done"}
PtrInv ==
    /\ \A t \in Threads :
          Pending(t) =>
              /\ op[t].ptr \in Allocated
              /\ \A u \in Threads \ {t} : Pending(u) => op[u].ptr # op[t].ptr
              /\ \A b \in DOMAIN map : map[b] # op[t].ptr
              /\ \A i \in DOMAIN list : list[i].ptr # op[t].ptr
    /\ \A t \in Threads : /\ pc[t] \in PCs \ {"idle", "memcpy", "done"} /\ ~op[t].cached => op[t].ptr = 0
                          /\ pc[t] = "set" => op[t].cached

\* The map and the list of the cache: keys and values of the list are distinct, and
\* a value of the list is in the map under its own key or not at all.
CacheInv ==
    /\ DOMAIN map = {list[i].block : i \in DOMAIN list} /\ Len(list) <= Capacity
    /\ \A i, k \in DOMAIN list :
          list[i].block = list[k].block \/ list[i].ptr = list[k].ptr => i = k
    /\ \A b \in DOMAIN map : map[b] \in Allocated
    /\ \A i \in DOMAIN list : list[i].ptr \in Allocated
    /\ \A b \in DOMAIN map, i \in DOMAIN list : map[b] = list[i].ptr => b = list[i].block

\* The sectors a request has read so far, and where it goes on.
First(o) == Start + o.block * SectorsPerBlock
Partial(o) ==
    /\ o.left \in 1 .. SectorsPerBlock
    /\ o.lba = First(o) + (SectorsPerBlock - o.left)
    /\ o.dst = Sectors(First(o), SectorsPerBlock - o.left)

\* A block of memory holds what a reader of block b may see.
Holds(p, b) ==
    p \in Allocated /\ (~mem[p].hurt => mem[p].data = Sectors(Start + b * SectorsPerBlock, SectorsPerBlock))

\* What a request that is not hurt has read.
Own(where, o) ==
    /\ where \in {"slot", "sem", "blocked", "scan", "read", "wait"} => Partial(o)
    /\ where \in {"release", "signal", "set", "done"} => o.dst = Expected(o)
OwnInv == \A t \in Threads : Sound(op[t]) => Own(pc[t], op[t])

\* What the cache and the requests that found something in it refer to.
Found(t) ==
    /\ Holds(op[t].ptr, op[t].block)
    /\ \A u \in Threads : Pending(u) => op[u].ptr # op[t].ptr
CopyInv ==
    /\ \A b \in DOMAIN map : Holds(map[b], b)
    /\ \A t \in Threads : Sound(op[t]) /\ pc[t] = "memcpy" => Found(t)

\* A request that waits for its command and is not hurt waits alone: the table is
\* its own, and so is what the controller has done.
Alone(t) ==
    /\ \A u \in Threads \ {t} : pc[u] # "wait"
    /\ table = [buf |-> op[t].idx, lba |-> op[t].lba, n |-> ToRead(op[t])]
    /\ op[t].slot \notin issued /\ ~tfes => dma[op[t].idx] = Sectors(op[t].lba, ToRead(op[t]))
WaitInv ==
    /\ issued \subseteq {op[t].slot : t \in {u \in Threads : pc[u] = "wait"}}
    /\ \A t \in Threads : Sound(op[t]) /\ pc[t] = "wait" => Alone(t)

IInv == Types /\ SemInv /\ PtrInv /\ CacheInv /\ OwnInv /\ CopyInv /\ WaitInv

\* The inductive invariant: malloc always finds more memory, for what is allocated
\* is finite.
FullInv == IInv /\ IsFiniteSet(Allocated)

-----------------------------------------------------------------------------
(* Operators                                                               *)

\* A sequence and its length.
LEMMA LenFacts ==
  ASSUME NEW S, NEW s \in Seq(S)
  PROVE  Len(s) \in Nat /\ DOMAIN s = 1 .. Len(s) /\ \A i \in 1 .. Len(s) : s[i] \in S
  BY SMT

\* The sequence without entries.
LEMMA EmptyFacts ==
  ASSUME NEW S
  PROVE  <<>> \in Seq(S) /\ Len(<<>>) = 0 /\ \A s \in Seq(S) : Len(s) = 0 => s = <<>>
  BY SMT

\* A function from 1 .. n is a sequence of length n.
LEMMA FunctionIsSeq ==
  ASSUME NEW S, NEW n \in Nat, NEW f \in [1 .. n -> S]
  PROVE  f \in Seq(S) /\ Len(f) = n
  BY SMT

\* Two sequences, one behind the other.
LEMMA ConcatFacts ==
  ASSUME NEW S, NEW s \in Seq(S), NEW t \in Seq(S)
  PROVE  /\ s \o t \in Seq(S) /\ Len(s \o t) = Len(s) + Len(t)
         /\ \A i \in 1 .. Len(s) + Len(t) : (s \o t)[i] = IF i <= Len(s) THEN s[i] ELSE t[i - Len(s)]
  <1>1. s \o t \in Seq(S) /\ Len(s \o t) = Len(s) + Len(t)
    BY SMT
  <1>2. \A i \in 1 .. Len(s) + Len(t) : (s \o t)[i] = IF i <= Len(s) THEN s[i] ELSE t[i - Len(s)]
    BY SMT
  <1> QED
    BY <1>1, <1>2

\* The first n entries of a sequence.
LEMMA PrefixFacts ==
  ASSUME NEW S, NEW s \in Seq(S), NEW n \in 0 .. Len(s)
  PROVE  /\ SubSeq(s, 1, n) \in Seq(S) /\ Len(SubSeq(s, 1, n)) = n
         /\ \A i \in 1 .. n : SubSeq(s, 1, n)[i] = s[i]
  <1>1. SubSeq(s, 1, n) \in Seq(S) /\ Len(SubSeq(s, 1, n)) = n
    BY SMT
  <1>2. \A i \in 1 .. n : SubSeq(s, 1, n)[i] = s[i]
    BY SMT
  <1> QED
    BY <1>1, <1>2

\* What the assumption says of the constants, one by one.
LEMMA ConstantFacts ==
  /\ {Slots, MaxSectors, SectorsPerBlock, SectorBytes, Capacity} \subseteq Nat \ {0}
  /\ MaxSectors \in Nat /\ MaxSectors > 0 /\ SectorsPerBlock \in Nat /\ SectorsPerBlock > 0
  /\ Capacity \in Nat /\ Capacity > 0
  /\ Start \in Nat /\ NoThread \notin Threads /\ Junk \notin Threads
  BY DiskAssumption, SMT

\* The contents of n sectors, and of the k behind them.
LEMMA SectorsFacts ==
  ASSUME NEW a \in Nat, NEW n \in Nat
  PROVE  /\ Sectors(a, n) \in Contents /\ Len(Sectors(a, n)) = n
         /\ DOMAIN Sectors(a, n) = 1 .. n
         /\ \A i \in 1 .. n : Sectors(a, n)[i] = a + i - 1
  <1>1. Sectors(a, n) \in [1 .. n -> Nat \union {Junk}]
    BY SMT DEF Sectors
  <1>2. Sectors(a, n) \in Contents
    BY <1>1, FunctionIsSeq DEF Contents
  <1>3. Len(Sectors(a, n)) = n
    BY <1>1, <1>2, LenFacts, SMT DEF Contents
  <1> QED
    BY <1>1, <1>2, <1>3 DEF Sectors

\* The memory nothing was read into has the type of contents.
LEMMA NoDataFacts == NoData \in Contents
  <1>1. NoData \in [1 .. SectorsPerBlock -> Nat \union {Junk}]
    BY DEF NoData
  <1> QED
    BY <1>1, ConstantFacts, FunctionIsSeq DEF Contents

\* A request that met an error keeps its place and its memory.
LEMMA FailedFacts ==
  ASSUME NEW o \in OpType
  PROVE  /\ Failed(o) \in OpType /\ ~Sound(Failed(o)) /\ Failed(o).block = o.block
         /\ Failed(o).cached = o.cached /\ Failed(o).ptr = o.ptr /\ Failed(o).idx = o.idx
         /\ Failed(o).slot = o.slot
  BY NoDataFacts DEF Failed, OpType, Sound

\* What a thread has between two requests.
LEMMA IdleFacts == Idle \in OpType /\ ~Idle.cached
  BY EmptyFacts DEF Idle, OpType, Contents

-----------------------------------------------------------------------------
(* What a step of a thread leaves alone                                    *)

\* Thread t goes on; another thread's request is at most marked as hurt.
Moved(t) ==
    /\ pc' \in [Threads -> PCs] /\ op' \in [Threads -> OpType]
    /\ \A u \in Threads \ {t} :
          pc'[u] = pc[u] /\ (op'[u] = op[u] \/ op'[u] = [op[u] EXCEPT !.hurt = TRUE] \/ op'[u] = [op[u] EXCEPT !.freed = TRUE])

\* A thread that goes on with a new request is the only one to change.
LEMMA MoveTo ==
  ASSUME Types, NEW t \in Threads, NEW where \in PCs, NEW o \in OpType, GotoWith(t, where, o)
  PROVE  Moved(t) /\ pc'[t] = where /\ op'[t] = o
  BY DEF Types, GotoWith, Moved

\* The same for one that goes on with the request it has.
LEMMA MoveOn ==
  ASSUME Types, NEW t \in Threads, NEW where \in PCs, Goto(t, where)
  PROVE  Moved(t) /\ pc'[t] = where /\ op'[t] = op[t] /\ op[t] \in OpType
  BY DEF Types, Goto, Moved

\* Another thread's request keeps all but its mark, and one that is not marked was
\* not touched.
LEMMA MarkedFacts ==
  ASSUME Types, NEW t \in Threads, Moved(t), NEW u \in Threads \ {t}
  PROVE  /\ pc'[u] = pc[u] /\ op[u] \in OpType /\ op'[u] \in OpType
         /\ op'[u].cached = op[u].cached /\ op'[u].ptr = op[u].ptr /\ op'[u].idx = op[u].idx
         /\ op'[u].slot = op[u].slot /\ op'[u].block = op[u].block
         /\ Sound(op'[u]) => op'[u] = op[u] /\ Sound(op[u])
  <1>1. op[u] \in OpType /\ op'[u] \in OpType /\ pc'[u] = pc[u]
    BY DEF Types, Moved
  <1>2. op'[u] = op[u] \/ op'[u] = [op[u] EXCEPT !.hurt = TRUE] \/ op'[u] = [op[u] EXCEPT !.freed = TRUE]
    BY DEF Moved
  <1> QED
    BY <1>1, <1>2, SMT DEF OpType, Sound

\* A step that leaves the controller and the cache alone keeps the types.
LEMMA TypesKeep ==
  ASSUME Types, NEW t \in Threads, Moved(t), val' \in Int, lost' \in Nat,
         bufLock' \in [DOMAIN bufLock -> Threads \union {NoThread, Junk}],
         UNCHANGED <<dma, table, issued, tfes, mem, map, list>>
  PROVE  Types' /\ Buffers' = Buffers
  <1>1. DOMAIN bufLock' = DOMAIN bufLock
    OBVIOUS
  <1>2. Buffers' = Buffers
    BY <1>1 DEF Buffers
  <1> QED
    BY <1>1, <1>2 DEF Types, Moved, Allocated

Owner == {"read", "wait", "release"}
Owners ==
    /\ \A t \in Threads : /\ pc[t] \in Owner => op[t].idx \in DOMAIN bufLock /\ bufLock[op[t].idx] = t
                          /\ pc[t] = "scan" => op[t].idx <= Buffers
    /\ \A b \in 0 .. Buffers - 1 :
          bufLock[b] \in Threads => pc[bufLock[b]] \in Owner /\ op[bufLock[b]].idx = b
Inside == {t \in Threads : pc[t] \in Counted}

Units == val = Buffers - Cardinality(Inside) - lost

\* The semaphore's invariant is one about owners and one about units.
LEMMA SemParts == (SemInv <=> Owners /\ Units) /\ (SemInv' <=> Owners' /\ Units')
  BY DEF SemInv, SemaphoreExact, Owners, Units, Owner, Inside

\* A step that does not touch the locks of the buffers.
LEMMA OwnersKeep ==
  ASSUME Types, Owners, NEW t \in Threads, Moved(t), UNCHANGED bufLock,
         pc'[t] \in Owner <=> pc[t] \in Owner,
         pc[t] \in Owner => op'[t].idx = op[t].idx,
         pc'[t] = "scan" => op'[t].idx <= Buffers
  PROVE  Owners'
  <1>1. \A u \in Threads \ {t} : pc'[u] = pc[u] /\ op'[u].idx = op[u].idx
    BY MarkedFacts
  <1>2. Buffers' = Buffers
    BY DEF Buffers
  <1>3. \A u \in Threads : /\ pc'[u] \in Owner <=> pc[u] \in Owner
                           /\ pc'[u] \in Owner => op'[u].idx = op[u].idx
    BY <1>1
  <1>4. \A u \in Threads : pc'[u] = "scan" => op'[u].idx <= Buffers
    BY <1>1 DEF Owners
  <1> QED
    BY <1>2, <1>3, <1>4 DEF Owners

\* A thread that stays inside, or outside, changes nobody's place.
LEMMA InsideKeep ==
  ASSUME Types, NEW t \in Threads, Moved(t), pc'[t] \in Counted <=> pc[t] \in Counted
  PROVE  Inside' = Inside
  BY MarkedFacts DEF Inside

\* A step that does not touch the semaphore and the locks of the buffers.
LEMMA SemKeep ==
  ASSUME Types, SemInv, NEW t \in Threads, Moved(t), UNCHANGED <<bufLock, val, lost>>,
         pc'[t] \in Counted <=> pc[t] \in Counted,
         pc'[t] \in Owner <=> pc[t] \in Owner,
         pc[t] \in Owner => op'[t].idx = op[t].idx,
         pc'[t] = "scan" => op'[t].idx <= Buffers
  PROVE  SemInv'
  <1>1. Inside' = Inside /\ Buffers' = Buffers
    BY InsideKeep DEF Buffers
  <1>2. Owners /\ Units
    BY SemParts
  <1>3. Owners'
    BY <1>2, OwnersKeep
  <1>4. Units'
    BY <1>1, <1>2 DEF Units
  <1> QED
    BY <1>3, <1>4, SemParts

Busy == PCs \ {"idle", "memcpy", "done"}

\* A step that neither allocates nor frees a block of memory, nor gives it to the
\* cache.
LEMMA PtrKeep ==
  ASSUME Types, PtrInv, CacheInv, NEW t \in Threads, Moved(t), Allocated' = Allocated,
         UNCHANGED <<map, list>>,
         pc'[t] \in Busy => pc[t] \in Busy /\ op'[t].cached = op[t].cached /\ op'[t].ptr = op[t].ptr,
         pc'[t] = "set" => op[t].cached
  PROVE  PtrInv' /\ CacheInv'
  <1>1. \A u \in Threads : pc'[u] \in Busy => /\ pc[u] \in Busy
                                              /\ op'[u].cached = op[u].cached /\ op'[u].ptr = op[u].ptr
    BY MarkedFacts, SMT
  <1>2. \A u \in Threads : Pending(u)' => Pending(u) /\ op'[u].ptr = op[u].ptr
    BY <1>1 DEF Pending, Busy
  <1>3. \A u \in Threads : /\ pc'[u] \in Busy /\ ~op'[u].cached => op'[u].ptr = 0
                           /\ pc'[u] = "set" => op'[u].cached
    <2>1. \A u \in Threads : pc'[u] = "set" => pc'[u] \in Busy /\ op[u].cached
      BY MarkedFacts, SMT DEF PtrInv, Busy, PCs
    <2> QED
      BY <1>1, <2>1 DEF PtrInv, Busy
  <1>4. PtrInv'
    BY <1>2, <1>3, SMT DEF PtrInv, Busy
  <1>5. CacheInv'
    BY SMT DEF CacheInv
  <1> QED
    BY <1>4, <1>5

\* What the other threads have read is theirs.
LEMMA OwnKeep ==
  ASSUME Types, OwnInv, NEW t \in Threads, Moved(t), Sound(op'[t]) => Own(pc'[t], op'[t])
  PROVE  OwnInv'
  <1> SUFFICES ASSUME NEW u \in Threads, Sound(op'[u]) PROVE Own(pc'[u], op'[u])
    BY DEF OwnInv
  <1>1. CASE u = t
    BY <1>1
  <1>2. CASE u # t
    <2>1. pc'[u] = pc[u] /\ op'[u] = op[u] /\ Sound(op[u])
      BY <1>2, MarkedFacts
    <2> QED
      BY <2>1 DEF OwnInv
  <1> QED
    BY <1>1, <1>2

\* A step that leaves the cache and its memory alone, of a thread that is not about
\* to copy from it.
LEMMA CopyKeep ==
  ASSUME Types, CopyInv, NEW t \in Threads, Moved(t), UNCHANGED <<mem, map>>,
         pc'[t] \in Busy => pc[t] \in Busy /\ op'[t].cached = op[t].cached /\ op'[t].ptr = op[t].ptr,
         pc'[t] # "memcpy"
  PROVE  CopyInv'
  <1>1. \A p, b : Holds(p, b)' <=> Holds(p, b)
    BY DEF Holds, Allocated
  <1>2. \A u \in Threads : Pending(u)' => Pending(u) /\ op'[u].ptr = op[u].ptr
    BY MarkedFacts, SMT DEF Pending, Busy
  <1>3. ASSUME NEW u \in Threads, Sound(op'[u]), pc'[u] = "memcpy" PROVE Found(u)'
    <2>1. pc[u] = "memcpy" /\ op'[u] = op[u] /\ Sound(op[u])
      BY <1>3, MarkedFacts
    <2>2. Found(u)
      BY <2>1 DEF CopyInv
    <2> QED
      BY <1>1, <1>2, <2>1, <2>2 DEF Found
  <1>4. \A b \in DOMAIN map' : Holds(map[b], b)'
    BY <1>1 DEF CopyInv
  <1> QED
    BY <1>3, <1>4 DEF CopyInv

\* A step that leaves the controller alone, of a thread whose command is over.
LEMMA WaitKeep ==
  ASSUME Types, WaitInv, NEW t \in Threads, Moved(t), UNCHANGED <<table, issued, tfes, dma>>,
         pc'[t] # "wait", pc[t] = "wait" => op[t].slot \notin issued
  PROVE  WaitInv'
  <1>1. \A u \in Threads \ {t} : pc'[u] = pc[u] /\ op'[u].slot = op[u].slot
    BY MarkedFacts
  <1>2. issued' \subseteq {op'[u].slot : u \in {v \in Threads : pc'[v] = "wait"}}
    <2> SUFFICES ASSUME NEW x \in issued PROVE \E u \in Threads : pc'[u] = "wait" /\ x = op'[u].slot
      OBVIOUS
    <2>1. PICK u \in Threads : pc[u] = "wait" /\ x = op[u].slot
      BY DEF WaitInv
    <2>2. u # t
      BY <2>1
    <2> QED
      BY <1>1, <2>1, <2>2
  <1>3. ASSUME NEW u \in Threads, Sound(op'[u]), pc'[u] = "wait" PROVE Alone(u)'
    <2>1. u # t /\ pc[u] = "wait" /\ op'[u] = op[u] /\ Sound(op[u])
      BY <1>3, MarkedFacts
    <2>2. Alone(u)
      BY <2>1 DEF WaitInv
    <2>3. ToRead(op'[u]) = ToRead(op[u])
      BY <2>1
    <2> QED
      BY <1>1, <2>1, <2>2, <2>3 DEF Alone
  <1> QED
    BY <1>2, <1>3 DEF WaitInv

\* A step inside the driver: the command table, the buffers' contents and the
\* cache are left alone.
LEMMA Through ==
  ASSUME IInv, NEW t \in Threads, Moved(t), val' \in Int, lost' \in Nat, SemInv',
         bufLock' \in [DOMAIN bufLock -> Threads \union {NoThread, Junk}],
         UNCHANGED <<dma, table, issued, tfes, mem, map, list>>,
         pc'[t] \in Busy => pc[t] \in Busy /\ op'[t].cached = op[t].cached /\ op'[t].ptr = op[t].ptr,
         pc'[t] = "set" => op[t].cached,
         pc'[t] \notin {"memcpy", "wait"},
         pc[t] = "wait" => op[t].slot \notin issued,
         Sound(op'[t]) => Own(pc'[t], op'[t])
  PROVE  IInv'
  <1>1. Types'
    BY TypesKeep DEF IInv
  <1>2. PtrInv' /\ CacheInv'
    <2>1. Allocated' = Allocated
      BY DEF Allocated
    <2> QED
      BY <2>1, PtrKeep DEF IInv
  <1>3. OwnInv'
    BY OwnKeep DEF IInv
  <1>4. CopyInv'
    BY CopyKeep DEF IInv
  <1>5. WaitInv'
    BY WaitKeep DEF IInv
  <1> QED
    BY <1>1, <1>2, <1>3, <1>4, <1>5 DEF IInv

\* What the types say of one thread and the pool.
LEMMA TypesFacts ==
  ASSUME Types, NEW t \in Threads
  PROVE  /\ op[t] \in OpType /\ pc[t] \in PCs /\ val \in Int /\ lost \in Nat /\ Buffers \in Nat
         /\ DOMAIN bufLock = 0 .. Buffers - 1
         /\ bufLock \in [DOMAIN bufLock -> Threads \union {NoThread, Junk}]
  BY DEF Types

-----------------------------------------------------------------------------
(* The steps                                                               *)

\* read_block returns.
LEMMA ReturnStep ==
  ASSUME IInv, NEW t \in Threads, Return(t)
  PROVE  IInv'
  <1>1. pc[t] = "done" /\ GotoWith(t, "idle", Idle)
        /\ UNCHANGED <<val, lost, bufLock, dma, table, issued, tfes, mem, map, list>>
    BY DEF Return, semaphore, port, cache
  <1>2. Moved(t) /\ pc'[t] = "idle"
    BY <1>1, IdleFacts, MoveTo DEF IInv, PCs
  <1>3. SemInv'
    BY <1>1, <1>2, SemKeep DEF IInv, Counted, Owner
  <1>4. Own(pc'[t], op'[t])
    BY <1>2 DEF Own
  <1> QED
    BY <1>1, <1>2, <1>3, <1>4, TypesFacts, Through DEF IInv, Busy

\* The copy out of the cache gives what the memory holds.
LEMMA MemcpyStep ==
  ASSUME IInv, NEW t \in Threads, Memcpy(t)
  PROVE  IInv'
  <1> DEFINE p == op[t].ptr
             o == IF p \in Allocated
                  THEN [op[t] EXCEPT !.dst = mem[p].data, !.hurt = @ \/ mem[p].hurt]
                  ELSE [op[t] EXCEPT !.dst = NoData, !.freed = TRUE]
  <1>1. pc[t] = "memcpy" /\ GotoWith(t, "done", o)
        /\ UNCHANGED <<val, lost, bufLock, dma, table, issued, tfes, mem, map, list>>
    BY DEF Memcpy, Finish, GotoWith, semaphore, port, cache
  <1>2. op[t] \in OpType
    BY TypesFacts DEF IInv
  <1>3. p \in Allocated => mem[p].data \in Contents /\ mem[p].hurt \in BOOLEAN
    BY DEF IInv, Types
  <1>4. o \in OpType
    BY <1>2, <1>3, NoDataFacts DEF OpType
  <1>5. ASSUME Sound(o) PROVE o.dst = Expected(o)
    <2>1. p \in Allocated /\ Sound(op[t]) /\ ~mem[p].hurt /\ o.dst = mem[p].data /\ o.block = op[t].block
      BY <1>2, <1>3, <1>5 DEF OpType, Sound
    <2>2. Found(t)
      BY <1>1, <2>1 DEF IInv, CopyInv
    <2> QED
      BY <2>1, <2>2 DEF Found, Holds, Expected
  <1> HIDE DEF o
  <1>6. Moved(t) /\ pc'[t] = "done" /\ op'[t] = o
    BY <1>1, <1>4, MoveTo DEF IInv, PCs
  <1>7. SemInv'
    BY <1>1, <1>6, SemKeep DEF IInv, Counted, Owner
  <1>8. Sound(op'[t]) => Own(pc'[t], op'[t])
    BY <1>5, <1>6 DEF Own
  <1> QED
    BY <1>1, <1>6, <1>7, <1>8, TypesFacts, Through DEF IInv, Busy

\* A request marked as hurt, if c holds.
LEMMA Marks ==
  ASSUME NEW o \in OpType, NEW c \in BOOLEAN
  PROVE  LET m == [o EXCEPT !.hurt = @ \/ c]
         IN  /\ m \in OpType /\ (m = o \/ m = [o EXCEPT !.hurt = TRUE])
             /\ c => ~Sound(m)
             /\ ~c => m = o
             /\ Sound(m) => m = o /\ Sound(o)
             /\ m.block = o.block /\ m.cached = o.cached /\ m.ptr = o.ptr
             /\ m.idx = o.idx /\ m.slot = o.slot
  <1>1. CASE c
    BY <1>1 DEF OpType, Sound
  <1>2. CASE ~c
    <2>1. [o EXCEPT !.hurt = @ \/ c] = o
      BY <1>2 DEF OpType
    <2> QED
      BY <1>2, <2>1
  <1> QED
    BY <1>1, <1>2

\* A request whose block was freed, if c holds.
LEMMA FreedMarks ==
  ASSUME NEW o \in OpType, NEW c \in BOOLEAN
  PROVE  LET m == [o EXCEPT !.freed = @ \/ c]
         IN  /\ m \in OpType /\ (m = o \/ m = [o EXCEPT !.freed = TRUE])
             /\ c => ~Sound(m)
             /\ ~c => m = o
  <1>1. CASE c
    BY <1>1 DEF OpType, Sound
  <1>2. CASE ~c
    <2>1. [o EXCEPT !.freed = @ \/ c] = o
      BY <1>2 DEF OpType
    <2> QED
      BY <1>2, <2>1
  <1> QED
    BY <1>1, <1>2

\* The block of memory a request has is nobody else's.
LEMMA PtrFacts ==
  ASSUME IInv, NEW t \in Threads, pc[t] \in Busy
  PROVE  /\ op[t].cached => op[t].ptr \in Allocated
         /\ ~op[t].cached => op[t].ptr = 0
         /\ 0 \notin Allocated
         /\ \A u \in Threads \ {t} : Pending(u) => op[u].ptr # op[t].ptr /\ op[u].ptr \in Allocated
         /\ \A b \in DOMAIN map : map[b] # op[t].ptr /\ map[b] \in Allocated
         /\ \A i \in DOMAIN list : list[i].ptr # op[t].ptr /\ list[i].ptr \in Allocated
  <1>1. 0 \notin Allocated
    BY DEF IInv, Types
  <1>2. /\ \A u \in Threads : Pending(u) => op[u].ptr \in Allocated
        /\ \A b \in DOMAIN map : map[b] \in Allocated
        /\ \A i \in DOMAIN list : list[i].ptr \in Allocated
    BY DEF IInv, PtrInv, CacheInv
  <1>3. CASE op[t].cached
    <2>1. Pending(t)
      BY <1>3 DEF Pending, Busy
    <2> QED
      BY <1>1, <1>2, <1>3, <2>1 DEF IInv, PtrInv
  <1>4. CASE ~op[t].cached
    <2>1. op[t].ptr = 0
      BY <1>4 DEF IInv, PtrInv, Busy
    <2> QED
      BY <1>1, <1>2, <1>4, <2>1
  <1> QED
    BY <1>3, <1>4, TypesFacts DEF IInv, OpType

\* What find_cmdslot does to the requests: it clears every pending error, and so
\* a request that waits for a command that failed is hurt.
LEMMA FindCmdSlotFacts ==
  ASSUME IInv, NEW t \in Threads, FindCmdSlot(t), IdleSlots # {} => Min(IdleSlots) \in Nat
  PROVE  /\ Moved(t) /\ pc[t] = "slot" /\ tfes' = FALSE
         /\ UNCHANGED <<val, lost, bufLock, dma, table, issued, map, list>>
         /\ \A u \in Threads : Sound(op'[u]) /\ pc'[u] = "wait" => ~tfes
         /\ \/ /\ pc'[t] = "done" /\ ~Sound(op'[t])
               /\ mem' = [p \in Allocated \ {op[t].ptr} |-> mem[p]]
            \/ /\ pc'[t] = "sem" /\ mem' = mem /\ Sound(op'[t]) = Sound(op[t])
               /\ op'[t].cached = op[t].cached /\ op'[t].ptr = op[t].ptr /\ op'[t].left = op[t].left
               /\ op'[t].lba = op[t].lba /\ op'[t].block = op[t].block /\ op'[t].dst = op[t].dst
  <1> DEFINE c(u) == tfes /\ pc[u] = "wait"
             m(u) == [op[u] EXCEPT !.hurt = @ \/ c(u)]
             marked == [u \in Threads |-> m(u)]
  <1>1. /\ pc[t] = "slot" /\ tfes' = FALSE
        /\ UNCHANGED <<val, lost, bufLock, dma, table, issued, map, list>>
    BY DEF FindCmdSlot, semaphore
  <1>2. \/ /\ pc' = [pc EXCEPT ![t] = "done"] /\ op' = [marked EXCEPT ![t] = Failed(@)]
           /\ mem' = [p \in Allocated \ {op[t].ptr} |-> mem[p]]
        \/ /\ pc' = [pc EXCEPT ![t] = "sem"] /\ IdleSlots # {} /\ mem' = mem
           /\ op' = [marked EXCEPT ![t] = [@ EXCEPT !.slot = Min(IdleSlots)]]
    BY DEF FindCmdSlot
  <1>3. \A u \in Threads : op[u] \in OpType /\ c(u) \in BOOLEAN
    BY DEF IInv, Types
  <1>4. \A u \in Threads :
           /\ m(u) \in OpType /\ (m(u) = op[u] \/ m(u) = [op[u] EXCEPT !.hurt = TRUE])
           /\ c(u) => ~Sound(m(u))
           /\ ~c(u) => m(u) = op[u]
    <2> SUFFICES ASSUME NEW u \in Threads
                 PROVE  /\ m(u) \in OpType /\ (m(u) = op[u] \/ m(u) = [op[u] EXCEPT !.hurt = TRUE])
                        /\ c(u) => ~Sound(m(u))
                        /\ ~c(u) => m(u) = op[u]
      OBVIOUS
    <2>1. op[u] \in OpType /\ c(u) \in BOOLEAN
      BY <1>3
    <2> HIDE DEF c
    <2> QED
      BY <2>1, Marks
  <1> HIDE DEF m
  <1>5. m(t) = op[t] /\ op[t] \in OpType
    BY <1>1, <1>3, <1>4
  <1>6. pc \in [Threads -> PCs]
    BY DEF IInv, Types
  <1>7. CASE /\ pc' = [pc EXCEPT ![t] = "done"] /\ op' = [marked EXCEPT ![t] = Failed(@)]
             /\ mem' = [p \in Allocated \ {op[t].ptr} |-> mem[p]]
    <2>1. Failed(op[t]) \in OpType /\ ~Sound(Failed(op[t]))
      BY <1>5, FailedFacts
    <2>2. op' \in [Threads -> OpType] /\ op'[t] = Failed(op[t]) /\ \A u \in Threads \ {t} : op'[u] = m(u)
      BY <1>4, <1>5, <1>7, <2>1
    <2>3. pc' \in [Threads -> PCs] /\ pc'[t] = "done" /\ \A u \in Threads \ {t} : pc'[u] = pc[u]
      BY <1>6, <1>7 DEF PCs
    <2>4. Moved(t)
      BY <1>4, <2>2, <2>3 DEF Moved
    <2>5. \A u \in Threads : Sound(op'[u]) /\ pc'[u] = "wait" => ~tfes
      BY <1>4, <2>2, <2>3
    <2> QED
      BY <1>1, <1>7, <2>1, <2>2, <2>3, <2>4, <2>5
  <1>8. CASE /\ pc' = [pc EXCEPT ![t] = "sem"] /\ IdleSlots # {} /\ mem' = mem
             /\ op' = [marked EXCEPT ![t] = [@ EXCEPT !.slot = Min(IdleSlots)]]
    <2> DEFINE o == [op[t] EXCEPT !.slot = Min(IdleSlots)]
    <2>1. /\ o \in OpType /\ Sound(o) = Sound(op[t]) /\ o.cached = op[t].cached /\ o.ptr = op[t].ptr
          /\ o.left = op[t].left /\ o.lba = op[t].lba /\ o.block = op[t].block /\ o.dst = op[t].dst
      BY <1>5, <1>8 DEF OpType, Sound
    <2>2. op' \in [Threads -> OpType] /\ op'[t] = o /\ \A u \in Threads \ {t} : op'[u] = m(u)
      BY <1>4, <1>5, <1>8, <2>1
    <2> HIDE DEF o
    <2>3. pc' \in [Threads -> PCs] /\ pc'[t] = "sem" /\ \A u \in Threads \ {t} : pc'[u] = pc[u]
      BY <1>6, <1>8 DEF PCs
    <2>4. Moved(t)
      BY <1>4, <2>2, <2>3 DEF Moved
    <2>5. \A u \in Threads : Sound(op'[u]) /\ pc'[u] = "wait" => ~tfes
      BY <1>4, <2>2, <2>3
    <2> QED
      BY <1>1, <1>8, <2>1, <2>2, <2>3, <2>4, <2>5
  <1> QED
    BY <1>2, <1>7, <1>8

\* find_cmdslot, with its failure that frees the request's memory.
LEMMA FindCmdSlotStep ==
  ASSUME IInv, NEW t \in Threads, FindCmdSlot(t), IdleSlots # {} => Min(IdleSlots) \in Nat
  PROVE  IInv'
  <1> DEFINE p == op[t].ptr
  <1>1. /\ Moved(t) /\ pc[t] = "slot" /\ tfes' = FALSE
        /\ UNCHANGED <<val, lost, bufLock, dma, table, issued, map, list>>
        /\ \A u \in Threads : Sound(op'[u]) /\ pc'[u] = "wait" => ~tfes
    BY FindCmdSlotFacts
  <1>2. \/ pc'[t] = "done" /\ ~Sound(op'[t]) /\ mem' = [q \in Allocated \ {p} |-> mem[q]]
        \/ /\ pc'[t] = "sem" /\ mem' = mem /\ Sound(op'[t]) = Sound(op[t])
           /\ op'[t].cached = op[t].cached /\ op'[t].ptr = op[t].ptr /\ op'[t].left = op[t].left
           /\ op'[t].lba = op[t].lba /\ op'[t].block = op[t].block /\ op'[t].dst = op[t].dst
    BY FindCmdSlotFacts
  <1>3. pc[t] \in Busy
    BY <1>1 DEF Busy, PCs
  <1>4. SemInv'
    BY <1>1, <1>2, SemKeep DEF IInv, Counted, Owner
  <1>5. OwnInv'
    <2>1. Sound(op'[t]) => Own(pc'[t], op'[t])
      BY <1>1, <1>2 DEF IInv, OwnInv, Own, Partial, First
    <2> QED
      BY <1>1, <2>1, OwnKeep DEF IInv
  <1>6. WaitInv'
    <2>1. \A u \in Threads \ {t} : pc'[u] = pc[u] /\ op'[u].slot = op[u].slot
      BY <1>1, MarkedFacts DEF IInv
    <2>2. pc'[t] # "wait" /\ pc[t] # "wait"
      BY <1>1, <1>2
    <2>3. issued' \subseteq {op'[u].slot : u \in {v \in Threads : pc'[v] = "wait"}}
      BY <1>1, <2>1, <2>2, SMT DEF IInv, WaitInv
    <2>4. ASSUME NEW u \in Threads, Sound(op'[u]), pc'[u] = "wait" PROVE Alone(u)'
      <3>1. u # t /\ pc[u] = "wait" /\ op'[u] = op[u] /\ Sound(op[u]) /\ ~tfes
        BY <1>1, <2>2, <2>4, MarkedFacts DEF IInv
      <3>2. Alone(u)
        BY <3>1 DEF IInv, WaitInv
      <3>3. ToRead(op'[u]) = ToRead(op[u])
        BY <3>1
      <3>4. \A v \in Threads \ {u} : pc'[v] # "wait"
        BY <2>1, <2>2, <3>2 DEF Alone
      <3> QED
        BY <1>1, <3>1, <3>2, <3>3, <3>4 DEF Alone
    <2> QED
      BY <2>3, <2>4 DEF WaitInv
  <1>7. CASE pc'[t] = "sem" /\ mem' = mem
    <2>1. Types'
      BY <1>1, <1>7 DEF IInv, Types, Moved, Buffers, Allocated
    <2>2. Allocated' = Allocated /\ op'[t].cached = op[t].cached /\ op'[t].ptr = op[t].ptr
      BY <1>2, <1>7 DEF Allocated
    <2>3. PtrInv' /\ CacheInv' /\ CopyInv'
      BY <1>1, <1>3, <1>7, <2>2, PtrKeep, CopyKeep DEF IInv
    <2> QED
      BY <1>4, <1>5, <1>6, <2>1, <2>3 DEF IInv
  <1>8. CASE pc'[t] = "done" /\ mem' = [q \in Allocated \ {p} |-> mem[q]]
    <2>1. Allocated' = Allocated \ {p} /\ \A q \in Allocated' : mem'[q] = mem[q]
      BY <1>8 DEF Allocated
    <2>2. Types'
      <3>1. Allocated' \subseteq Nat \ {0}
        BY <2>1 DEF IInv, Types
      <3>2. mem' \in [Allocated' -> [data : Contents, hurt : BOOLEAN]]
        BY <1>8, <2>1 DEF IInv, Types
      <3> QED
        BY <1>1, <3>1, <3>2 DEF IInv, Types, Moved, Buffers
    <2>3. \A u \in Threads : Pending(u)' => u # t /\ Pending(u) /\ op'[u].ptr = op[u].ptr
      BY <1>1, <1>8, MarkedFacts, SMT DEF IInv, Pending
    <2>4. PtrInv'
      <3>1. \A u \in Threads : /\ pc'[u] \in Busy /\ ~op'[u].cached => op'[u].ptr = 0
                               /\ pc'[u] = "set" => op'[u].cached
        BY <1>1, <1>8, MarkedFacts, SMT DEF IInv, PtrInv, Busy
      <3>2. ASSUME NEW u \in Threads, Pending(u)'
            PROVE  /\ op'[u].ptr \in Allocated'
                   /\ \A v \in Threads \ {u} : Pending(v)' => op'[v].ptr # op'[u].ptr
                   /\ \A b \in DOMAIN map' : map'[b] # op'[u].ptr
                   /\ \A i \in DOMAIN list' : list'[i].ptr # op'[u].ptr
        <4>1. u # t /\ Pending(u) /\ op'[u].ptr = op[u].ptr
          BY <2>3, <3>2
        <4>2. op[u].ptr # p /\ op[u].ptr \in Allocated
          BY <1>3, <4>1, PtrFacts
        <4> QED
          BY <1>1, <2>1, <2>3, <4>1, <4>2, SMT DEF IInv, PtrInv
      <3> QED
        BY <3>1, <3>2 DEF PtrInv, Busy
    <2>5. CacheInv'
      <3>1. /\ \A b \in DOMAIN map : map[b] \in Allocated'
            /\ \A i \in DOMAIN list : list[i].ptr \in Allocated'
        BY <1>3, <2>1, PtrFacts
      <3> QED
        BY <1>1, <3>1, SMT DEF IInv, CacheInv
    <2>6. CopyInv'
      <3>1. ASSUME NEW b \in DOMAIN map' PROVE Holds(map[b], b)'
        <4>1. map[b] # p /\ map[b] \in Allocated /\ Holds(map[b], b)
          BY <1>1, <1>3, PtrFacts DEF IInv, CopyInv
        <4> QED
          BY <1>1, <2>1, <4>1 DEF Holds
      <3>2. ASSUME NEW u \in Threads, Sound(op'[u]), pc'[u] = "memcpy" PROVE Found(u)'
        <4>1. u # t /\ pc[u] = "memcpy" /\ op'[u] = op[u] /\ Sound(op[u])
          BY <1>1, <1>8, <3>2, MarkedFacts DEF IInv
        <4>2. Found(u)
          BY <4>1 DEF IInv, CopyInv
        <4>3. op[u].ptr # p
          <5>1. op[u].ptr \in Allocated /\ (Pending(t) => p # op[u].ptr)
            BY <4>2 DEF Found, Holds
          <5>2. op[t].cached => Pending(t)
            BY <1>3 DEF Pending, Busy
          <5>3. ~op[t].cached => p = 0 /\ 0 \notin Allocated
            BY <1>3, PtrFacts
          <5>4. op[t].cached \in BOOLEAN
            BY TypesFacts DEF IInv, OpType
          <5> QED
            BY <5>1, <5>2, <5>3, <5>4
        <4>4. Holds(op[u].ptr, op[u].block)'
          BY <2>1, <4>1, <4>2, <4>3 DEF Found, Holds
        <4> QED
          BY <2>3, <4>1, <4>2, <4>4 DEF Found
      <3> QED
        BY <3>1, <3>2 DEF CopyInv
    <2> QED
      BY <1>4, <1>5, <1>6, <2>2, <2>4, <2>5, <2>6 DEF IInv
  <1> QED
    BY <1>2, <1>7, <1>8

\* No sectors are the empty contents.
LEMMA SectorsNone ==
  ASSUME NEW a \in Nat
  PROVE  Sectors(a, 0) = <<>>
  <1>1. Sectors(a, 0) \in Seq(Nat \union {Junk}) /\ Len(Sectors(a, 0)) = 0
    BY SectorsFacts DEF Contents
  <1> QED
    BY <1>1, EmptyFacts

\* A request that asks the partition: a cached one has memory of its own now.
Asks(t, fresh) ==
    /\ pc[t] = "idle" /\ Moved(t) /\ pc'[t] \in {"slot", "set", "done"}
    /\ Sound(op'[t]) => Own(pc'[t], op'[t])
    /\ UNCHANGED <<val, lost, bufLock, dma, table, issued, tfes, map, list>>
    /\ IF fresh THEN /\ mem' = Put(mem, NewPtr, [data |-> NoData, hurt |-> FALSE])
                     /\ op'[t].ptr = NewPtr /\ op'[t].cached
                ELSE mem' = mem /\ op'[t].ptr = 0 /\ ~op'[t].cached /\ pc'[t] # "set"

\* A request that asks the partition keeps the invariant.
LEMMA AsksStep ==
  ASSUME IInv, NEW t \in Threads, NEW fresh \in BOOLEAN, Asks(t, fresh),
         NewPtr \in Nat \ {0}, NewPtr \notin Allocated
  PROVE  IInv'
  <1>1. /\ pc[t] = "idle" /\ Moved(t) /\ pc'[t] \in {"slot", "set", "done"}
        /\ Sound(op'[t]) => Own(pc'[t], op'[t])
        /\ UNCHANGED <<val, lost, bufLock, dma, table, issued, tfes, map, list>>
    BY DEF Asks
  <1>2. SemInv'
    BY <1>1, SemKeep DEF IInv, Counted, Owner
  <1>3. OwnInv'
    BY <1>1, OwnKeep DEF IInv
  <1>4. WaitInv'
    BY <1>1, WaitKeep DEF IInv
  <1>5. CASE ~fresh
    <2>1. mem' = mem /\ op'[t].ptr = 0 /\ ~op'[t].cached /\ pc'[t] # "set" /\ Allocated' = Allocated
      BY <1>5 DEF Asks, Allocated
    <2>2. Types'
      BY <1>1, <2>1 DEF IInv, Types, Moved, Buffers
    <2>3. \A u \in Threads : Pending(u)' => u # t /\ Pending(u) /\ op'[u].ptr = op[u].ptr
      BY <1>1, <2>1, MarkedFacts, SMT DEF IInv, Pending
    <2>4. \A u \in Threads : /\ pc'[u] \in Busy /\ ~op'[u].cached => op'[u].ptr = 0
                             /\ pc'[u] = "set" => op'[u].cached
      BY <1>1, <2>1, MarkedFacts, SMT DEF IInv, PtrInv, Busy
    <2>5. PtrInv'
      BY <1>1, <2>1, <2>3, <2>4, SMT DEF IInv, PtrInv, Busy
    <2>6. CacheInv'
      BY <1>1, <2>1, SMT DEF IInv, CacheInv
    <2>7. \A q, b : Holds(q, b)' <=> Holds(q, b)
      BY <2>1 DEF Holds
    <2>8. ASSUME NEW u \in Threads, Sound(op'[u]), pc'[u] = "memcpy" PROVE Found(u)'
      <3>1. u # t /\ pc[u] = "memcpy" /\ op'[u] = op[u] /\ Sound(op[u])
        BY <1>1, <2>8, MarkedFacts, SMT DEF IInv
      <3>2. Found(u)
        BY <3>1 DEF IInv, CopyInv
      <3> QED
        BY <2>3, <2>7, <3>1, <3>2 DEF Found
    <2>9. CopyInv'
      BY <1>1, <2>7, <2>8 DEF IInv, CopyInv
    <2> QED
      BY <1>2, <1>3, <1>4, <2>2, <2>5, <2>6, <2>9 DEF IInv
  <1>6. CASE fresh
    <2>1. /\ mem' = Put(mem, NewPtr, [data |-> NoData, hurt |-> FALSE])
          /\ op'[t].ptr = NewPtr /\ op'[t].cached
      BY <1>6 DEF Asks
    <2>2. NewPtr \in Nat \ {0} /\ NewPtr \notin Allocated
      OBVIOUS
    <2> HIDE DEF NewPtr
    <2>3. /\ Allocated' = Allocated \union {NewPtr}
          /\ \A q \in Allocated : mem'[q] = mem[q]
          /\ mem'[NewPtr] = [data |-> NoData, hurt |-> FALSE]
      BY <2>1, <2>2 DEF Put, Allocated
    <2>4. Types'
      <3>1. Allocated' \subseteq Nat \ {0}
        BY <2>2, <2>3 DEF IInv, Types
      <3>2. mem' \in [Allocated' -> [data : Contents, hurt : BOOLEAN]]
        <4>1. \A q \in Allocated' : mem'[q] \in [data : Contents, hurt : BOOLEAN]
          <5>1. [data |-> NoData, hurt |-> FALSE] \in [data : Contents, hurt : BOOLEAN]
            BY NoDataFacts
          <5>2. \A q \in Allocated : mem[q] \in [data : Contents, hurt : BOOLEAN]
            BY DEF IInv, Types
          <5> QED
            BY <2>3, <5>1, <5>2
        <4>2. mem' = [q \in Allocated' |-> mem'[q]]
          BY <2>1 DEF Put, Allocated
        <4> QED
          BY <4>1, <4>2
      <3> QED
        BY <1>1, <3>1, <3>2 DEF IInv, Types, Moved, Buffers
    <2>5. \A u \in Threads \ {t} : Pending(u)' => Pending(u) /\ op'[u].ptr = op[u].ptr
      BY <1>1, MarkedFacts DEF IInv, Pending
    <2>6. \A u \in Threads : Pending(u) => op[u].ptr \in Allocated
      BY DEF IInv, PtrInv
    <2>7. /\ \A b \in DOMAIN map : map[b] \in Allocated
          /\ \A i \in DOMAIN list : list[i].ptr \in Allocated
      BY DEF IInv, CacheInv
    <2>8. PtrInv'
      <3>1. \A u \in Threads : /\ pc'[u] \in Busy /\ ~op'[u].cached => op'[u].ptr = 0
                               /\ pc'[u] = "set" => op'[u].cached
        BY <1>1, <2>1, MarkedFacts, SMT DEF IInv, PtrInv, Busy
      <3>2. ASSUME NEW u \in Threads, Pending(u)'
            PROVE  /\ op'[u].ptr \in Allocated'
                   /\ \A v \in Threads \ {u} : Pending(v)' => op'[v].ptr # op'[u].ptr
                   /\ \A b \in DOMAIN map' : map'[b] # op'[u].ptr
                   /\ \A i \in DOMAIN list' : list'[i].ptr # op'[u].ptr
        <4>1. CASE u = t
          <5>1. op'[u].ptr = NewPtr /\ map' = map /\ list' = list
            BY <1>1, <2>1, <4>1
          <5>2. \A v \in Threads \ {u} : Pending(v)' => op'[v].ptr # NewPtr
            BY <2>2, <2>5, <2>6, <4>1
          <5> QED
            BY <2>2, <2>3, <2>7, <5>1, <5>2
        <4>2. CASE u # t
          <5>1. Pending(u) /\ op'[u].ptr = op[u].ptr /\ op[u].ptr \in Allocated
            BY <2>5, <2>6, <3>2, <4>2
          <5>2. \A v \in Threads \ {u} : Pending(v)' => op'[v].ptr # op[u].ptr
            BY <2>1, <2>2, <2>5, <5>1, SMT DEF IInv, PtrInv
          <5>3. map' = map /\ list' = list
            BY <1>1
          <5>4. /\ \A b \in DOMAIN map : map[b] # op[u].ptr
                /\ \A i \in DOMAIN list : list[i].ptr # op[u].ptr
            BY <5>1, ZenonT(60) DEF IInv, PtrInv
          <5> QED
            BY <2>3, <5>1, <5>2, <5>3, <5>4
        <4> QED
          BY <4>1, <4>2
      <3> QED
        BY <3>1, <3>2 DEF PtrInv, Busy
    <2>9. CacheInv'
      BY <1>1, <2>3, SMT DEF IInv, CacheInv
    <2>10. \A q, b : Holds(q, b) => q \in Allocated /\ Holds(q, b)'
      BY <2>3 DEF Holds
    <2>11. ASSUME NEW u \in Threads, Sound(op'[u]), pc'[u] = "memcpy" PROVE Found(u)'
      <3>1. u # t /\ pc[u] = "memcpy" /\ op'[u] = op[u] /\ Sound(op[u])
        BY <1>1, <2>11, MarkedFacts DEF IInv
      <3>2. Found(u)
        BY <3>1 DEF IInv, CopyInv
      <3>3. op[u].ptr \in Allocated /\ Holds(op[u].ptr, op[u].block)'
        BY <2>10, <3>1, <3>2 DEF Found
      <3>4. \A v \in Threads : Pending(v)' => op'[v].ptr # op[u].ptr
        BY <2>1, <2>2, <2>5, <3>2, <3>3 DEF Found
      <3> QED
        BY <3>1, <3>3, <3>4 DEF Found
    <2>12. CopyInv'
      BY <1>1, <2>10, <2>11 DEF IInv, CopyInv
    <2> QED
      BY <1>2, <1>3, <1>4, <2>4, <2>8, <2>9, <2>12 DEF IInv
  <1> QED
    BY <1>5, <1>6

\* read_block: refused, found in the cache, out of range, or asked for.
LEMMA ReadBlockStep ==
  ASSUME IInv, NEW t \in Threads, NEW b \in Nat, NEW cached \in BOOLEAN, ReadBlock(t, b, cached),
         NewPtr \in Nat \ {0}, NewPtr \notin Allocated
  PROVE  IInv'
  <1> DEFINE o == [Idle EXCEPT !.block = b, !.cached = cached, !.dst = NoData]
             miss == cached /\ b \notin DOMAIN map
             lba == b * SectorsPerBlock
             asked == [o EXCEPT !.ptr = IF miss THEN NewPtr ELSE 0, !.dst = <<>>,
                                !.lba = lba + Start, !.left = SectorsPerBlock]
             found == [o EXCEPT !.ptr = map[b]]
  <1>1. pc[t] = "idle" /\ UNCHANGED <<val, lost, bufLock, dma, table, issued, tfes, map, list>>
    BY DEF ReadBlock, semaphore, port
  <1>2. \/ GotoWith(t, "done", Failed(o)) /\ UNCHANGED mem
        \/ cached /\ ~miss /\ GotoWith(t, "memcpy", found) /\ UNCHANGED mem
        \/ /\ miss \/ ~cached
           /\ mem' = IF miss THEN Put(mem, NewPtr, [data |-> NoData, hurt |-> FALSE]) ELSE mem
           /\ \/ GotoWith(t, IF miss THEN "set" ELSE "done", Failed(asked))
              \/ GotoWith(t, "slot", asked)
    BY DEF ReadBlock, Finish, GotoWith
  <1>3. o \in OpType /\ o.block = b /\ o.cached = cached
    BY NoDataFacts DEF Idle, OpType
  <1>4. NewPtr \in Nat
    OBVIOUS
  <1>5. lba \in Nat /\ lba + Start \in Nat /\ lba + Start = Start + lba
        /\ SectorsPerBlock \in Nat /\ SectorsPerBlock > 0 /\ <<>> \in Contents
    <2>1. SectorsPerBlock \in Nat /\ SectorsPerBlock > 0 /\ Start \in Nat
      BY ConstantFacts
    <2>2. lba \in Nat
      BY <2>1, SMT
    <2> HIDE DEF lba
    <2> QED
      BY <2>1, <2>2, EmptyFacts, SMT DEF Contents
  <1> HIDE DEF NewPtr
  <1>6. /\ asked \in OpType /\ asked.block = b /\ asked.cached = cached /\ asked.lba = lba + Start
        /\ asked.left = SectorsPerBlock /\ asked.dst = <<>>
        /\ asked.ptr = IF miss THEN NewPtr ELSE 0
    <2> HIDE DEF lba
    <2>1. (IF miss THEN NewPtr ELSE 0) \in Nat
      BY <1>4
    <2> HIDE DEF miss, o
    <2> QED
      BY <1>3, <1>5, <2>1 DEF OpType
  <1>7. Partial(asked)
    <2>1. First(asked) = Start + lba
      BY <1>6 DEF First
    <2> HIDE DEF asked, lba
    <2>2. Sectors(First(asked), 0) = <<>>
      BY <1>5, <2>1, SectorsNone
    <2>3. SectorsPerBlock - asked.left = 0 /\ asked.left \in 1 .. SectorsPerBlock
      BY <1>5, <1>6, SMT
    <2>4. First(asked) \in Nat /\ asked.lba = First(asked) + (SectorsPerBlock - asked.left)
      BY <1>5, <1>6, <2>1, <2>3, SMT
    <2> QED
      BY <1>6, <2>2, <2>3, <2>4 DEF Partial
  <1> HIDE DEF asked, lba
  <1>8. CASE GotoWith(t, "done", Failed(o)) /\ UNCHANGED mem
    <2>1. Moved(t) /\ pc'[t] = "done" /\ ~Sound(op'[t])
      BY <1>3, <1>8, FailedFacts, MoveTo, SMT DEF IInv, PCs
    <2>2. SemInv'
      BY <1>1, <2>1, SemKeep DEF IInv, Counted, Owner
    <2> HIDE DEF o, miss, found
    <2> QED
      BY <1>1, <1>8, <2>1, <2>2, TypesFacts, Through DEF IInv, Busy
  <1>9. CASE cached /\ ~miss /\ GotoWith(t, "memcpy", found) /\ UNCHANGED mem
    <2>1. b \in DOMAIN map /\ map[b] \in Nat
      BY <1>9 DEF IInv, Types
    <2>2. found \in OpType /\ found.ptr = map[b] /\ found.block = b
      BY <1>3, <2>1 DEF OpType
    <2> HIDE DEF found, o, miss
    <2>3. Moved(t) /\ pc'[t] = "memcpy" /\ op'[t] = found
      BY <1>9, <2>2, MoveTo DEF IInv, PCs
    <2>4. SemInv'
      BY <1>1, <2>3, SemKeep DEF IInv, Counted, Owner
    <2>5. Types'
      BY <1>1, <1>9, <2>3 DEF IInv, Types, Moved, Buffers, Allocated
    <2>6. Allocated' = Allocated /\ pc'[t] \notin Busy
      BY <1>9, <2>3 DEF Allocated, Busy
    <2>7. PtrInv' /\ CacheInv'
      BY <1>1, <2>3, <2>6, PtrKeep DEF IInv
    <2>8. OwnInv'
      BY <2>3, OwnKeep DEF IInv, Own
    <2>9. WaitInv'
      BY <1>1, <2>3, WaitKeep DEF IInv
    <2>10. \A q, x : Holds(q, x)' <=> Holds(q, x)
      BY <1>9, <2>6 DEF Holds
    <2>11. \A u \in Threads : Pending(u)' => u # t /\ Pending(u) /\ op'[u].ptr = op[u].ptr
      BY <2>3, MarkedFacts, SMT DEF IInv, Pending
    <2>12. ASSUME NEW u \in Threads, Sound(op'[u]), pc'[u] = "memcpy" PROVE Found(u)'
      <3>1. CASE u = t
        <4>1. Holds(map[b], b)
          BY <2>1 DEF IInv, CopyInv
        <4>2. op'[u].ptr = map[b] /\ op'[u].block = b
          BY <2>2, <2>3, <3>1
        <4>3. Holds(op[u].ptr, op[u].block)'
          BY <2>10, <4>1, <4>2
        <4>4. \A v \in Threads : Pending(v)' => op'[v].ptr # op'[u].ptr
          BY <2>1, <2>11, <4>2, SMT DEF IInv, PtrInv
        <4> QED
          BY <4>3, <4>4 DEF Found
      <3>2. CASE u # t
        <4>1. pc[u] = "memcpy" /\ op'[u] = op[u] /\ Sound(op[u])
          BY <2>3, <2>12, <3>2, MarkedFacts, SMT DEF IInv
        <4>2. Found(u)
          BY <4>1 DEF IInv, CopyInv
        <4> QED
          BY <2>10, <2>11, <4>1, <4>2 DEF Found
      <3> QED
        BY <3>1, <3>2
    <2>13. CopyInv'
      BY <1>1, <2>10, <2>12 DEF IInv, CopyInv
    <2> QED
      BY <2>4, <2>5, <2>7, <2>8, <2>9, <2>13 DEF IInv
  <1>10. CASE /\ miss \/ ~cached
              /\ mem' = IF miss THEN Put(mem, NewPtr, [data |-> NoData, hurt |-> FALSE]) ELSE mem
              /\ \/ GotoWith(t, IF miss THEN "set" ELSE "done", Failed(asked))
                 \/ GotoWith(t, "slot", asked)
    <2>1. /\ Moved(t) /\ pc'[t] \in {"slot", "set", "done"} /\ (pc'[t] = "set" => miss)
          /\ Sound(op'[t]) => Own(pc'[t], op'[t])
          /\ op'[t].cached = cached /\ op'[t].ptr = IF miss THEN NewPtr ELSE 0
      <3>1. CASE GotoWith(t, IF miss THEN "set" ELSE "done", Failed(asked))
        <4>1. /\ Failed(asked) \in OpType /\ ~Sound(Failed(asked)) /\ Failed(asked).cached = cached
              /\ Failed(asked).ptr = IF miss THEN NewPtr ELSE 0
          BY <1>6, FailedFacts
        <4>2. Moved(t) /\ pc'[t] = (IF miss THEN "set" ELSE "done") /\ op'[t] = Failed(asked)
          BY <3>1, <4>1, MoveTo DEF IInv, PCs
        <4> QED
          BY <4>1, <4>2
      <3>2. CASE GotoWith(t, "slot", asked)
        <4>1. Moved(t) /\ pc'[t] = "slot" /\ op'[t] = asked
          BY <1>6, <3>2, MoveTo DEF IInv, PCs
        <4> QED
          BY <1>6, <1>7, <4>1 DEF Own
      <3> QED
        BY <1>10, <3>1, <3>2
    <2>2. Asks(t, miss)
      BY <1>1, <1>10, <2>1 DEF Asks
    <2> QED
      BY <2>2, AsksStep
  <1> QED
    BY <1>2, <1>8, <1>9, <1>10

-----------------------------------------------------------------------------
(* lru_cache::set                                                          *)

\* An entry in front of the first n of a list.
LEMMA PushFacts ==
  ASSUME NEW S, NEW s \in Seq(S), NEW k \in Seq(S), NEW e \in S, Len(k) <= Len(s),
         \A i \in 1 .. Len(k) : k[i] = s[i]
  PROVE  /\ <<e>> \o k \in Seq(S) /\ Len(<<e>> \o k) = Len(k) + 1
         /\ DOMAIN (<<e>> \o k) = 1 .. Len(k) + 1
         /\ (<<e>> \o k)[1] = e
         /\ \A i \in 2 .. Len(k) + 1 : (<<e>> \o k)[i] = s[i - 1] /\ i - 1 \in DOMAIN s
  <1> DEFINE f == <<e>>
  <1>1. f \in Seq(S) /\ Len(f) = 1 /\ f[1] = e
    BY SMT
  <1> HIDE DEF f
  <1>2. /\ f \o k \in Seq(S) /\ Len(f \o k) = Len(f) + Len(k)
        /\ \A i \in 1 .. Len(f) + Len(k) : (f \o k)[i] = IF i <= Len(f) THEN f[i] ELSE k[i - Len(f)]
    BY <1>1, ConcatFacts
  <1>3. Len(k) \in Nat /\ Len(s) \in Nat /\ DOMAIN s = 1 .. Len(s)
    BY LenFacts
  <1>4. DOMAIN (f \o k) = 1 .. Len(k) + 1 /\ Len(f \o k) = Len(k) + 1
    BY <1>1, <1>2, <1>3, LenFacts, SMT
  <1>5. (f \o k)[1] = e
    BY <1>1, <1>2, <1>3, SMT
  <1>6. \A i \in 2 .. Len(k) + 1 : (f \o k)[i] = s[i - 1] /\ i - 1 \in DOMAIN s
    <2> SUFFICES ASSUME NEW i \in 2 .. Len(k) + 1 PROVE (f \o k)[i] = s[i - 1] /\ i - 1 \in DOMAIN s
      OBVIOUS
    <2>1. i - 1 \in 1 .. Len(k) /\ i - 1 \in 1 .. Len(s) /\ i \in 1 .. 1 + Len(k) /\ ~(i <= 1)
      BY <1>3, SMT
    <2>2. (f \o k)[i] = k[i - 1]
      BY <1>1, <1>2, <2>1
    <2> QED
      BY <1>3, <2>1, <2>2
  <1> QED
    BY <1>2, <1>4, <1>5, <1>6 DEF f

\* The value lru_cache::set frees, 0 for none, and the key it takes from the map.
Gone(t) == IF op[t].block \in DOMAIN map THEN 0 ELSE Evicted
Dropped(t) == IF Gone(t) = 0 THEN {} ELSE {Last(list).block}

\* What lru_cache::set frees is in the list, and no request's own memory.
LEMMA GoneFacts ==
  ASSUME IInv, NEW t \in Threads, pc[t] = "set"
  PROVE  /\ op[t].cached /\ op[t].ptr \in Allocated /\ Pending(t) /\ op[t].block \in Nat
         /\ list \in Seq([block : Nat, ptr : Nat]) /\ Len(list) \in Nat /\ DOMAIN list = 1 .. Len(list)
         /\ Gone(t) # op[t].ptr
         /\ \A u \in Threads \ {t} : Pending(u) => op[u].ptr # Gone(t)
         /\ Gone(t) # 0 => /\ op[t].block \notin DOMAIN map /\ Len(list) \in DOMAIN list
                           /\ Gone(t) = list[Len(list)].ptr
                           /\ Dropped(t) = {list[Len(list)].block}
         /\ Gone(t) = 0 /\ op[t].block \notin DOMAIN map => Len(list) < Capacity
         /\ Gone(t) = 0 => Dropped(t) = {}
         /\ 0 \notin Allocated /\ \A i \in DOMAIN list : list[i].ptr \in Allocated
  <1>1. /\ list \in Seq([block : Nat, ptr : Nat]) /\ Len(list) \in Nat /\ DOMAIN list = 1 .. Len(list)
    BY LenFacts DEF IInv, Types
  <1>2. op[t].cached /\ Pending(t) /\ op[t].ptr \in Allocated /\ 0 \notin Allocated
        /\ \A i \in DOMAIN list : list[i].ptr \in Allocated /\ list[i].ptr # op[t].ptr
    BY DEF IInv, PtrInv, Pending, PCs, Types, CacheInv
  <1>3. op[t].block \in Nat
    BY TypesFacts DEF IInv, OpType
  <1>4. Capacity \in Nat /\ Capacity > 0
    BY ConstantFacts
  <1>5. CASE op[t].block \notin DOMAIN map /\ Len(list) >= Capacity
    <2>1. Len(list) \in DOMAIN list
      BY <1>1, <1>4, <1>5, SMT
    <2>2. Gone(t) = list[Len(list)].ptr
      BY <1>5 DEF Gone, Evicted, Last
    <2>3. Gone(t) # 0 /\ Gone(t) # op[t].ptr
      BY <1>2, <2>1, <2>2
    <2>4. Dropped(t) = {list[Len(list)].block}
      BY <2>3 DEF Dropped, Last
    <2>5. \A u \in Threads \ {t} : Pending(u) => op[u].ptr # Gone(t)
      BY <2>1, <2>2 DEF IInv, PtrInv
    <2> QED
      BY <1>1, <1>2, <1>3, <1>5, <2>1, <2>2, <2>3, <2>4, <2>5
  <1>6. CASE ~(op[t].block \notin DOMAIN map /\ Len(list) >= Capacity)
    <2>1. Gone(t) = 0 /\ Dropped(t) = {}
      BY <1>6 DEF Gone, Evicted, Dropped
    <2>2. \A u \in Threads \ {t} : Pending(u) => op[u].ptr # 0
      BY <1>2 DEF IInv, PtrInv
    <2>3. op[t].block \notin DOMAIN map => Len(list) < Capacity
      BY <1>1, <1>4, <1>6, SMT
    <2> QED
      BY <1>1, <1>2, <1>3, <2>1, <2>2, <2>3
  <1> QED
    BY <1>5, <1>6

\* What lru_cache::set does to the requests, the memory and the map.
LEMMA SetFacts ==
  ASSUME IInv, NEW t \in Threads, Set(t)
  PROVE  /\ pc[t] = "set" /\ Moved(t) /\ pc'[t] = "memcpy" /\ op'[t] = op[t]
         /\ UNCHANGED <<val, lost, bufLock, dma, table, issued, tfes>>
         /\ \A u \in Threads \ {t} : Sound(op'[u]) /\ pc'[u] = "memcpy" => op[u].ptr # Gone(t)
         /\ Allocated' = Allocated \ {Gone(t)}
         /\ mem'[op[t].ptr] = [data |-> op[t].dst, hurt |-> ~Sound(op[t])]
         /\ \A q \in Allocated' \ {op[t].ptr} : mem'[q] = mem[q]
         /\ mem' \in [Allocated' -> [data : Contents, hurt : BOOLEAN]]
         /\ DOMAIN map' = (DOMAIN map \ Dropped(t)) \union {op[t].block}
         /\ map'[op[t].block] = op[t].ptr
         /\ \A b \in DOMAIN map' \ {op[t].block} : map'[b] = map[b]
         /\ map' \in [DOMAIN map' -> Nat]
         /\ list' = IF op[t].block \in DOMAIN map THEN list
                    ELSE <<[block |-> op[t].block, ptr |-> op[t].ptr]>>
                         \o (IF Gone(t) = 0 THEN list ELSE Front(list))
  <1> DEFINE o == op[t]
             filled == [mem EXCEPT ![o.ptr] = [data |-> o.dst, hurt |-> ~Sound(o)]]
             left == [b \in DOMAIN map \ Dropped(t) |-> map[b]]
             c(u) == pc[u] = "memcpy" /\ op[u].ptr = Gone(t)
             m(u) == [op[u] EXCEPT !.freed = @ \/ c(u)]
  <1>1. /\ pc[t] = "set" /\ pc' = [pc EXCEPT ![t] = "memcpy"]
        /\ UNCHANGED <<val, lost, bufLock, dma, table, issued, tfes>>
        /\ mem' = [q \in DOMAIN filled \ {Gone(t)} |-> filled[q]]
        /\ map' = Put(left, o.block, o.ptr)
        /\ list' = IF o.block \in DOMAIN map THEN list
                   ELSE <<[block |-> o.block, ptr |-> o.ptr]>>
                        \o (IF Gone(t) = 0 THEN list ELSE Front(list))
    BY DEF Set, Gone, Dropped, semaphore, port
  <1>2. op' = [u \in Threads |-> m(u)]
    BY DEF Set, Gone
  <1>3. \A u \in Threads : op[u] \in OpType /\ c(u) \in BOOLEAN
    BY DEF IInv, Types
  <1>4. \A u \in Threads :
           /\ m(u) \in OpType /\ (m(u) = op[u] \/ m(u) = [op[u] EXCEPT !.freed = TRUE])
           /\ c(u) => ~Sound(m(u))
           /\ ~c(u) => m(u) = op[u]
    <2> SUFFICES ASSUME NEW u \in Threads
                 PROVE  /\ m(u) \in OpType /\ (m(u) = op[u] \/ m(u) = [op[u] EXCEPT !.freed = TRUE])
                        /\ c(u) => ~Sound(m(u))
                        /\ ~c(u) => m(u) = op[u]
      OBVIOUS
    <2>1. op[u] \in OpType /\ c(u) \in BOOLEAN
      BY <1>3
    <2> HIDE DEF c
    <2> QED
      BY <2>1, FreedMarks
  <1>5. op' \in [Threads -> OpType] /\ \A u \in Threads : op'[u] = m(u)
    BY <1>2, <1>4
  <1> HIDE DEF m
  <1>6. m(t) = op[t]
    BY <1>1, <1>4
  <1>7. pc' \in [Threads -> PCs] /\ pc'[t] = "memcpy" /\ \A u \in Threads \ {t} : pc'[u] = pc[u]
    BY <1>1 DEF IInv, Types, PCs
  <1>8. Moved(t) /\ op'[t] = op[t]
    BY <1>4, <1>5, <1>6, <1>7 DEF Moved
  <1>9. \A u \in Threads \ {t} : Sound(op'[u]) /\ pc'[u] = "memcpy" => op[u].ptr # Gone(t)
    BY <1>4, <1>5, <1>7
  <1>10. o.ptr \in Allocated /\ Gone(t) # o.ptr /\ o.block \in Nat /\ o.ptr \in Nat
         /\ [data |-> o.dst, hurt |-> ~Sound(o)] \in [data : Contents, hurt : BOOLEAN]
    BY <1>1, <1>3, GoneFacts DEF OpType
  <1>11. /\ filled \in [Allocated -> [data : Contents, hurt : BOOLEAN]]
         /\ filled[o.ptr] = [data |-> o.dst, hurt |-> ~Sound(o)]
         /\ \A q \in Allocated \ {o.ptr} : filled[q] = mem[q]
    BY <1>10 DEF IInv, Types
  <1> HIDE DEF filled
  <1>12. Allocated' = Allocated \ {Gone(t)} /\ \A q \in Allocated' : mem'[q] = filled[q]
    <2>1. DOMAIN filled = Allocated
      BY <1>11
    <2> QED
      BY <1>1, <2>1 DEF Allocated
  <1>13. mem' \in [Allocated' -> [data : Contents, hurt : BOOLEAN]]
    BY <1>1, <1>11, <1>12
  <1>14. /\ mem'[o.ptr] = [data |-> o.dst, hurt |-> ~Sound(o)]
         /\ \A q \in Allocated' \ {o.ptr} : mem'[q] = mem[q]
    BY <1>10, <1>11, <1>12
  <1>15. /\ DOMAIN map' = (DOMAIN map \ Dropped(t)) \union {o.block} /\ map'[o.block] = o.ptr
         /\ \A b \in DOMAIN map' \ {o.block} : map'[b] = map[b]
    BY <1>1 DEF Put
  <1>16. map' \in [DOMAIN map' -> Nat]
    <2>1. map \in [DOMAIN map -> Nat]
      BY DEF IInv, Types
    <2>2. \A b \in DOMAIN map' : map'[b] \in Nat
      BY <1>10, <1>15, <2>1
    <2>3. map' = [b \in DOMAIN map' |-> map'[b]]
      BY <1>1 DEF Put
    <2> QED
      BY <2>2, <2>3
  <1> QED
    BY <1>1, <1>7, <1>8, <1>9, <1>12, <1>13, <1>14, <1>15, <1>16

\* The list after a new key: the entry in front, then the old ones but the freed.
LEMMA SetList ==
  ASSUME IInv, NEW t \in Threads, Set(t), op[t].block \notin DOMAIN map
  PROVE  \E n \in Nat :
            /\ n <= Len(list) /\ n + 1 <= Capacity
            /\ list' \in Seq([block : Nat, ptr : Nat]) /\ Len(list') = n + 1 /\ DOMAIN list' = 1 .. n + 1
            /\ list'[1] = [block |-> op[t].block, ptr |-> op[t].ptr]
            /\ \A i \in 2 .. n + 1 : list'[i] = list[i - 1] /\ i - 1 \in DOMAIN list
            /\ \/ Gone(t) = 0 /\ n = Len(list)
               \/ Gone(t) # 0 /\ n = Len(list) - 1
  <1> DEFINE e == [block |-> op[t].block, ptr |-> op[t].ptr]
             k == IF Gone(t) = 0 THEN list ELSE Front(list)
             S == [block : Nat, ptr : Nat]
             n == Len(k)
  <1>1. pc[t] = "set" /\ list' = <<e>> \o k
    BY SetFacts
  <1>2. /\ list \in Seq(S) /\ Len(list) \in Nat /\ DOMAIN list = 1 .. Len(list)
        /\ Gone(t) # 0 => Len(list) \in DOMAIN list
        /\ Gone(t) = 0 => Len(list) < Capacity
        /\ Len(list) <= Capacity /\ Capacity \in Nat
    BY <1>1, GoneFacts, ConstantFacts DEF IInv, CacheInv
  <1>3. e \in S
    BY TypesFacts DEF IInv, OpType
  <1>4. /\ k \in Seq(S) /\ n \in Nat /\ \A i \in 1 .. n : k[i] = list[i]
        /\ \/ Gone(t) = 0 /\ n = Len(list)
           \/ Gone(t) # 0 /\ n = Len(list) - 1
    <2>1. CASE Gone(t) = 0
      BY <1>2, <2>1
    <2>2. CASE Gone(t) # 0
      <3>1. k = SubSeq(list, 1, Len(list) - 1) /\ Len(list) - 1 \in Nat
        BY <1>2, <2>2, SMT DEF Front
      <3>2. /\ SubSeq(list, 1, Len(list) - 1) \in Seq(S)
            /\ Len(SubSeq(list, 1, Len(list) - 1)) = Len(list) - 1
            /\ \A i \in 1 .. Len(list) - 1 : SubSeq(list, 1, Len(list) - 1)[i] = list[i]
        <4>1. Len(list) - 1 \in 0 .. Len(list)
          BY <1>2, <3>1, SMT
        <4> HIDE DEF S
        <4> QED
          BY <1>2, <4>1, PrefixFacts
      <3> QED
        BY <2>2, <3>1, <3>2
    <2> QED
      BY <2>1, <2>2
  <1> HIDE DEF e, k, S
  <1>5. n <= Len(list) /\ n + 1 <= Capacity
    <2>1. Len(list) \in Nat /\ Capacity \in Nat /\ Len(list) <= Capacity
      BY <1>2
    <2>2. CASE Gone(t) = 0
      <3>1. n = Len(list) /\ Len(list) < Capacity
        BY <1>2, <1>4, <2>2
      <3> QED
        BY <2>1, <3>1, SMT
    <2>3. CASE Gone(t) # 0
      <3>1. n = Len(list) - 1
        BY <1>4, <2>3
      <3> QED
        BY <2>1, <3>1, SMT
    <2> QED
      BY <2>2, <2>3
  <1>6. /\ <<e>> \o k \in Seq(S) /\ Len(<<e>> \o k) = n + 1 /\ DOMAIN (<<e>> \o k) = 1 .. n + 1
        /\ (<<e>> \o k)[1] = e
        /\ \A i \in 2 .. n + 1 : (<<e>> \o k)[i] = list[i - 1] /\ i - 1 \in DOMAIN list
    <2>1. list \in Seq(S) /\ k \in Seq(S) /\ e \in S /\ Len(k) <= Len(list)
      BY <1>2, <1>3, <1>4, <1>5
    <2>2. \A i \in 1 .. Len(k) : k[i] = list[i]
      BY <1>4
    <2> QED
      BY <2>1, <2>2, PushFacts, SMT
  <1> HIDE DEF n
  <1> QED
    BY <1>1, <1>4, <1>5, <1>6 DEF e, S

\* lru_cache::set keeps the map and the list alike.
LEMMA SetCache ==
  ASSUME IInv, NEW t \in Threads, Set(t)
  PROVE  /\ CacheInv' /\ list' \in Seq([block : Nat, ptr : Nat])
         /\ \A b \in DOMAIN map' \ {op[t].block} : b \in DOMAIN map /\ map[b] # Gone(t)
         /\ \A i \in DOMAIN list' :
               list'[i].ptr = op[t].ptr \/ \E k \in DOMAIN list : list'[i] = list[k]
  <1> DEFINE x == op[t].block
             p == op[t].ptr
  <1>1. /\ pc[t] = "set" /\ Allocated' = Allocated \ {Gone(t)}
        /\ DOMAIN map' = (DOMAIN map \ Dropped(t)) \union {x} /\ map'[x] = p
        /\ \A b \in DOMAIN map' \ {x} : map'[b] = map[b]
    BY SetFacts
  <1>2. /\ p \in Allocated /\ Gone(t) # p /\ 0 \notin Allocated
        /\ list \in Seq([block : Nat, ptr : Nat]) /\ Len(list) \in Nat /\ DOMAIN list = 1 .. Len(list)
        /\ Gone(t) # 0 => /\ x \notin DOMAIN map /\ Len(list) \in DOMAIN list
                          /\ Gone(t) = list[Len(list)].ptr
                          /\ Dropped(t) = {list[Len(list)].block}
        /\ Gone(t) = 0 => Dropped(t) = {}
    BY <1>1, GoneFacts
  <1>3. /\ \A b \in DOMAIN map : map[b] # p /\ map[b] \in Allocated
        /\ \A i \in DOMAIN list : list[i].ptr # p /\ list[i].ptr \in Allocated
    <2>1. pc[t] \in Busy
      BY <1>1 DEF Busy, PCs
    <2> QED
      BY <2>1, PtrFacts
  <1>4. /\ DOMAIN map = {list[i].block : i \in DOMAIN list} /\ Len(list) <= Capacity
        /\ \A i, k \in DOMAIN list :
              list[i].block = list[k].block \/ list[i].ptr = list[k].ptr => i = k
        /\ \A b \in DOMAIN map, i \in DOMAIN list : map[b] = list[i].ptr => b = list[i].block
    BY DEF IInv, CacheInv
  <1>5. \A b \in DOMAIN map' \ {x} : b \in DOMAIN map /\ map[b] # Gone(t)
    <2> SUFFICES ASSUME NEW b \in DOMAIN map' \ {x} PROVE b \in DOMAIN map /\ map[b] # Gone(t)
      OBVIOUS
    <2>1. b \in DOMAIN map /\ b \notin Dropped(t)
      BY <1>1
    <2>2. CASE Gone(t) = 0
      BY <1>2, <1>3, <2>1, <2>2
    <2>3. CASE Gone(t) # 0
      BY <1>2, <1>4, <2>1, <2>3
    <2> QED
      BY <2>1, <2>2, <2>3
  <1>6. \A b \in DOMAIN map' : map'[b] \in Allocated'
    BY <1>1, <1>2, <1>3, <1>5
  <1>7. CASE x \in DOMAIN map
    <2>1. list' = list
      BY <1>7, SetFacts
    <2>2. Gone(t) = 0 /\ Dropped(t) = {} /\ DOMAIN map' = DOMAIN map /\ Allocated' = Allocated
      BY <1>1, <1>2, <1>7
    <2>3. ASSUME NEW b \in DOMAIN map', NEW i \in DOMAIN list, map'[b] = list[i].ptr
          PROVE  b = list[i].block
      BY <1>1, <1>3, <1>4, <2>2, <2>3, SMT
    <2>4. CacheInv'
      BY <1>3, <1>4, <1>6, <2>1, <2>2, <2>3, SMT DEF CacheInv
    <2> QED
      BY <1>2, <1>5, <2>1, <2>4
  <1>8. CASE x \notin DOMAIN map
    <2>1. PICK n \in Nat :
            /\ n <= Len(list) /\ n + 1 <= Capacity
            /\ list' \in Seq([block : Nat, ptr : Nat]) /\ Len(list') = n + 1 /\ DOMAIN list' = 1 .. n + 1
            /\ list'[1] = [block |-> x, ptr |-> p]
            /\ \A i \in 2 .. n + 1 : list'[i] = list[i - 1] /\ i - 1 \in DOMAIN list
            /\ \/ Gone(t) = 0 /\ n = Len(list)
               \/ Gone(t) # 0 /\ n = Len(list) - 1
      BY <1>8, SetList
    <2>2. list'[1].block = x /\ list'[1].ptr = p /\ 1 \in DOMAIN list'
      BY <2>1, SMT
    <2>3. \A i \in DOMAIN list' : i = 1 \/ i \in 2 .. n + 1
      BY <2>1, SMT
    <2>0. /\ Gone(t) # 0 => n = Len(list) - 1 /\ Len(list) \in DOMAIN list
          /\ Gone(t) = 0 => n = Len(list)
          /\ \A k \in DOMAIN list : k <= n \/ (Gone(t) # 0 /\ k = Len(list))
          /\ \A i \in 2 .. n + 1 : Gone(t) # 0 => i - 1 # Len(list)
      <3>1. CASE Gone(t) = 0
        <4>1. n = Len(list)
          BY <2>1, <3>1
        <4> QED
          BY <1>2, <3>1, <4>1, SMT
      <3>2. CASE Gone(t) # 0
        <4>1. n = Len(list) - 1 /\ Len(list) \in DOMAIN list
          BY <1>2, <2>1, <3>2
        <4>2. ASSUME NEW k \in DOMAIN list PROVE k <= n \/ k = Len(list)
          BY <1>2, <4>1, SMT
        <4>3. ASSUME NEW i \in 2 .. n + 1 PROVE i - 1 # Len(list)
          BY <1>2, <4>1, SMT
        <4> QED
          BY <3>2, <4>1, <4>2, <4>3
      <3> QED
        BY <3>1, <3>2
    <2>12. \A i \in 2 .. n + 1 : list'[i] = list[i - 1] /\ i - 1 \in DOMAIN list
      BY <2>1
    <2>4. \A i \in 2 .. n + 1 : list[i - 1].ptr # Gone(t)
      <3>1. CASE Gone(t) = 0
        BY <1>2, <1>3, <2>1, <3>1
      <3>2. CASE Gone(t) # 0
        <4> SUFFICES ASSUME NEW i \in 2 .. n + 1 PROVE list[i - 1].ptr # list[Len(list)].ptr
          BY <1>2, <3>2
        <4>1. i - 1 \in DOMAIN list /\ i - 1 # Len(list) /\ Len(list) \in DOMAIN list
          BY <2>0, <2>12, <3>2
        <4> QED
          BY <1>4, <4>1
      <3> QED
        BY <3>1, <3>2
    <2>5. \A i \in DOMAIN list' : list'[i].ptr \in Allocated'
      BY <1>1, <1>2, <1>3, <2>1, <2>2, <2>3, <2>4, ZenonT(60)
    <2>6. \A i \in 2 .. n + 1 : list'[i].block \in DOMAIN map /\ list'[i].block # x
                                /\ list'[i].ptr # p
      <3> SUFFICES ASSUME NEW i \in 2 .. n + 1
                   PROVE  list'[i].block \in DOMAIN map /\ list'[i].block # x /\ list'[i].ptr # p
        OBVIOUS
      <3>1. list'[i] = list[i - 1] /\ i - 1 \in DOMAIN list
        BY <2>12
      <3>2. list[i - 1].block \in DOMAIN map /\ list[i - 1].ptr # p
        BY <1>3, <1>4, <3>1
      <3> QED
        BY <1>8, <3>1, <3>2
    <2>7. \A i, k \in DOMAIN list' :
              list'[i].block = list'[k].block \/ list'[i].ptr = list'[k].ptr => i = k
      <3> SUFFICES ASSUME NEW i \in DOMAIN list', NEW k \in DOMAIN list',
                          list'[i].block = list'[k].block \/ list'[i].ptr = list'[k].ptr
                   PROVE  i = k
        OBVIOUS
      <3>1. CASE i = 1 \/ k = 1
        BY <2>2, <2>3, <2>6, <3>1, SMT
      <3>2. CASE i \in 2 .. n + 1 /\ k \in 2 .. n + 1
        <4>1. i - 1 \in DOMAIN list /\ k - 1 \in DOMAIN list /\ list'[i] = list[i - 1]
              /\ list'[k] = list[k - 1]
          BY <2>1, <3>2
        <4>2. i - 1 = k - 1
          BY <1>4, <4>1, SMT
        <4> QED
          BY <3>2, <4>2, SMT
      <3> QED
        BY <2>3, <3>1, <3>2
    <2>8. DOMAIN map' = {list'[i].block : i \in DOMAIN list'}
      <3>1. ASSUME NEW b \in DOMAIN map' PROVE \E i \in DOMAIN list' : b = list'[i].block
        <4>1. CASE b = x
          BY <2>2, <4>1
        <4>2. CASE b # x
          <5>1. PICK k \in DOMAIN list : b = list[k].block
            BY <1>4, <1>5, <4>2
          <5>2. k <= n
            <6>1. CASE Gone(t) = 0
              BY <2>0, <5>1, <6>1
            <6>2. CASE Gone(t) # 0
              <7>1. b # list[Len(list)].block
                BY <1>1, <1>2, <4>2, <6>2
              <7> QED
                BY <2>0, <5>1, <7>1
            <6> QED
              BY <6>1, <6>2
          <5>3. k + 1 \in 2 .. n + 1 /\ (k + 1) - 1 = k
            BY <1>2, <5>2, SMT
          <5>4. k + 1 \in DOMAIN list' /\ list'[k + 1] = list[k]
            BY <2>1, <5>3, SMT
          <5> QED
            BY <5>1, <5>4
        <4> QED
          BY <4>1, <4>2
      <3>2. ASSUME NEW i \in DOMAIN list' PROVE list'[i].block \in DOMAIN map'
        <4>1. CASE i = 1
          BY <1>1, <2>2, <4>1
        <4>2. CASE i \in 2 .. n + 1
          <5>1. list'[i] = list[i - 1] /\ i - 1 \in DOMAIN list /\ list'[i].block \in DOMAIN map
            BY <2>1, <2>6, <4>2
          <5>2. list'[i].block \notin Dropped(t)
            <6>1. CASE Gone(t) = 0
              BY <1>2, <6>1
            <6>2. CASE Gone(t) # 0
              <7>1. i - 1 # Len(list) /\ Len(list) \in DOMAIN list
                BY <2>0, <4>2, <6>2
              <7> QED
                <8>1. list[i - 1].block # list[Len(list)].block
                  BY <1>4, <5>1, <7>1
                <8> QED
                  BY <1>2, <5>1, <6>2, <8>1
            <6> QED
              BY <6>1, <6>2
          <5> QED
            BY <1>1, <5>1, <5>2
        <4> QED
          BY <2>3, <4>1, <4>2
      <3> QED
        BY <3>1, <3>2
    <2>9. ASSUME NEW b \in DOMAIN map', NEW i \in DOMAIN list', map'[b] = list'[i].ptr
          PROVE  b = list'[i].block
      <3>1. CASE b = x
        BY <1>1, <2>2, <2>3, <2>6, <2>9, <3>1
      <3>2. CASE b # x
        <4>1. map'[b] = map[b] /\ b \in DOMAIN map /\ map[b] # p
          BY <1>1, <1>3, <1>5, <3>2
        <4>2. i \in 2 .. n + 1
          BY <2>2, <2>3, <2>9, <4>1
        <4> QED
          <5>1. list'[i] = list[i - 1] /\ i - 1 \in DOMAIN list
            BY <2>12, <4>2
          <5>2. map[b] = list[i - 1].ptr
            BY <2>9, <4>1, <5>1
          <5> QED
            BY <1>4, <4>1, <5>1, <5>2, SMT
      <3> QED
        BY <3>1, <3>2
    <2>10. CacheInv'
      BY <1>6, <2>1, <2>5, <2>7, <2>8, <2>9 DEF CacheInv
    <2>11. \A i \in DOMAIN list' : list'[i].ptr = p \/ \E k \in DOMAIN list : list'[i] = list[k]
      BY <2>1, <2>2, <2>3
    <2> QED
      BY <1>5, <2>1, <2>10, <2>11
  <1> QED
    BY <1>7, <1>8

\* lru_cache::set: whoever still copies from what it frees is hurt.
LEMMA SetStep ==
  ASSUME IInv, NEW t \in Threads, Set(t)
  PROVE  IInv'
  <1> DEFINE p == op[t].ptr
  <1>1. /\ pc[t] = "set" /\ Moved(t) /\ pc'[t] = "memcpy" /\ op'[t] = op[t]
        /\ UNCHANGED <<val, lost, bufLock, dma, table, issued, tfes>>
        /\ \A u \in Threads \ {t} : Sound(op'[u]) /\ pc'[u] = "memcpy" => op[u].ptr # Gone(t)
    BY SetFacts
  <1>2. /\ Allocated' = Allocated \ {Gone(t)}
        /\ mem'[p] = [data |-> op[t].dst, hurt |-> ~Sound(op[t])]
        /\ \A q \in Allocated' \ {p} : mem'[q] = mem[q]
        /\ mem' \in [Allocated' -> [data : Contents, hurt : BOOLEAN]]
    BY SetFacts
  <1>3. /\ DOMAIN map' = (DOMAIN map \ Dropped(t)) \union {op[t].block}
        /\ map'[op[t].block] = p
        /\ \A b \in DOMAIN map' \ {op[t].block} : map'[b] = map[b]
        /\ map' \in [DOMAIN map' -> Nat]
    BY SetFacts
  <1>4. /\ CacheInv' /\ list' \in Seq([block : Nat, ptr : Nat])
        /\ \A b \in DOMAIN map' \ {op[t].block} : b \in DOMAIN map /\ map[b] # Gone(t)
        /\ \A i \in DOMAIN list' : list'[i].ptr = p \/ \E k \in DOMAIN list : list'[i] = list[k]
    BY SetCache
  <1>5. /\ p \in Allocated /\ Gone(t) # p /\ op[t].block \in Nat /\ Pending(t)
        /\ \A u \in Threads \ {t} : Pending(u) => op[u].ptr # Gone(t)
    BY <1>1, GoneFacts
  <1>6. /\ \A u \in Threads \ {t} : Pending(u) => op[u].ptr # p /\ op[u].ptr \in Allocated
        /\ \A b \in DOMAIN map : map[b] # p /\ map[b] \in Allocated
    <2>1. pc[t] \in Busy
      BY <1>1 DEF Busy, PCs
    <2> QED
      BY <2>1, PtrFacts
  <1>7. Types'
    <2>1. Allocated' \subseteq Nat \ {0}
      BY <1>2 DEF IInv, Types
    <2>2. DOMAIN map' \subseteq Nat
      BY <1>3, <1>5 DEF IInv, Types
    <2> QED
      BY <1>1, <1>2, <1>3, <1>4, <2>1, <2>2 DEF IInv, Types, Moved, Buffers
  <1>8. SemInv'
    BY <1>1, SemKeep DEF IInv, Counted, Owner
  <1>9. OwnInv'
    BY <1>1, OwnKeep DEF IInv, Own
  <1>10. WaitInv'
    BY <1>1, WaitKeep DEF IInv
  <1>11. \A u \in Threads : Pending(u)' => u # t /\ Pending(u) /\ op'[u].ptr = op[u].ptr
    BY <1>1, MarkedFacts, SMT DEF IInv, Pending
  <1>12. PtrInv'
    <2>1. \A u \in Threads : /\ pc'[u] \in Busy /\ ~op'[u].cached => op'[u].ptr = 0
                             /\ pc'[u] = "set" => op'[u].cached
      <3> SUFFICES ASSUME NEW u \in Threads
                   PROVE  /\ pc'[u] \in Busy /\ ~op'[u].cached => op'[u].ptr = 0
                          /\ pc'[u] = "set" => op'[u].cached
        OBVIOUS
      <3>1. CASE u = t
        BY <1>1, <3>1 DEF Busy
      <3>2. CASE u # t
        <4>1. pc'[u] = pc[u] /\ op'[u].cached = op[u].cached /\ op'[u].ptr = op[u].ptr
          BY <1>1, <3>2, MarkedFacts DEF IInv
        <4> QED
          BY <4>1 DEF IInv, PtrInv, Busy
      <3> QED
        BY <3>1, <3>2
    <2>2. ASSUME NEW u \in Threads, Pending(u)'
          PROVE  /\ op'[u].ptr \in Allocated'
                 /\ \A v \in Threads \ {u} : Pending(v)' => op'[v].ptr # op'[u].ptr
                 /\ \A b \in DOMAIN map' : map'[b] # op'[u].ptr
                 /\ \A i \in DOMAIN list' : list'[i].ptr # op'[u].ptr
      <3>1. u # t /\ Pending(u) /\ op'[u].ptr = op[u].ptr
        BY <1>11, <2>2
      <3>2. op[u].ptr # p /\ op[u].ptr # Gone(t) /\ op[u].ptr \in Allocated
        BY <1>5, <1>6, <3>1
      <3>3. /\ \A v \in Threads \ {u} : Pending(v) => op[v].ptr # op[u].ptr
            /\ \A b \in DOMAIN map : map[b] # op[u].ptr
            /\ \A i \in DOMAIN list : list[i].ptr # op[u].ptr
        BY <3>1 DEF IInv, PtrInv
      <3>4. op[u].ptr \in Allocated'
        BY <1>2, <3>2
      <3>5. \A v \in Threads \ {u} : Pending(v)' => op'[v].ptr # op[u].ptr
        BY <1>11, <3>3
      <3>6. \A b \in DOMAIN map' : map'[b] # op[u].ptr
        BY <1>3, <1>4, <3>2, <3>3
      <3>7. \A i \in DOMAIN list' : list'[i].ptr # op[u].ptr
        BY <1>4, <3>2, <3>3
      <3> QED
        BY <3>1, <3>4, <3>5, <3>6, <3>7
    <2> QED
      BY <2>1, <2>2 DEF PtrInv, Busy
  <1>13. CopyInv'
    <2>1. p \in Allocated' /\ mem'[p].data = op[t].dst /\ mem'[p].hurt = ~Sound(op[t])
      BY <1>2, <1>5, SMT
    <2>2. Sound(op[t]) => op[t].dst = Sectors(Start + op[t].block * SectorsPerBlock, SectorsPerBlock)
      BY <1>1 DEF IInv, OwnInv, Own, Expected
    <2>3. ASSUME NEW b \in DOMAIN map' PROVE Holds(map[b], b)'
      <3>1. CASE b = op[t].block
        BY <1>3, <2>1, <2>2, <3>1 DEF Holds
      <3>2. CASE b # op[t].block
        <4>1. b \in DOMAIN map /\ map[b] # Gone(t) /\ map'[b] = map[b] /\ map[b] # p /\ map[b] \in Allocated
          BY <1>3, <1>4, <1>6, <3>2
        <4>2. Holds(map[b], b)
          BY <4>1 DEF IInv, CopyInv
        <4>3. map[b] \in Allocated' /\ mem'[map[b]] = mem[map[b]]
          BY <1>2, <4>1
        <4> QED
          BY <4>1, <4>2, <4>3 DEF Holds
      <3> QED
        BY <3>1, <3>2
    <2>4. ASSUME NEW u \in Threads, Sound(op'[u]), pc'[u] = "memcpy" PROVE Found(u)'
      <3>1. CASE u = t
        <4>1. Holds(op[u].ptr, op[u].block)'
          BY <1>1, <2>1, <2>2, <3>1 DEF Holds
        <4>2. \A v \in Threads : Pending(v)' => op'[v].ptr # op'[u].ptr
          BY <1>1, <1>6, <1>11, <3>1
        <4> QED
          BY <4>1, <4>2 DEF Found
      <3>2. CASE u # t
        <4>1. pc[u] = "memcpy" /\ op'[u] = op[u] /\ Sound(op[u]) /\ op[u].ptr # Gone(t)
          BY <1>1, <2>4, <3>2, MarkedFacts DEF IInv
        <4>2. Found(u)
          BY <4>1 DEF IInv, CopyInv
        <4>3. op[u].ptr \in Allocated /\ op[u].ptr # p
          BY <1>5, <4>2 DEF Found, Holds
        <4>4. op[u].ptr \in Allocated' /\ mem'[op[u].ptr] = mem[op[u].ptr]
          BY <1>2, <4>1, <4>3
        <4>5. Holds(op[u].ptr, op[u].block)'
          BY <4>1, <4>2, <4>4 DEF Found, Holds
        <4> QED
          BY <1>11, <4>1, <4>2, <4>5 DEF Found
      <3> QED
        BY <3>1, <3>2
    <2> QED
      BY <2>3, <2>4 DEF CopyInv
  <1> QED
    BY <1>4, <1>7, <1>8, <1>9, <1>10, <1>12, <1>13 DEF IInv

-----------------------------------------------------------------------------
(* Operators                                                               *)

\* Sequences with the same length and the same entries are the same.
LEMMA SameSeq ==
  ASSUME NEW S, NEW s \in Seq(S), NEW t \in Seq(S), Len(s) = Len(t),
         \A i \in 1 .. Len(s) : s[i] = t[i]
  PROVE  s = t
  BY SMT

\* The number of sectors of the next command.
LEMMA ToReadFacts ==
  ASSUME NEW o \in OpType
  PROVE  ToRead(o) \in Nat /\ ToRead(o) <= o.left /\ (o.left > 0 => ToRead(o) > 0)
  <1>1. o.left \in Nat /\ MaxSectors \in Nat
    BY ConstantFacts DEF OpType
  <1>2. ToRead(o) \in {o.left, MaxSectors} /\ \A y \in {o.left, MaxSectors} : ToRead(o) <= y
    <2>1. \E x \in {o.left, MaxSectors} : \A y \in {o.left, MaxSectors} : x =< y
      BY <1>1, SMT
    <2> QED
      BY <2>1 DEF ToRead, Min
  <1> QED
    BY <1>1, <1>2, ConstantFacts

\* Two runs of sectors, one behind the other, are one run.
LEMMA SectorsConcat ==
  ASSUME NEW a \in Nat, NEW n \in Nat, NEW k \in Nat
  PROVE  Sectors(a, n) \o Sectors(a + n, k) = Sectors(a, n + k)
  <1> DEFINE s == Sectors(a, n)
             t == Sectors(a + n, k)
             u == Sectors(a, n + k)
             S == Nat \union {Junk}
  <1>1. s \in Seq(S) /\ Len(s) = n /\ \A i \in 1 .. n : s[i] = a + i - 1
    BY SectorsFacts DEF Contents
  <1>2. t \in Seq(S) /\ Len(t) = k /\ \A i \in 1 .. k : t[i] = a + n + i - 1
    <2>1. a + n \in Nat
      BY SMT
    <2> QED
      BY <2>1, SectorsFacts DEF Contents
  <1>3. u \in Seq(S) /\ Len(u) = n + k /\ \A i \in 1 .. n + k : u[i] = a + i - 1
    BY SectorsFacts, SMT DEF Contents
  <1> HIDE DEF s, t, u, S
  <1>4. /\ s \o t \in Seq(S) /\ Len(s \o t) = n + k
        /\ \A i \in 1 .. n + k : (s \o t)[i] = IF i <= n THEN s[i] ELSE t[i - n]
    BY <1>1, <1>2, ConcatFacts, ZenonT(60)
  <1>5. ASSUME NEW i \in 1 .. n + k PROVE (s \o t)[i] = u[i]
    <2>1. CASE i <= n
      BY <1>1, <1>3, <1>4, <2>1, SMT
    <2>2. CASE ~(i <= n)
      <3>1. i - n \in 1 .. k
        BY <2>2, SMT
      <3>2. (s \o t)[i] = t[i - n] /\ t[i - n] = a + n + (i - n) - 1
        BY <1>2, <1>4, <2>2, <3>1
      <3> QED
        BY <1>3, <3>2, SMT
    <2> QED
      BY <2>1, <2>2
  <1>6. s \o t = u
    BY <1>3, <1>4, <1>5, SameSeq
  <1> QED
    BY <1>6 DEF s, t, u

-----------------------------------------------------------------------------
(* The buffers and the controller                                          *)

\* acquire_buffer takes a lock that is free, or looks at the next one.
LEMMA AcquireBufferStep ==
  ASSUME IInv, NEW t \in Threads, AcquireBuffer(t)
  PROVE  IInv'
  <1>1. pc[t] = "scan" /\ UNCHANGED <<val, lost, dma, table, issued, tfes, mem, map, list>>
    BY DEF AcquireBuffer, semaphore, cache
  <1>2. op[t] \in OpType /\ val \in Int /\ lost \in Nat /\ Buffers \in Nat
        /\ bufLock \in [DOMAIN bufLock -> Threads \union {NoThread, Junk}]
        /\ DOMAIN bufLock = 0 .. Buffers - 1
    BY TypesFacts DEF IInv
  <1>3. Owners /\ Units /\ op[t].idx \in Nat /\ op[t].idx <= Buffers
    BY <1>1, <1>2, SemParts DEF IInv, Owners, OpType
  <1>4. CASE op[t].idx = Buffers
    <2>1. UNCHANGED bufLock /\ GotoWith(t, "signal", Failed(op[t]))
      BY <1>4 DEF AcquireBuffer
    <2>2. Moved(t) /\ pc'[t] = "signal" /\ op'[t] = Failed(op[t])
      BY <1>2, <2>1, FailedFacts, MoveTo DEF IInv, PCs
    <2>3. SemInv'
      BY <1>1, <2>1, <2>2, SemKeep DEF IInv, Counted, Owner
    <2> QED
      BY <1>1, <1>2, <2>1, <2>2, <2>3, FailedFacts, Through, SMT DEF IInv, Busy, PCs
  <1>5. CASE op[t].idx # Buffers /\ bufLock[op[t].idx] # NoThread
    <2> DEFINE o == [op[t] EXCEPT !.idx = @ + 1]
    <2>1. UNCHANGED bufLock /\ GotoWith(t, "scan", o)
      BY <1>5 DEF AcquireBuffer
    <2>2. /\ o \in OpType /\ o.idx = op[t].idx + 1 /\ o.cached = op[t].cached /\ o.ptr = op[t].ptr
          /\ Sound(o) = Sound(op[t]) /\ o.left = op[t].left /\ o.lba = op[t].lba
          /\ o.block = op[t].block /\ o.dst = op[t].dst
      <3>1. op[t].idx + 1 \in Nat
        BY <1>3, SMT
      <3> QED
        BY <1>2, <3>1 DEF OpType, Sound
    <2> HIDE DEF o
    <2>3. Moved(t) /\ pc'[t] = "scan" /\ op'[t] = o
      BY <2>1, <2>2, MoveTo DEF IInv, PCs
    <2>4. op'[t].idx <= Buffers
      BY <1>2, <1>3, <1>5, <2>2, <2>3, SMT
    <2>5. SemInv'
      BY <1>1, <2>1, <2>3, <2>4, SemKeep DEF IInv, Counted, Owner
    <2>6. Sound(op'[t]) => Own(pc'[t], op'[t])
      BY <1>1, <2>2, <2>3 DEF IInv, OwnInv, Own, Partial, First
    <2> QED
      BY <1>1, <1>2, <2>1, <2>2, <2>3, <2>5, <2>6, Through DEF IInv, Busy, PCs
  <1>6. CASE op[t].idx # Buffers /\ bufLock[op[t].idx] = NoThread
    <2> DEFINE i == op[t].idx
    <2>1. bufLock' = [bufLock EXCEPT ![i] = t] /\ Goto(t, "read")
      BY <1>6 DEF AcquireBuffer
    <2>2. Moved(t) /\ pc'[t] = "read" /\ op'[t] = op[t]
      BY <2>1, MoveOn DEF IInv, PCs
    <2>3. /\ i \in DOMAIN bufLock /\ DOMAIN bufLock' = DOMAIN bufLock /\ bufLock'[i] = t
          /\ \A b \in DOMAIN bufLock \ {i} : bufLock'[b] = bufLock[b]
          /\ bufLock' \in [DOMAIN bufLock -> Threads \union {NoThread, Junk}]
      BY <1>2, <1>3, <1>6, <2>1, SMT
    <2>4. Buffers' = Buffers /\ Inside' = Inside
      BY <1>1, <2>2, <2>3, InsideKeep DEF Buffers, IInv, Counted
    <2>5. ASSUME NEW u \in Threads, pc'[u] \in Owner
          PROVE  op'[u].idx \in DOMAIN bufLock' /\ bufLock'[op'[u].idx] = u
      <3>1. CASE u = t
        BY <2>2, <2>3, <3>1
      <3>2. CASE u # t
        <4>1. pc[u] \in Owner /\ op'[u].idx = op[u].idx
          BY <2>2, <2>5, <3>2, MarkedFacts DEF IInv
        <4>2. op[u].idx \in DOMAIN bufLock /\ bufLock[op[u].idx] = u /\ op[u].idx # i
          BY <1>3, <1>6, <4>1, ConstantFacts, SMT DEF Owners
        <4> QED
          BY <2>3, <4>1, <4>2
      <3> QED
        BY <3>1, <3>2
    <2>6. ASSUME NEW u \in Threads, pc'[u] = "scan" PROVE op'[u].idx <= Buffers
      BY <1>3, <2>2, <2>6, MarkedFacts, SMT DEF IInv, Owners
    <2>7. ASSUME NEW b \in 0 .. Buffers - 1, bufLock'[b] \in Threads
          PROVE  pc'[bufLock'[b]] \in Owner /\ op'[bufLock'[b]].idx = b
      <3>1. CASE b = i
        BY <2>2, <2>3, <3>1 DEF Owner
      <3>2. CASE b # i
        <4>1. bufLock'[b] = bufLock[b]
          BY <1>2, <2>3, <3>2
        <4>2. pc[bufLock[b]] \in Owner /\ op[bufLock[b]].idx = b
          BY <1>3, <2>7, <4>1 DEF Owners
        <4>3. bufLock[b] # t
          BY <1>1, <4>2 DEF Owner
        <4> QED
          BY <2>2, <2>7, <4>1, <4>2, <4>3, MarkedFacts, SMT DEF IInv
      <3> QED
        BY <3>1, <3>2
    <2>8. Owners'
      BY <2>4, <2>5, <2>6, <2>7 DEF Owners
    <2>9. SemInv'
      BY <1>1, <1>3, <2>4, <2>8, SemParts DEF Units
    <2>10. Sound(op'[t]) => Own(pc'[t], op'[t])
      BY <1>1, <2>2 DEF IInv, OwnInv, Own
    <2>11. val' \in Int /\ lost' \in Nat /\ UNCHANGED <<dma, table, issued, tfes, mem, map, list>>
      BY <1>1, <1>2
    <2>12. pc[t] \in Busy /\ pc'[t] \notin {"set", "memcpy", "wait"} /\ pc[t] # "wait"
           /\ op'[t].cached = op[t].cached /\ op'[t].ptr = op[t].ptr
      BY <1>1, <2>2 DEF Busy, PCs
    <2>13. bufLock' \in [DOMAIN bufLock -> Threads \union {NoThread, Junk}]
      BY <2>3
    <2>14. Moved(t)
      BY <2>2
    <2> QED
      BY <2>9, <2>10, <2>11, <2>12, <2>13, <2>14, Through
  <1> QED
    BY <1>4, <1>5, <1>6

\* release_buffer frees the lock of the owner, and no other.
LEMMA ReleaseBufferStep ==
  ASSUME IInv, NEW t \in Threads, ReleaseBuffer(t)
  PROVE  IInv'
  <1> DEFINE i == op[t].idx
  <1>1. /\ pc[t] = "release" /\ Goto(t, "signal") /\ bufLock' = [bufLock EXCEPT ![i] = NoThread]
        /\ UNCHANGED <<val, lost, dma, table, issued, tfes, mem, map, list>>
    BY DEF ReleaseBuffer, semaphore, cache
  <1>2. op[t] \in OpType /\ val \in Int /\ lost \in Nat /\ Buffers \in Nat
        /\ bufLock \in [DOMAIN bufLock -> Threads \union {NoThread, Junk}]
        /\ DOMAIN bufLock = 0 .. Buffers - 1
    BY TypesFacts DEF IInv
  <1>3. Owners /\ Units /\ i \in DOMAIN bufLock /\ bufLock[i] = t
    BY <1>1, SemParts DEF IInv, Owners, Owner
  <1>4. Moved(t) /\ pc'[t] = "signal" /\ op'[t] = op[t]
    BY <1>1, MoveOn DEF IInv, PCs
  <1>5. /\ DOMAIN bufLock' = DOMAIN bufLock /\ bufLock'[i] = NoThread
        /\ \A b \in DOMAIN bufLock \ {i} : bufLock'[b] = bufLock[b]
        /\ bufLock' \in [DOMAIN bufLock -> Threads \union {NoThread, Junk}]
    BY <1>1, <1>2, <1>3
  <1>6. Buffers' = Buffers /\ Inside' = Inside
    BY <1>1, <1>4, <1>5, InsideKeep DEF Buffers, IInv, Counted
  <1>7. ASSUME NEW u \in Threads, pc'[u] \in Owner
        PROVE  op'[u].idx \in DOMAIN bufLock' /\ bufLock'[op'[u].idx] = u
    <2>1. u # t
      BY <1>4, <1>7 DEF Owner
    <2>2. pc[u] \in Owner /\ op'[u].idx = op[u].idx
      BY <1>4, <1>7, <2>1, MarkedFacts DEF IInv
    <2>3. op[u].idx \in DOMAIN bufLock /\ bufLock[op[u].idx] = u /\ op[u].idx # i
      BY <1>3, <2>1, <2>2 DEF Owners
    <2> QED
      BY <1>5, <2>2, <2>3
  <1>8. ASSUME NEW u \in Threads, pc'[u] = "scan" PROVE op'[u].idx <= Buffers
    BY <1>3, <1>4, <1>8, MarkedFacts, SMT DEF IInv, Owners
  <1>9. ASSUME NEW b \in 0 .. Buffers - 1, bufLock'[b] \in Threads
        PROVE  pc'[bufLock'[b]] \in Owner /\ op'[bufLock'[b]].idx = b
    <2>1. b # i /\ bufLock'[b] = bufLock[b]
      BY <1>2, <1>5, <1>9, ConstantFacts
    <2>2. pc[bufLock[b]] \in Owner /\ op[bufLock[b]].idx = b
      BY <1>3, <1>9, <2>1 DEF Owners
    <2> QED
      BY <1>4, <1>9, <2>1, <2>2, MarkedFacts, SMT DEF IInv
  <1>10. Owners'
    BY <1>6, <1>7, <1>8, <1>9 DEF Owners
  <1>11. SemInv'
    BY <1>1, <1>3, <1>6, <1>10, SemParts DEF Units
  <1>12. Sound(op'[t]) => Own(pc'[t], op'[t])
    BY <1>1, <1>4 DEF IInv, OwnInv, Own
  <1> QED
    BY <1>1, <1>2, <1>4, <1>5, <1>11, <1>12, Through DEF IInv, Busy, PCs

\* A chunk read for a request that is not hurt is the one behind what it has.
LEMMA CopyChunkStep ==
  ASSUME IInv, NEW t \in Threads, CopyChunk(t)
  PROVE  IInv'
  <1>1. /\ pc[t] = "wait" /\ op[t].slot \notin issued
        /\ UNCHANGED <<val, lost, bufLock, dma, table, issued, tfes, mem, map, list>>
    BY DEF CopyChunk, semaphore, port, cache
  <1>2. op[t] \in OpType /\ val \in Int /\ lost \in Nat /\ Buffers \in Nat
        /\ bufLock \in [DOMAIN bufLock -> Threads \union {NoThread, Junk}]
    BY TypesFacts DEF IInv
  <1>3. CASE tfes
    <2>1. GotoWith(t, "release", Failed(op[t]))
      BY <1>3 DEF CopyChunk
    <2>2. Moved(t) /\ pc'[t] = "release" /\ op'[t] = Failed(op[t])
      BY <1>2, <2>1, FailedFacts, MoveTo DEF IInv, PCs
    <2>3. ~Sound(op'[t]) /\ op'[t].cached = op[t].cached /\ op'[t].ptr = op[t].ptr
          /\ op'[t].idx = op[t].idx
      BY <1>2, <2>2, FailedFacts
    <2>4. SemInv'
      BY <1>1, <2>2, <2>3, SemKeep DEF IInv, Counted, Owner
    <2> QED
      BY <1>1, <1>2, <2>2, <2>3, <2>4, Through DEF IInv, Busy, PCs
  <1>4. CASE ~tfes
    <2> DEFINE o == Advanced(op[t])
               n == ToRead(op[t])
               done == SectorsPerBlock - op[t].left
    <2>1. GotoWith(t, IF o.left > 0 THEN "read" ELSE "release", o)
      BY <1>4 DEF CopyChunk
    <2>2. n \in Nat /\ n <= op[t].left /\ op[t].left \in Nat /\ op[t].lba \in Nat
      BY <1>2, ToReadFacts DEF OpType
    <2>3. op[t].idx \in DOMAIN bufLock /\ dma[op[t].idx] \in Contents
      BY <1>1, SemParts, SMT DEF IInv, Owners, Owner, Types
    <2>4. op[t].dst \o dma[op[t].idx] \in Contents /\ op[t].dst \in Contents
      BY <1>2, <2>3, ConcatFacts DEF Contents, OpType
    <2>5. /\ o \in OpType /\ o.cached = op[t].cached /\ o.ptr = op[t].ptr /\ Sound(o) = Sound(op[t])
          /\ o.idx = op[t].idx /\ o.block = op[t].block
          /\ o.left = op[t].left - n /\ o.lba = op[t].lba + n
          /\ o.dst = op[t].dst \o dma[op[t].idx]
      <3>1. op[t].left - n \in Nat /\ op[t].lba + n \in Nat
        BY <2>2, SMT
      <3> QED
        BY <1>2, <2>4, <3>1 DEF OpType, Advanced, Sound
    <2> HIDE DEF o, n, done
    <2>6. Moved(t) /\ pc'[t] = (IF o.left > 0 THEN "read" ELSE "release") /\ op'[t] = o
      BY <2>1, <2>5, MoveTo, SMT DEF IInv, PCs
    <2>7. SemInv'
      BY <1>1, <2>5, <2>6, SemKeep DEF IInv, Counted, Owner
    <2>8. ASSUME Sound(op'[t]) PROVE Own(pc'[t], op'[t])
      <3>1. Sound(op[t])
        BY <2>5, <2>6, <2>8
      <3>2. Partial(op[t]) /\ Alone(t)
        BY <1>1, <3>1 DEF IInv, OwnInv, Own, WaitInv
      <3>3. dma[op[t].idx] = Sectors(op[t].lba, n)
        BY <1>1, <1>4, <3>2 DEF Alone, n
      <3>4. op[t].block \in Nat /\ First(op[t]) \in Nat /\ First(o) = First(op[t])
        <4>1. op[t].block \in Nat /\ SectorsPerBlock \in Nat /\ Start \in Nat
          BY <1>2, ConstantFacts DEF OpType
        <4>2. op[t].block * SectorsPerBlock \in Nat
          BY <4>1, SMT
        <4>3. Start + op[t].block * SectorsPerBlock \in Nat
          BY <4>1, <4>2, SMT
        <4> QED
          BY <2>5, <4>1, <4>3 DEF First
      <3>5. /\ done \in Nat /\ op[t].lba = First(op[t]) + done
            /\ op[t].dst = Sectors(First(op[t]), done) /\ op[t].left \in 1 .. SectorsPerBlock
        BY <2>2, <3>2, ConstantFacts, SMT DEF Partial, done
      <3>6. o.dst = Sectors(First(op[t]), done + n)
        <4>1. Sectors(First(op[t]), done) \o Sectors(First(op[t]) + done, n)
                  = Sectors(First(op[t]), done + n)
          BY <2>2, <3>4, <3>5, SectorsConcat, ZenonT(60)
        <4> QED
          BY <2>5, <3>3, <3>5, <4>1
      <3>7. done + n = SectorsPerBlock - o.left /\ o.lba = First(op[t]) + (done + n)
        <4>1. o.left = op[t].left - n /\ o.lba = op[t].lba + n
          BY <2>5
        <4>2. o.lba = First(op[t]) + done + n
          BY <3>5, <4>1
        <4>3. o.lba = First(op[t]) + (done + n)
          BY <2>2, <3>4, <3>5, <4>2, SMT
        <4>4. done + n = SectorsPerBlock - o.left
          BY <2>2, <4>1, ConstantFacts, SMT DEF done
        <4> QED
          BY <4>3, <4>4
      <3>8. CASE o.left > 0
        <4>1. o.left \in 1 .. SectorsPerBlock
          BY <2>2, <2>5, <3>5, <3>8, ConstantFacts, SMT
        <4>2. Partial(o)
          BY <3>4, <3>6, <3>7, <4>1 DEF Partial
        <4> QED
          BY <2>6, <3>8, <4>2 DEF Own
      <3>9. CASE ~(o.left > 0)
        <4>1. done + n = SectorsPerBlock
          BY <2>2, <2>5, <3>7, <3>9, ConstantFacts, SMT
        <4>2. o.dst = Expected(o)
          BY <2>5, <3>6, <4>1 DEF Expected, First
        <4> QED
          BY <2>6, <3>9, <4>2 DEF Own
      <3> QED
        BY <3>8, <3>9
    <2> QED
      BY <1>1, <1>2, <2>5, <2>6, <2>7, <2>8, Through DEF IInv, Busy, PCs
  <1> QED
    BY <1>3, <1>4

\* do_read makes the command table its own, and hurts whoever waits for it.
LEMMA DoReadStep ==
  ASSUME IInv, NEW t \in Threads, DoRead(t)
  PROVE  IInv'
  <1> DEFINE others == {u \in Threads \ {t} : pc[u] = "wait"}
             c(u) == u \in others \/ (u = t /\ others # {})
             m(u) == [op[u] EXCEPT !.hurt = @ \/ c(u)]
             spoilt == [u \in Threads |-> m(u)]
  <1>1. /\ pc[t] = "read" /\ table' = [buf |-> op[t].idx, lba |-> op[t].lba, n |-> ToRead(op[t])]
        /\ UNCHANGED <<val, lost, bufLock, dma, tfes, mem, map, list>>
    BY DEF DoRead, semaphore, cache
  <1>2. \/ /\ issued' = issued \cup {op[t].slot}
           /\ pc' = [pc EXCEPT ![t] = "wait"] /\ op' = spoilt
        \/ /\ pc' = [pc EXCEPT ![t] = "release"]
           /\ op' = [spoilt EXCEPT ![t] = Failed(@)] /\ UNCHANGED issued
    <2>1. \A u \in Threads : m(u) = [op[u] EXCEPT !.hurt = @ \/ u \in others \/ (u = t /\ others # {})]
      OBVIOUS
    <2> QED
      BY <2>1 DEF DoRead
  <1>3. \A u \in Threads : op[u] \in OpType /\ c(u) \in BOOLEAN
    BY DEF IInv, Types
  <1>4. \A u \in Threads :
           /\ m(u) \in OpType /\ (m(u) = op[u] \/ m(u) = [op[u] EXCEPT !.hurt = TRUE])
           /\ c(u) => ~Sound(m(u))
           /\ Sound(m(u)) => m(u) = op[u] /\ Sound(op[u])
           /\ m(u).cached = op[u].cached /\ m(u).ptr = op[u].ptr
           /\ m(u).idx = op[u].idx /\ m(u).slot = op[u].slot
    <2> SUFFICES ASSUME NEW u \in Threads
                 PROVE  /\ m(u) \in OpType /\ (m(u) = op[u] \/ m(u) = [op[u] EXCEPT !.hurt = TRUE])
                        /\ c(u) => ~Sound(m(u))
                        /\ Sound(m(u)) => m(u) = op[u] /\ Sound(op[u])
                        /\ m(u).cached = op[u].cached /\ m(u).ptr = op[u].ptr
                        /\ m(u).idx = op[u].idx /\ m(u).slot = op[u].slot
      OBVIOUS
    <2>1. op[u] \in OpType /\ c(u) \in BOOLEAN
      BY <1>3
    <2> HIDE DEF c
    <2> QED
      BY <2>1, Marks, SMT
  <1> HIDE DEF m
  <1>5. Failed(m(t)) \in OpType /\ ~Sound(Failed(m(t))) /\ Failed(m(t)).cached = op[t].cached
        /\ Failed(m(t)).ptr = op[t].ptr /\ Failed(m(t)).idx = op[t].idx
    BY <1>4, FailedFacts, SMT
  <1>6. /\ Moved(t) /\ op'[t].cached = op[t].cached /\ op'[t].ptr = op[t].ptr /\ op'[t].idx = op[t].idx
        /\ \A u \in Threads : Sound(op'[u]) => op'[u] = op[u] /\ Sound(op[u]) /\ ~c(u)
        /\ \A u \in Threads \ {t} : op'[u] = m(u)
        /\ \/ pc'[t] = "wait" /\ issued' = issued \cup {op[t].slot} /\ op'[t].slot = op[t].slot
           \/ pc'[t] = "release" /\ ~Sound(op'[t]) /\ issued' = issued
    <2>1. CASE /\ issued' = issued \cup {op[t].slot}
               /\ pc' = [pc EXCEPT ![t] = "wait"] /\ op' = spoilt
      <3>1. pc' \in [Threads -> PCs] /\ op' \in [Threads -> OpType] /\ pc'[t] = "wait"
            /\ \A u \in Threads \ {t} : pc'[u] = pc[u]
        BY <1>4, <2>1 DEF IInv, Types, PCs
      <3>2. \A u \in Threads : op'[u] = m(u)
        BY <2>1
      <3> HIDE DEF c
      <3> QED
        BY <1>4, <2>1, <3>1, <3>2 DEF Moved
    <2>2. CASE /\ pc' = [pc EXCEPT ![t] = "release"]
               /\ op' = [spoilt EXCEPT ![t] = Failed(@)] /\ UNCHANGED issued
      <3>1. op' \in [Threads -> OpType] /\ op'[t] = Failed(m(t))
            /\ \A u \in Threads \ {t} : op'[u] = m(u)
        BY <1>4, <1>5, <2>2
      <3>2. pc' \in [Threads -> PCs] /\ pc'[t] = "release" /\ \A u \in Threads \ {t} : pc'[u] = pc[u]
        BY <2>2 DEF IInv, Types, PCs
      <3> HIDE DEF c
      <3> QED
        BY <1>4, <1>5, <2>2, <3>1, <3>2 DEF Moved
    <2> QED
      BY <1>2, <2>1, <2>2
  <1>7. Types'
    <2>1. op[t].idx \in Nat /\ op[t].lba \in Nat /\ op[t].slot \in Nat /\ ToRead(op[t]) \in Nat
      BY <1>3, ToReadFacts DEF OpType
    <2>2. table' \in [buf : Nat, lba : Nat, n : Nat]
      BY <1>1, <2>1
    <2>3. issued' \subseteq Nat
      BY <1>6, <2>1 DEF IInv, Types
    <2> QED
      BY <1>1, <1>6, <2>2, <2>3 DEF IInv, Types, Moved, Buffers, Allocated
  <1>8. SemInv'
    BY <1>1, <1>6, SemKeep DEF IInv, Counted, Owner
  <1>9. PtrInv' /\ CacheInv' /\ CopyInv'
    <2>1. Allocated' = Allocated /\ pc[t] \in Busy /\ pc'[t] \notin {"set", "memcpy"}
      BY <1>1, <1>6 DEF Allocated, Busy, PCs
    <2> QED
      BY <1>1, <1>6, <2>1, PtrKeep, CopyKeep DEF IInv
  <1>10. OwnInv'
    <2>1. Sound(op'[t]) => Own(pc'[t], op'[t])
      BY <1>1, <1>6 DEF IInv, OwnInv, Own
    <2> QED
      BY <1>6, <2>1, OwnKeep DEF IInv
  <1>11. WaitInv'
    <2>1. ASSUME NEW u \in Threads, Sound(op'[u]), pc'[u] = "wait" PROVE Alone(u)'
      <3>1. u = t
        BY <1>6, <2>1, MarkedFacts, SMT DEF IInv
      <3>2. others = {} /\ op'[t] = op[t] /\ op[t].slot \in issued'
        BY <1>6, <2>1, <3>1
      <3>3. \A v \in Threads \ {u} : pc'[v] # "wait"
        BY <1>6, <3>1, <3>2, MarkedFacts, SMT DEF IInv
      <3>4. ToRead(op'[t]) = ToRead(op[t])
        BY <3>2
      <3> QED
        BY <1>1, <3>1, <3>2, <3>3, <3>4 DEF Alone
    <2>2. ASSUME NEW x \in issued' PROVE \E u \in Threads : pc'[u] = "wait" /\ x = op'[u].slot
      <3>1. CASE x \in issued
        <4>1. PICK u \in Threads : pc[u] = "wait" /\ x = op[u].slot
          BY <3>1 DEF IInv, WaitInv
        <4>2. u # t
          BY <1>1, <4>1
        <4> QED
          BY <1>6, <4>1, <4>2, MarkedFacts, SMT DEF IInv
      <3>2. CASE x \notin issued
        BY <1>6, <2>2, <3>2
      <3> QED
        BY <3>1, <3>2
    <2> QED
      BY <2>1, <2>2 DEF WaitInv
  <1> QED
    BY <1>7, <1>8, <1>9, <1>10, <1>11 DEF IInv

\* What only the controller and a thread that waits for it look at is not part of
\* the other invariants.
LEMMA Frame ==
  ASSUME IInv, UNCHANGED <<pc, op, val, lost, bufLock, mem, map, list>>
  PROVE  SemInv' /\ PtrInv' /\ CacheInv' /\ OwnInv' /\ CopyInv'
  <1>1. Buffers' = Buffers /\ Allocated' = Allocated
    BY DEF Buffers, Allocated
  <1>2. SemInv'
    BY <1>1 DEF IInv, SemInv, SemaphoreExact
  <1>3. CacheInv'
    BY <1>1, SMT DEF IInv, CacheInv
  <1>4. PtrInv'
    BY <1>1 DEF IInv, PtrInv, Pending
  <1>5. OwnInv'
    BY DEF IInv, OwnInv
  <1>6. CopyInv'
    BY <1>1 DEF IInv, CopyInv, Found, Holds, Pending
  <1> QED
    BY <1>2, <1>3, <1>4, <1>5, <1>6

\* The controller ends a command: if its request is not hurt, the table is still the
\* request's.
LEMMA CompleteStep ==
  ASSUME IInv, NEW s, Complete(s)
  PROVE  IInv'
  <1>1. /\ s \in issued /\ issued' = issued \ {s}
        /\ UNCHANGED <<pc, op, val, lost, bufLock, table, mem, map, list>>
        /\ \/ dma' = [dma EXCEPT ![table.buf] = Sectors(table.lba, table.n)] /\ UNCHANGED tfes
           \/ tfes' = TRUE /\ UNCHANGED dma
    BY DEF Complete, semaphore, cache
  <1>2. Types'
    <2>1. Sectors(table.lba, table.n) \in Contents
      BY SectorsFacts DEF IInv, Types
    <2>2. dma' \in [DOMAIN bufLock -> Contents] /\ tfes' \in BOOLEAN
      BY <1>1, <2>1, ZenonT(60) DEF IInv, Types
    <2> QED
      BY <1>1, <2>2 DEF IInv, Types, Buffers, Allocated
  <1>3. SemInv' /\ PtrInv' /\ CacheInv' /\ OwnInv' /\ CopyInv'
    BY <1>1, Frame
  <1>5. ASSUME NEW t \in Threads, Sound(op'[t]), pc'[t] = "wait" PROVE Alone(t)'
    <2>1. pc[t] = "wait" /\ Sound(op[t]) /\ Alone(t)
      BY <1>1, <1>5 DEF IInv, WaitInv
    <2>2. op[t].slot = s
      BY <1>1, <2>1 DEF Alone, IInv, WaitInv
    <2>3. op[t].idx \in DOMAIN dma
      BY <2>1 DEF IInv, SemInv, Types
    <2>4. ~tfes' => dma'[op[t].idx] = Sectors(op[t].lba, ToRead(op[t]))
      BY <1>1, <2>1, <2>3 DEF Alone
    <2> QED
      BY <1>1, <2>1, <2>4 DEF Alone, ToRead
  <1>6. WaitInv'
    BY <1>1, <1>5 DEF IInv, WaitInv
  <1> QED
    BY <1>2, <1>3, <1>6 DEF IInv

-----------------------------------------------------------------------------
(* The rest of Next                                                        *)

\* A step that changes none of what threads, port and cache share.
LEMMA SameIInv ==
  ASSUME IInv, UNCHANGED <<pc, op, semaphore, port, cache>>
  PROVE  IInv'
  <1>1. UNCHANGED <<pc, op, val, lost, bufLock, dma, table, issued, tfes, mem, map, list>>
    BY DEF semaphore, port, cache
  <1>2. Types'
    <2>1. Buffers' = Buffers /\ Allocated' = Allocated
      BY <1>1 DEF Buffers, Allocated
    <2> QED
      BY <1>1, <2>1 DEF IInv, Types
  <1>3. SemInv' /\ PtrInv' /\ CacheInv' /\ OwnInv' /\ CopyInv'
    BY <1>1, Frame
  <1>4. WaitInv'
    BY <1>1 DEF IInv, WaitInv, Alone, ToRead
  <1> QED
    BY <1>2, <1>3, <1>4 DEF IInv

\* ahci::initialize touches nothing that the threads share.
LEMMA BootStep ==
  ASSUME IInv, \/ Initialize \/ TakeControllerOwnership \/ RegisterAhciDisk \/ IdentifyDevice
               \/ Parse \/ InitializePartitions \/ Ext2Init \/ Ext2Volume \/ AhciController
  PROVE  IInv'
  <1>1. UNCHANGED <<pc, op, semaphore, port, cache>>
    BY DEF Initialize, TakeControllerOwnership, RegisterAhciDisk, IdentifyDevice, Parse,
           InitializePartitions, Ext2Init, Ext2Volume, AhciController, Boot
  <1> QED
    BY <1>1, SameIInv

\* A step allocates at most one block of memory, the one malloc returns.
LEMMA AllocatedStep ==
  ASSUME [Next]_vars
  PROVE  Allocated' \subseteq Allocated \union {NewPtr}
  <1>1. ASSUME mem' = mem PROVE Allocated' \subseteq Allocated \union {NewPtr}
    BY <1>1 DEF Allocated
  <1>2. CASE \/ Initialize \/ TakeControllerOwnership \/ RegisterAhciDisk \/ IdentifyDevice
             \/ Parse \/ InitializePartitions \/ Ext2Init \/ Ext2Volume \/ AhciController
    <2>1. mem' = mem
      BY <1>2 DEF Initialize, TakeControllerOwnership, RegisterAhciDisk, IdentifyDevice, Parse,
             InitializePartitions, Ext2Init, Ext2Volume, AhciController, Boot, cache
    <2> QED
      BY <1>1, <2>1
  <1>3. ASSUME NEW t \in Threads, Set(t) PROVE Allocated' \subseteq Allocated
    BY <1>3 DEF Set, Allocated
  <1>4. ASSUME NEW t \in Threads, FindCmdSlot(t) PROVE Allocated' \subseteq Allocated
    BY <1>4 DEF FindCmdSlot, Allocated
  <1>5. ASSUME NEW t \in Threads, Step(t) PROVE Allocated' \subseteq Allocated \union {NewPtr}
    <2>1. CASE Set(t) \/ FindCmdSlot(t)
      BY <1>3, <1>4, <2>1
    <2>2. CASE ~(Set(t) \/ FindCmdSlot(t))
      <3>1. mem' = mem
        BY <1>5, <2>2 DEF Step, Memcpy, Return, SemaphoreWait, WaitTimesOut, WaitResumed, AcquireBuffer, DoRead,
               CopyChunk, ReleaseBuffer, Signal, cache
      <3> QED
        BY <1>1, <3>1
    <2> QED
      BY <2>1, <2>2
  <1>6. ASSUME NEW t \in Threads, NEW b, NEW cached, ReadBlock(t, b, cached)
        PROVE  Allocated' \subseteq Allocated \union {NewPtr}
    <2>1. mem' = mem \/ mem' = Put(mem, NewPtr, [data |-> NoData, hurt |-> FALSE])
      BY <1>6 DEF ReadBlock
    <2> HIDE DEF NewPtr
    <2> QED
      BY <1>1, <2>1 DEF Put, Allocated
  <1>7. ASSUME NEW s \in 0 .. Slots - 1, Complete(s) PROVE mem' = mem
    BY <1>7 DEF Complete, cache
  <1>8. CASE UNCHANGED vars
    BY <1>1, <1>8 DEF vars, cache
  <1> QED
    BY <1>1, <1>2, <1>5, <1>6, <1>7, <1>8 DEF Next

-----------------------------------------------------------------------------
(* What rests on the library: the least of a set, and the sizes of sets    *)

INSTANCE FiniteSetTheorems

\* A set of natural numbers has a least element.
LEMMA LeastNat ==
  ASSUME NEW S \in SUBSET Nat, S # {}
  PROVE  \E x \in S : \A y \in S : x <= y
  <1>1. IsWellFoundedOn({ss \in Nat \X Nat : ss[1] < ss[2]}, Nat)
    BY NatLessThanWellFounded DEF OpToRel
  <1>2. PICK x \in S : \A y \in S : ~(<<y, x>> \in {ss \in Nat \X Nat : ss[1] < ss[2]})
    BY <1>1, WFMin
  <1>3. \A y \in S : ~(y < x)
    BY <1>2
  <1> QED
    BY <1>3, SMT

\* Min of a set of natural numbers is its least element.
LEMMA MinFacts ==
  ASSUME NEW S \in SUBSET Nat, S # {}
  PROVE  Min(S) \in S /\ \A y \in S : Min(S) <= y
  <1>1. \E x \in S : \A y \in S : x =< y
    BY LeastNat
  <1> QED
    BY <1>1 DEF Min

\* find_cmdslot takes the number of a slot.
LEMMA IdleSlotsFacts ==
  ASSUME IdleSlots # {}
  PROVE  Min(IdleSlots) \in Nat
  <1>1. IdleSlots \in SUBSET Nat
    BY DiskAssumption, SMT DEF IdleSlots
  <1> QED
    BY <1>1, MinFacts

\* malloc returns memory that nobody has.
LEMMA NewPtrFacts ==
  ASSUME IsFiniteSet(Allocated)
  PROVE  NewPtr \in Nat \ {0} /\ NewPtr \notin Allocated
  <1> DEFINE n == Cardinality(Allocated)
  <1>1. n \in Nat
    BY FS_CardinalityType
  <1> HIDE DEF n
  <1>2. IsFiniteSet(1 .. n + 1) /\ Cardinality(1 .. n + 1) = n + 1
    <2>1. n + 1 \in Int /\ 1 \in Int
      BY <1>1, SMT
    <2>2. Cardinality(1 .. n + 1) = IF 1 > n + 1 THEN 0 ELSE (n + 1) - 1 + 1
      BY <2>1, FS_Interval
    <2> QED
      BY <1>1, <2>1, <2>2, FS_Interval, SMT
  <1>3. \E p \in 1 .. n + 1 : p \notin Allocated
    <2> SUFFICES ASSUME 1 .. n + 1 \subseteq Allocated PROVE FALSE
      OBVIOUS
    <2>1. Cardinality(1 .. n + 1) <= Cardinality(Allocated)
      BY FS_Subset
    <2>2. n + 1 <= n
      BY <1>2, <2>1 DEF n
    <2> QED
      BY <1>1, <2>2, SMT
  <1>4. NewPtr \in 1 .. n + 1 /\ NewPtr \notin Allocated
    BY <1>3 DEF NewPtr, n
  <1> QED
    BY <1>1, <1>4, SMT

\* The requests that hold a unit can be counted.
LEMMA InsideFinite == IsFiniteSet(Inside) /\ Cardinality(Inside) \in Nat
  <1>1. Inside \subseteq Threads /\ IsFiniteSet(Threads)
    BY DiskAssumption DEF Inside
  <1> QED
    BY <1>1, FS_Subset, FS_CardinalityType

\* semaphore::wait adds one request to those that hold a unit.
LEMMA InsideEnters ==
  ASSUME Types, NEW t \in Threads, Moved(t), pc'[t] \in Counted, pc[t] \notin Counted
  PROVE  Cardinality(Inside)' = Cardinality(Inside) + 1
  <1>1. Inside' = Inside \union {t} /\ t \notin Inside
    BY MarkedFacts DEF Inside
  <1>2. Cardinality(Inside \union {t}) = Cardinality(Inside) + 1
    BY <1>1, InsideFinite, FS_AddElement
  <1> QED
    BY <1>1, <1>2

\* semaphore::signal, or a wait that times out, takes one away.
LEMMA InsideLeaves ==
  ASSUME Types, NEW t \in Threads, Moved(t), pc'[t] \notin Counted, pc[t] \in Counted
  PROVE  Cardinality(Inside)' = Cardinality(Inside) - 1
  <1>1. Inside' = Inside \ {t} /\ t \in Inside
    BY MarkedFacts DEF Inside
  <1>2. Cardinality(Inside \ {t}) = Cardinality(Inside) - 1
    BY <1>1, InsideFinite, FS_RemoveElement
  <1> QED
    BY <1>1, <1>2

\* semaphore::wait takes a unit, also when it has to block.
LEMMA SemaphoreWaitStep ==
  ASSUME IInv, NEW t \in Threads, SemaphoreWait(t)
  PROVE  IInv'
  <1>1. /\ pc[t] = "sem" /\ val' = val - 1
        /\ \/ Goto(t, "blocked")
           \/ GotoWith(t, "scan", [op[t] EXCEPT !.idx = 0])
        /\ UNCHANGED <<lost, bufLock, dma, table, issued, tfes, mem, map, list>>
    BY DEF SemaphoreWait, port, cache
  <1>2. op[t] \in OpType /\ val \in Int /\ lost \in Nat /\ Buffers \in Nat
        /\ bufLock \in [DOMAIN bufLock -> Threads \union {NoThread, Junk}]
    BY TypesFacts DEF IInv
  <1>3. /\ Moved(t) /\ pc'[t] \in {"blocked", "scan"} /\ (pc'[t] = "scan" => op'[t].idx = 0)
        /\ op'[t] \in {op[t], [op[t] EXCEPT !.idx = 0]}
    <2>1. CASE Goto(t, "blocked")
      BY <2>1, MoveOn DEF IInv, PCs
    <2>2. CASE GotoWith(t, "scan", [op[t] EXCEPT !.idx = 0])
      <3>1. [op[t] EXCEPT !.idx = 0] \in OpType /\ [op[t] EXCEPT !.idx = 0].idx = 0
        BY <1>2 DEF OpType
      <3> QED
        BY <2>2, <3>1, MoveTo DEF IInv, PCs
    <2> QED
      BY <1>1, <2>1, <2>2
  <1>4. SemInv'
    <2>1. Owners /\ Units
      BY SemParts DEF IInv
    <2>2. Owners'
      BY <1>1, <1>2, <1>3, <2>1, OwnersKeep, SMT DEF IInv, Owner
    <2>3. Cardinality(Inside)' = Cardinality(Inside) + 1
      BY <1>1, <1>3, InsideEnters DEF IInv, Counted
    <2>4. Units'
      <3>1. Buffers' = Buffers
        BY <1>1 DEF Buffers
      <3>2. Cardinality(Inside) \in Nat
        BY InsideFinite
      <3> QED
        BY <1>1, <1>2, <2>1, <2>3, <3>1, <3>2, SMT DEF Units
    <2> QED
      BY <2>2, <2>4, SemParts
  <1>5. /\ op'[t].cached = op[t].cached /\ op'[t].ptr = op[t].ptr /\ Sound(op'[t]) = Sound(op[t])
        /\ op'[t].left = op[t].left /\ op'[t].lba = op[t].lba /\ op'[t].block = op[t].block
        /\ op'[t].dst = op[t].dst
    BY <1>2, <1>3 DEF OpType, Sound
  <1>6. Sound(op'[t]) => Own(pc'[t], op'[t])
    BY <1>1, <1>3, <1>5 DEF IInv, OwnInv, Own, Partial, First
  <1> QED
    BY <1>1, <1>2, <1>3, <1>4, <1>5, <1>6, Through, SMT DEF IInv, Busy, PCs

\* do_disk_read's answer ends a request, or takes it to the cache.
LEMMA AnsweredFacts ==
  ASSUME IInv, NEW t \in Threads, NEW o \in OpType, Answered(t, o)
  PROVE  Moved(t) /\ pc'[t] = (IF o.cached THEN "set" ELSE "done") /\ op'[t] = o
  BY MoveTo DEF Answered, IInv, PCs

\* A wait that timed out has lost its unit.
LEMMA WaitTimesOutStep ==
  ASSUME IInv, NEW t \in Threads, WaitTimesOut(t)
  PROVE  IInv'
  <1>1. /\ pc[t] = "blocked" /\ lost' = lost + 1 /\ Answered(t, Failed(op[t]))
        /\ UNCHANGED <<val, bufLock, dma, table, issued, tfes, mem, map, list>>
    BY DEF WaitTimesOut, port, cache
  <1>2. op[t] \in OpType /\ val \in Int /\ lost \in Nat /\ Buffers \in Nat
        /\ bufLock \in [DOMAIN bufLock -> Threads \union {NoThread, Junk}]
    BY TypesFacts DEF IInv
  <1>3. /\ Moved(t) /\ pc'[t] \in {"set", "done"} /\ (pc'[t] = "set" => op[t].cached) /\ ~Sound(op'[t])
        /\ op'[t].cached = op[t].cached /\ op'[t].ptr = op[t].ptr
    BY <1>1, <1>2, FailedFacts, AnsweredFacts, SMT
  <1>4. SemInv'
    <2>1. Owners /\ Units
      BY SemParts DEF IInv
    <2>2. Owners'
      BY <1>1, <1>3, <2>1, OwnersKeep DEF IInv, Owner
    <2>3. Cardinality(Inside)' = Cardinality(Inside) - 1
      BY <1>1, <1>3, InsideLeaves DEF IInv, Counted
    <2>4. Units'
      <3>1. Buffers' = Buffers
        BY <1>1 DEF Buffers
      <3>2. Cardinality(Inside) \in Nat
        BY InsideFinite
      <3> QED
        BY <1>1, <1>2, <2>1, <2>3, <3>1, <3>2, SMT DEF Units
    <2> QED
      BY <2>2, <2>4, SemParts
  <1> QED
    BY <1>1, <1>2, <1>3, <1>4, Through, SMT DEF IInv, Busy, PCs

\* A wait that the scheduler resumed goes on as if it had its unit.
LEMMA WaitResumedStep ==
  ASSUME IInv, NEW t \in Threads, WaitResumed(t)
  PROVE  IInv'
  <1> DEFINE o == [op[t] EXCEPT !.idx = 0]
  <1>1. /\ pc[t] = "blocked" /\ GotoWith(t, "scan", o)
        /\ UNCHANGED <<val, lost, bufLock, dma, table, issued, tfes, mem, map, list>>
    BY DEF WaitResumed, port, cache
  <1>2. op[t] \in OpType /\ val \in Int /\ lost \in Nat /\ Buffers \in Nat
        /\ bufLock \in [DOMAIN bufLock -> Threads \union {NoThread, Junk}]
    BY TypesFacts DEF IInv
  <1>3. /\ o \in OpType /\ o.cached = op[t].cached /\ o.ptr = op[t].ptr /\ Sound(o) = Sound(op[t])
        /\ o.left = op[t].left /\ o.lba = op[t].lba /\ o.dst = op[t].dst /\ o.block = op[t].block
        /\ o.idx = 0
    BY <1>2, SMT DEF OpType, Sound
  <1>4. Moved(t) /\ pc'[t] = "scan" /\ op'[t] = o
    BY <1>1, <1>3, MoveTo DEF IInv, PCs
  <1>5. 0 <= Buffers
    BY <1>2, SMT
  <1>6. SemInv'
    BY <1>1, <1>3, <1>4, <1>5, SemKeep DEF IInv, Counted, Owner
  <1>7. Sound(op'[t]) => Own(pc'[t], op'[t])
    <2>1. Partial(o) <=> Partial(op[t])
      BY <1>3 DEF Partial, First
    <2> QED
      BY <1>1, <1>3, <1>4, <2>1 DEF IInv, OwnInv, Own
  <1> HIDE DEF o
  <1> QED
    BY <1>1, <1>2, <1>3, <1>4, <1>6, <1>7, Through, SMT DEF IInv, Busy, PCs

\* semaphore::signal gives the unit back.
LEMMA SignalStep ==
  ASSUME IInv, NEW t \in Threads, Signal(t)
  PROVE  IInv'
  <1>1. /\ pc[t] = "signal" /\ val' = val + 1 /\ Answered(t, op[t])
        /\ UNCHANGED <<lost, bufLock, dma, table, issued, tfes, mem, map, list>>
    BY DEF Signal, port, cache
  <1>2. op[t] \in OpType /\ val \in Int /\ lost \in Nat /\ Buffers \in Nat
        /\ bufLock \in [DOMAIN bufLock -> Threads \union {NoThread, Junk}]
    BY TypesFacts DEF IInv
  <1>3. Moved(t) /\ pc'[t] \in {"set", "done"} /\ (pc'[t] = "set" => op[t].cached) /\ op'[t] = op[t]
    BY <1>1, <1>2, AnsweredFacts, SMT
  <1>4. SemInv'
    <2>1. Owners /\ Units
      BY SemParts DEF IInv
    <2>2. Owners'
      BY <1>1, <1>3, <2>1, OwnersKeep DEF IInv, Owner
    <2>3. Cardinality(Inside)' = Cardinality(Inside) - 1
      BY <1>1, <1>3, InsideLeaves DEF IInv, Counted
    <2>4. Units'
      <3>1. Buffers' = Buffers
        BY <1>1 DEF Buffers
      <3>2. Cardinality(Inside) \in Nat
        BY InsideFinite
      <3> QED
        BY <1>1, <1>2, <2>1, <2>3, <3>1, <3>2, SMT DEF Units
    <2> QED
      BY <2>2, <2>4, SemParts
  <1>5. Sound(op'[t]) => Own(pc'[t], op'[t])
    BY <1>1, <1>3 DEF IInv, OwnInv, Own
  <1> QED
    BY <1>1, <1>2, <1>3, <1>4, <1>5, Through, SMT DEF IInv, Busy, PCs

\* Before the first request.
LEMMA InitFull == Init => FullInv
  <1> SUFFICES ASSUME Init PROVE FullInv
    OBVIOUS
  <1>1. PICK n \in DOMAIN Budget : /\ val = n /\ bufLock \in [0 .. n - 1 -> {NoThread, Junk}]
                                   /\ dma = [b \in 0 .. n - 1 |-> <<>>]
    BY DEF Init
  <1>2. n \in Nat /\ n > 0
    BY DiskAssumption, SMT
  <1>3. DOMAIN bufLock = 0 .. n - 1 /\ Buffers = n
    <2>1. DOMAIN bufLock = 0 .. n - 1
      BY <1>1
    <2>2. Cardinality(0 .. n - 1) = IF 0 > n - 1 THEN 0 ELSE (n - 1) - 0 + 1
      BY <1>2, FS_Interval, SMT
    <2>3. Cardinality(0 .. n - 1) = n
      BY <1>2, <2>2, SMT
    <2> QED
      BY <2>1, <2>3 DEF Buffers
  <1>4. /\ pc = [t \in Threads |-> "idle"] /\ op = [t \in Threads |-> Idle] /\ lost = 0
        /\ table = [buf |-> 0, lba |-> 0, n |-> 0] /\ issued = {} /\ tfes = FALSE
        /\ mem = [p \in {} |-> 0] /\ map = [b \in {} |-> 0] /\ list = <<>>
    BY DEF Init
  <1>5. DOMAIN mem = {} /\ DOMAIN map = {} /\ DOMAIN list = {} /\ Len(list) = 0
    BY <1>4, SMT
  <1>6. Types
    <2>1. pc \in [Threads -> PCs] /\ op \in [Threads -> OpType]
      BY <1>4, IdleFacts DEF PCs
    <2>2. dma \in [DOMAIN bufLock -> Contents]
      BY <1>1, <1>3, EmptyFacts DEF Contents
    <2>3. bufLock \in [DOMAIN bufLock -> Threads \union {NoThread, Junk}]
      BY <1>1, <1>3
    <2>4. Allocated = {} /\ mem \in [Allocated -> [data : Contents, hurt : BOOLEAN]]
      BY <1>4, <1>5 DEF Allocated
    <2>5. DOMAIN map \subseteq Nat /\ map \in [DOMAIN map -> Nat]
      BY <1>4, <1>5
    <2>6. list \in Seq([block : Nat, ptr : Nat])
      BY <1>4, EmptyFacts
    <2>7. lost \in Nat /\ issued \subseteq Nat /\ tfes \in BOOLEAN
      BY <1>4
    <2>9. val \in Int /\ Buffers \in Nat /\ DOMAIN bufLock = 0 .. Buffers - 1
      <3>1. val = n
        BY <1>1
      <3> QED
        BY <1>2, <1>3, <3>1, SMT
    <2>8. table \in [buf : Nat, lba : Nat, n : Nat] /\ Allocated \subseteq Nat \ {0}
      BY <1>4, <2>4
    <2> QED
      BY <2>1, <2>2, <2>3, <2>4, <2>5, <2>6, <2>7, <2>8, <2>9, SMT DEF Types
  <1>7. SemInv
    <2>1. Inside = {} /\ Cardinality(Inside) = 0
      BY <1>4, FS_EmptySet DEF Inside, Counted
    <2>2. Units
      BY <1>1, <1>2, <1>3, <1>4, <2>1, SMT DEF Units
    <2>3. \A b \in 0 .. Buffers - 1 : bufLock[b] \notin Threads
      BY <1>1, <1>3, ConstantFacts
    <2>4. Owners
      BY <1>4, <2>3 DEF Owners, Owner
    <2> QED
      BY <2>2, <2>4, SemParts
  <1>8. PtrInv /\ OwnInv
    BY <1>4 DEF PtrInv, Pending, OwnInv, Own
  <1>9. CacheInv
    BY <1>5, ConstantFacts, SMT DEF CacheInv
  <1>10. CopyInv /\ WaitInv
    BY <1>4, <1>5 DEF CopyInv, WaitInv
  <1>11. IsFiniteSet(Allocated)
    BY <1>5, FS_EmptySet DEF Allocated
  <1> QED
    BY <1>6, <1>7, <1>8, <1>9, <1>10, <1>11 DEF IInv, FullInv

\* Every step keeps the invariant.
LEMMA NextFull == FullInv /\ [Next]_vars => FullInv'
  <1> SUFFICES ASSUME FullInv, [Next]_vars PROVE FullInv'
    OBVIOUS
  <1>a. IInv /\ NewPtr \in Nat \ {0} /\ NewPtr \notin Allocated
        /\ (IdleSlots # {} => Min(IdleSlots) \in Nat)
    BY NewPtrFacts, IdleSlotsFacts DEF FullInv
  <1>b. IsFiniteSet(Allocated)'
    <2>1. IsFiniteSet(Allocated \union {NewPtr})
      BY FS_AddElement DEF FullInv
    <2> QED
      BY <2>1, AllocatedStep, FS_Subset
  <1>1. ASSUME \/ Initialize \/ TakeControllerOwnership \/ RegisterAhciDisk \/ IdentifyDevice
               \/ Parse \/ InitializePartitions \/ Ext2Init \/ Ext2Volume \/ AhciController
        PROVE  IInv'
    BY <1>a, <1>1, BootStep
  <1>2. ASSUME NEW t \in Threads, Step(t) PROVE IInv'
    BY <1>a, <1>2, SetStep, MemcpyStep, ReturnStep, FindCmdSlotStep, SemaphoreWaitStep,
       WaitTimesOutStep, WaitResumedStep, AcquireBufferStep, DoReadStep, CopyChunkStep, ReleaseBufferStep,
       SignalStep, SMT DEF Step
  <1>3. ASSUME NEW t \in Threads, NEW r \in Requests, ReadBlock(t, r[1], r[2]) PROVE IInv'
    <2>1. r[1] \in Nat /\ r[2] \in BOOLEAN
      BY DiskAssumption
    <2> QED
      BY <1>a, <1>3, <2>1, ReadBlockStep
  <1>4. ASSUME NEW s \in 0 .. Slots - 1, Complete(s) PROVE IInv'
    BY <1>a, <1>4, CompleteStep
  <1>5. ASSUME UNCHANGED vars PROVE IInv'
    BY <1>a, <1>5, SameIInv DEF vars
  <1> QED
    BY <1>b, <1>1, <1>2, <1>3, <1>4, <1>5, SMT DEF Next, FullInv

\* The inductive invariant of the storage stack: at most one owner per DMA buffer
\* and per block of memory, a cache that names what is allocated, and what every
\* request has read so far.
THEOREM IInvHolds == Spec => []IInv
  <1>1. Init => FullInv
    BY InitFull
  <1>2. FullInv /\ [Next]_vars => FullInv'
    BY NextFull
  <1>3. FullInv => IInv
    BY DEF FullInv
  <1> QED
    BY <1>1, <1>2, <1>3, PTL DEF Spec

-----------------------------------------------------------------------------
(* What it says about the code                                             *)

\* For any number of threads and buffers: semaphore::wait and signal keep the
\* buffer semaphore at the number of buffers less the requests between them, less
\* one unit for every wait that timed out; a DMA buffer has one owner.
THEOREM ExactSemaphore == Spec => []SemaphoreExact
  <1>1. IInv => SemaphoreExact
    BY DEF IInv, SemInv
  <1> QED
    BY <1>1, IInvHolds, PTL

\* Keys that are distinct along the list are counted by its length.
LEMMA KeysCounted ==
  ASSUME IInv
  PROVE  Cardinality(DOMAIN map) = Len(list)
  <1> DEFINE n == Len(list)
             f == [i \in 1 .. n |-> list[i].block]
  <1>1. n \in Nat /\ DOMAIN list = 1 .. n
    BY LenFacts DEF IInv, Types
  <1>2. /\ DOMAIN map = {list[i].block : i \in 1 .. n}
        /\ \A i, k \in 1 .. n : list[i].block = list[k].block => i = k
    BY <1>1 DEF IInv, CacheInv
  <1>3. f \in Bijection(1 .. n, DOMAIN map)
    <2>1. f \in [1 .. n -> DOMAIN map]
      BY <1>2
    <2>2. \A i, k \in 1 .. n : f[i] = f[k] => i = k
      BY <1>2
    <2>3. \A b \in DOMAIN map : \E i \in 1 .. n : f[i] = b
      BY <1>2
    <2> HIDE DEF f
    <2> QED
      BY <2>1, <2>2, <2>3 DEF Bijection, Injection, Surjection, IsInjective
  <1> HIDE DEF n, f
  <1>4. ExistsBijection(1 .. n, DOMAIN map)
    BY <1>3 DEF ExistsBijection
  <1>5. Cardinality(DOMAIN map) = n
    BY <1>1, <1>4, FS_CountingElements, SMT
  <1> QED
    BY <1>5 DEF n

\* For any capacity and any interleaving: lru_cache's map and list name the same
\* keys, at most Capacity, and point only to memory that was not freed.
THEOREM ExactCache == Spec => []CacheExact
  <1>1. IInv => CacheExact
    BY KeysCounted DEF IInv, CacheInv, CacheExact
  <1> QED
    BY <1>1, IInvHolds, PTL

\* For any sizes of block, buffer and cache: read_block hands out the sectors of
\* the block it was asked for, and the cache keeps nothing else, unless the request
\* met an error or shared the command table.
THEOREM RightReads == Spec => []ReadIsRight
  <1>1. IInv => ReadIsRight
    <2> SUFFICES ASSUME IInv PROVE ReadIsRight
      OBVIOUS
    <2>1. \A t \in Threads : (pc[t] = "done" /\ Sound(op[t])) => op[t].dst = Expected(op[t])
      BY DEF IInv, OwnInv, Own
    <2>2. ASSUME NEW b \in DOMAIN map, ~mem[map[b]].hurt
          PROVE  mem[map[b]].data = Expected([Idle EXCEPT !.block = b])
      <3>1. [Idle EXCEPT !.block = b].block = b
        BY DEF Idle
      <3> QED
        BY <2>2, <3>1 DEF IInv, CopyInv, Holds, Expected
    <2> QED
      BY <2>1, <2>2 DEF ReadIsRight
  <1> QED
    BY <1>1, IInvHolds, PTL
=============================================================================
