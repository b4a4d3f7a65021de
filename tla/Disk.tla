-------------------------------- MODULE Disk --------------------------------
(***************************************************************************)
(* The storage stack below a mounted ext2 volume: ext2_volume::read_block  *)
(* and its lru_cache, the partition, the AHCI port with its pool of DMA    *)
(* buffers, its command slots and its one command table, and the           *)
(* semaphore that counts the buffers.  A sector's contents are its LBA;    *)
(* Junk is memory nothing was read into.  Threads interleave between any   *)
(* two accesses to what they share; lru_cache::get and set are atomic      *)
(* (RWLock shows that for the lock they hold).                             *)
(*                                                                         *)
(* Three marks are history.  op[t].hurt is a request that met an error     *)
(* that the code turns into success, or whose command another request      *)
(* overwrote; mem[p].hurt is memory such a request filled; op[t].freed is  *)
(* a request whose block another thread evicted from the cache, and freed, *)
(* between the lookup and the end of the memcpy.                           *)
(***************************************************************************)
EXTENDS Integers, Sequences, FiniteSets, FiniteSetsExt

CONSTANTS
    Threads,          \* kernel threads inside read_block
    Slots,            \* command slots the controller implements
    MaxSectors,       \* sectors a DMA buffer holds
    SectorsPerBlock,  \* ext2 block size / sector size
    SectorBytes,      \* disk_device::_block_size
    Start, End,       \* the partition's LBAs
    BlockCount,       \* block_count of the super block
    Capacity,         \* of the block cache (50 in the code)
    Requests,         \* <<block, cached>>: what a thread asks read_block for
    Budget,           \* Budget[n], a bound: requests made of a port with n DMA
                      \* buffers (8 in the code)
    NoThread, Junk

ASSUME DiskAssumption ==
    /\ {Slots, MaxSectors, SectorsPerBlock, SectorBytes, Capacity} \cup DOMAIN Budget \subseteq Nat \ {0}
    /\ {Start, End} \subseteq Nat /\ Start < End /\ Requests \subseteq Nat \X BOOLEAN
    /\ IsFiniteSet(Threads) /\ {NoThread, Junk} \cap Threads = {} /\ Junk \notin Nat

VARIABLES
    boot,     \* phase of ahci::initialize, and what became of the command page
    pc, op,   \* per thread: where it is and its request
    val, semLock, waiters, lost,   \* _buffer_semaphore; lost is history
    bufLock, dma,                  \* _buf_locks, contents of the buffers, by index
    table, issued, tfes,           \* command table, command_issue, task file error
    mem, map, list,                \* malloc'ed blocks, the cache's map and list
    reads     \* requests still to be made

semaphore == <<val, semLock, waiters, lost>>
port == <<bufLock, dma, table, issued, tfes>>
cache == <<mem, map, list>>
vars == <<boot, pc, op, semaphore, port, cache, reads>>

Buffers == Cardinality(DOMAIN bufLock)
Idle == [block |-> 0, cached |-> FALSE, lba |-> 0, left |-> 0, slot |-> 0, idx |-> 0,
         ptr |-> 0, dst |-> <<>>, hurt |-> FALSE, freed |-> FALSE]
NoData == [i \in 1 .. SectorsPerBlock |-> Junk]
Sectors(lba, n) == [i \in 1 .. n |-> lba + i - 1]

\* _buf_locks and the semaphore's _lock are never initialised: they hold whatever
\* the heap held.
Init ==
    /\ boot = [phase |-> "pci", page |-> "none"]
    /\ pc = [t \in Threads |-> "idle"] /\ op = [t \in Threads |-> Idle]
    /\ \E n \in DOMAIN Budget :
                       /\ val = n /\ reads = Budget[n]
                       /\ bufLock \in [0 .. n - 1 -> {NoThread, Junk}]
                       /\ dma = [b \in 0 .. n - 1 |-> <<>>]
    /\ semLock \in {NoThread, Junk} /\ waiters = <<>> /\ lost = 0
    /\ table = [buf |-> 0, lba |-> 0, n |-> 0] /\ issued = {} /\ tfes = FALSE
    /\ mem = [p \in {} |-> 0] /\ map = [b \in {} |-> 0] /\ list = <<>>

-----------------------------------------------------------------------------
(* ahci::initialize, before any other thread uses the disk.                *)

Boot(from, to, page) ==
    /\ boot.phase = from /\ boot' = [phase |-> to, page |-> page]
    /\ UNCHANGED <<pc, op, semaphore, port, cache, reads>>

Initialize == \E to \in {"none", "owner"} : Boot("pci", to, "none")

\* An old controller, one without handoff, or a BIOS that let go at once or
\* within two seconds; a BIOS that does not trips the assertion.
TakeControllerOwnership == \E to \in {"port", "panic"} : Boot("owner", to, "none")

\* No device behind the port; else the port gets a page for its commands.
RegisterAhciDisk ==
    \/ Boot("port", "none", "none")
    \/ Boot("port", "identify", "kept")

\* A device that fails IDENTIFY gives its page back.
IdentifyDevice ==
    \/ Boot("identify", "none", "freed")
    \/ Boot("identify", "gpt", "kept")

\* gpt::parse is the first to wait() for a buffer, and spins there forever if the
\* semaphore's lock was not 0.  Then: unreadable, no signature, no partition that
\* is not empty; or the partition Start .. End.
Parse ==
    /\ semLock = NoThread
    /\ \E to \in {"controller", "partition"} : Boot("gpt", to, "kept")

\* Only a partition of the Linux type is tried.
InitializePartitions == \E to \in {"controller", "superblock"} : Boot("partition", to, "kept")

\* An unreadable super block, a wrong magic number or revision.
Ext2Init == \E to \in {"controller", "volume"} : Boot("superblock", to, "kept")

\* Features it does not know, no group descriptors, no root: the volume is
\* deleted; else it is registered.
Ext2Volume == \E to \in {"controller", "mounted"} : Boot("volume", to, "kept")

\* The constructor clears _command_pages at its end, and so the destructor of
\* the temporary that list::add copies does not free the page in use.
AhciController ==
    \/ Boot("controller", "none", "forgotten")
    \/ Boot("mounted", "up", "forgotten")

-----------------------------------------------------------------------------
(* ext2_volume::read_block                                                 *)

Allocated == DOMAIN mem
NewPtr == CHOOSE p \in 1 .. Cardinality(Allocated) + 1 : p \notin Allocated
Last(s) == s[Len(s)]
Front(s) == SubSeq(s, 1, Len(s) - 1)
Put(f, k, v) == [x \in DOMAIN f \cup {k} |-> IF x = k THEN v ELSE f[x]]
Sound(o) == ~o.hurt /\ ~o.freed
Failed(o) == [o EXCEPT !.hurt = TRUE, !.dst = NoData]
Expected(o) == Sectors(Start + o.block * SectorsPerBlock, SectorsPerBlock)

\* The request is over; a cached one copies from the block it read or found.
Finish(t, o) == pc' = [pc EXCEPT ![t] = "done"] /\ op' = [op EXCEPT ![t] = o]
Goto(t, where) == pc' = [pc EXCEPT ![t] = where] /\ UNCHANGED op
GotoWith(t, where, o) == pc' = [pc EXCEPT ![t] = where] /\ op' = [op EXCEPT ![t] = o]

OutOfRange(lba, n) == lba * SectorBytes + n > (End - Start) * SectorBytes

\* A block past block_count is refused; a cached block is found, and copied
\* after the cache's lock is released; else the partition is asked, whose
\* "out of range" is a positive number and reads as success.
ReadBlock(t, b, cached) ==
    /\ boot.phase = "up" /\ reads > 0 /\ pc[t] = "idle"
    /\ reads' = reads - 1
    /\ LET o == [Idle EXCEPT !.block = b, !.cached = cached, !.dst = NoData]
           miss == cached /\ b \notin DOMAIN map
           lba == b * SectorsPerBlock
           asked == [o EXCEPT !.ptr = IF miss THEN NewPtr ELSE 0, !.dst = <<>>,
                              !.lba = lba + Start, !.left = SectorsPerBlock]
       IN \/ /\ b > BlockCount
             /\ Finish(t, Failed(o)) /\ UNCHANGED mem
          \/ /\ b <= BlockCount /\ cached /\ ~miss
             /\ GotoWith(t, "memcpy", [o EXCEPT !.ptr = map[b]]) /\ UNCHANGED mem
          \/ /\ b <= BlockCount /\ (miss \/ ~cached)
             /\ mem' = IF miss THEN Put(mem, NewPtr, [data |-> NoData, hurt |-> FALSE]) ELSE mem
             /\ IF OutOfRange(lba, SectorsPerBlock)
                THEN GotoWith(t, IF miss THEN "set" ELSE "done",
                              Failed(asked))
                ELSE GotoWith(t, "slot", asked)
    /\ UNCHANGED <<boot, semaphore, port, map, list>>

\* What read_block does with do_disk_read's answer: a positive one is success,
\* and the block goes to the cache; a negative one (-EBUSY) frees it.
Answered(t, o) == GotoWith(t, IF o.cached THEN "set" ELSE "done", o)

\* Mutant: a key already in the map is pushed on the list once more.
SetPushes(t) ==
    /\ pc[t] = "set"
    /\ mem' = [mem EXCEPT ![op[t].ptr] = [data |-> op[t].dst, hurt |-> ~Sound(op[t])]]
    /\ map' = Put(map, op[t].block, op[t].ptr)
    /\ list' = <<[block |-> op[t].block, ptr |-> op[t].ptr]>> \o list
    /\ Goto(t, "memcpy")
    /\ UNCHANGED <<boot, semaphore, port, reads>>

\* lru_cache::set.  A key already there gets the new value, and the list keeps
\* the old one; else the oldest entries make room and their values are freed,
\* whoever still copies from them.
Evicted == IF Len(list) >= Capacity THEN Last(list).ptr ELSE 0
Set(t) ==
    /\ pc[t] = "set"
    /\ LET o == op[t]
           filled == [mem EXCEPT ![o.ptr] = [data |-> o.dst, hurt |-> ~Sound(o)]]
           gone == IF o.block \in DOMAIN map THEN 0 ELSE Evicted
           kept == IF gone = 0 THEN list ELSE Front(list)
       IN /\ mem' = [p \in DOMAIN filled \ {gone} |-> filled[p]]
          /\ map' = Put([b \in DOMAIN map \ (IF gone = 0 THEN {} ELSE {Last(list).block}) |-> map[b]],
                        o.block, o.ptr)
          /\ list' = IF o.block \in DOMAIN map THEN list
                     ELSE <<[block |-> o.block, ptr |-> o.ptr]>> \o kept
          /\ op' = [u \in Threads |-> [op[u] EXCEPT !.freed =
                       @ \/ (pc[u] = "memcpy" /\ op[u].ptr = gone)]]
          /\ pc' = [pc EXCEPT ![t] = "memcpy"]
    /\ UNCHANGED <<boot, semaphore, port, reads>>

Memcpy(t) ==
    /\ pc[t] = "memcpy"
    /\ LET p == op[t].ptr IN
       Finish(t, IF p \in Allocated
                 THEN [op[t] EXCEPT !.dst = mem[p].data, !.hurt = @ \/ mem[p].hurt]
                 ELSE [op[t] EXCEPT !.dst = NoData, !.freed = TRUE])
    /\ UNCHANGED <<boot, semaphore, port, cache, reads>>

Return(t) ==
    /\ pc[t] = "done" /\ GotoWith(t, "idle", Idle)
    /\ UNCHANGED <<boot, semaphore, port, cache, reads>>

-----------------------------------------------------------------------------
(* ahci_port::read_disk_block                                              *)

\* find_cmdslot takes the first slot with no command, or fails without one.
IdleSlots == (0 .. Slots - 1) \ issued

\* interrupt_status = -1 clears every pending error, of any request; the slot
\* is chosen here and not reserved.
FindCmdSlot(t) ==
    /\ pc[t] = "slot"
    /\ LET marked == [u \in Threads |-> [op[u] EXCEPT !.hurt = @ \/ (tfes /\ pc[u] = "wait")]]
       IN IF IdleSlots = {}
          THEN /\ pc' = [pc EXCEPT ![t] = "done"]
               /\ op' = [marked EXCEPT ![t] = Failed(@)]
               /\ mem' = [p \in Allocated \ {op[t].ptr} |-> mem[p]]
          ELSE /\ pc' = [pc EXCEPT ![t] = "sem"]
               /\ op' = [marked EXCEPT ![t] = [@ EXCEPT !.slot = Min(IdleSlots)]]
               /\ UNCHANGED mem
    /\ tfes' = FALSE
    /\ UNCHANGED <<boot, semaphore, bufLock, dma, table, issued, map, list, reads>>

\* semaphore::wait, called with no timeout.  A waiter that has to block does so
\* with _lock held, so that nobody can signal it: it leaves when its timer
\* event of 0 us is dispatched, and reports EINTR.
SemaphoreWait(t) ==
    /\ pc[t] = "sem" /\ semLock = NoThread
    /\ val' = val - 1
    /\ IF val <= 0
       THEN semLock' = t /\ waiters' = Append(waiters, t) /\ Goto(t, "blocked")
       ELSE UNCHANGED <<semLock, waiters>> /\ GotoWith(t, "scan", [op[t] EXCEPT !.idx = 0])
    /\ UNCHANGED <<boot, lost, port, cache, reads>>

\* Mutant: block() returns without releasing the semaphore's lock.
WaitTimesOutLocked(t) ==
    /\ pc[t] = "blocked" /\ lost' = lost + 1
    /\ Answered(t, Failed(op[t]))
    /\ UNCHANGED <<boot, val, semLock, waiters, port, cache, reads>>

\* The unit wait() took is not put back.  The blocker stays in the list, unless
\* the clock had not ticked yet and block() interrupted it.
WaitTimesOut(t) ==
    /\ pc[t] = "blocked"
    /\ semLock' = NoThread /\ lost' = lost + 1
    /\ waiters' \in {waiters, Front(waiters)}
    /\ Answered(t, Failed(op[t]))
    /\ UNCHANGED <<boot, val, port, cache, reads>>

\* The scheduler resumed the blocked waiter: block() has not timed out and was not
\* interrupted, so wait() reports success.  The blocker stays in the list.
WaitResumed(t) ==
    /\ pc[t] = "blocked"
    /\ semLock' = NoThread
    /\ GotoWith(t, "scan", [op[t] EXCEPT !.idx = 0])
    /\ UNCHANGED <<boot, val, waiters, lost, port, cache, reads>>

\* acquire_buffer tries one lock after the other.
AcquireBuffer(t) ==
    /\ pc[t] = "scan"
    /\ IF op[t].idx = Buffers
       THEN GotoWith(t, "signal", Failed(op[t]))
            /\ UNCHANGED bufLock
       ELSE IF bufLock[op[t].idx] = NoThread
       THEN bufLock' = [bufLock EXCEPT ![op[t].idx] = t] /\ Goto(t, "read")
       ELSE GotoWith(t, "scan", [op[t] EXCEPT !.idx = @ + 1]) /\ UNCHANGED bufLock
    /\ UNCHANGED <<boot, semaphore, dma, table, issued, tfes, cache, reads>>

\* do_read's header, command table, PRDT entries and FIS, and the issue: one
\* table for all slots, so two requests between here and the end of their
\* command spoil each other.  A device that stays busy fails the request.
ToRead(o) == Min({o.left, MaxSectors})
DoRead(t) ==
    /\ pc[t] = "read"
    /\ table' = [buf |-> op[t].idx, lba |-> op[t].lba, n |-> ToRead(op[t])]
    /\ LET others == {u \in Threads \ {t} : pc[u] = "wait"}
           spoilt == [u \in Threads |-> [op[u] EXCEPT !.hurt =
                         @ \/ u \in others \/ (u = t /\ others # {})]]
       IN \/ /\ issued' = issued \cup {op[t].slot}
             /\ pc' = [pc EXCEPT ![t] = "wait"] /\ op' = spoilt
          \/ /\ pc' = [pc EXCEPT ![t] = "release"]
             /\ op' = [spoilt EXCEPT ![t] = Failed(@)] /\ UNCHANGED issued
    /\ UNCHANGED <<boot, semaphore, bufLock, dma, tfes, cache, reads>>

\* The controller runs the command the table holds, or fails it.
Complete(slot) ==
    /\ slot \in issued /\ issued' = issued \ {slot}
    /\ \/ dma' = [dma EXCEPT ![table.buf] = Sectors(table.lba, table.n)] /\ UNCHANGED tfes
       \/ tfes' = TRUE /\ UNCHANGED dma
    /\ UNCHANGED <<boot, pc, op, semaphore, bufLock, table, cache, reads>>

\* Mutant: every chunk is read from the first chunk's LBA.
AdvancedInPlace(o) == [o EXCEPT !.dst = @ \o dma[o.idx], !.left = @ - ToRead(o)]
\* Mutant: a failed command returns without release_buffer.
CopyChunkKeeps(t) ==
    /\ pc[t] = "wait" /\ op[t].slot \notin issued
    /\ IF tfes THEN Answered(t, Failed(op[t])) ELSE Goto(t, "release")
    /\ UNCHANGED <<boot, semaphore, port, cache, reads>>

\* The command is over: an error ends the request with a positive number; else
\* the chunk is copied, and the next one read.
Advanced(o) ==
    [o EXCEPT !.dst = @ \o dma[o.idx], !.lba = @ + ToRead(o), !.left = @ - ToRead(o)]
CopyChunk(t) ==
    /\ pc[t] = "wait" /\ op[t].slot \notin issued
    /\ IF tfes THEN GotoWith(t, "release", Failed(op[t]))
       ELSE GotoWith(t, IF Advanced(op[t]).left > 0 THEN "read" ELSE "release", Advanced(op[t]))
    /\ UNCHANGED <<boot, semaphore, port, cache, reads>>

ReleaseBuffer(t) ==
    /\ pc[t] = "release" /\ Goto(t, "signal")
    /\ bufLock' = [bufLock EXCEPT ![op[t].idx] = NoThread]
    /\ UNCHANGED <<boot, semaphore, dma, table, issued, tfes, cache, reads>>

\* semaphore::signal; then read_disk_block returns.
Signal(t) ==
    /\ pc[t] = "signal" /\ semLock = NoThread
    /\ val' = val + 1 /\ waiters' = IF waiters = <<>> THEN <<>> ELSE Tail(waiters)
    /\ Answered(t, op[t])
    /\ UNCHANGED <<boot, semLock, lost, port, cache, reads>>

-----------------------------------------------------------------------------
Step(t) ==
    \/ Set(t) \/ Memcpy(t) \/ Return(t) \/ FindCmdSlot(t)
    \/ SemaphoreWait(t) \/ WaitTimesOut(t) \/ WaitResumed(t) \/ AcquireBuffer(t)
    \/ DoRead(t) \/ CopyChunk(t) \/ ReleaseBuffer(t) \/ Signal(t)

Next ==
    \/ Initialize \/ TakeControllerOwnership \/ RegisterAhciDisk \/ IdentifyDevice
    \/ Parse \/ InitializePartitions \/ Ext2Init \/ Ext2Volume \/ AhciController
    \/ \E t \in Threads : Step(t) \/ \E r \in Requests : ReadBlock(t, r[1], r[2])
    \/ \E s \in 0 .. Slots - 1 : Complete(s)

\* The scheduler runs every thread, and the controller ends every command.
Spec == /\ Init /\ [][Next]_vars
        /\ \A t \in Threads : WF_vars(Step(t))
        /\ \A s \in 0 .. Slots - 1 : WF_vars(Complete(s))

-----------------------------------------------------------------------------
(* Properties                                                              *)

\* read_block hands its caller the sectors of the block it asked for, however
\* requests interleave, with three exceptions: the request, or the one that filled
\* the cache, met an error of the device or the pool, which read_block takes for
\* success (hurt); it shared the one command table with another (hurt); or the
\* block it found in the cache was evicted and freed by another thread before the
\* memcpy, which runs without the cache's lock (freed).  A block of the cache is
\* wrong only for one of the first two reasons.
ReadIsRight ==
    /\ \A t \in Threads : (pc[t] = "done" /\ Sound(op[t])) => op[t].dst = Expected(op[t])
    /\ \A b \in DOMAIN map :
          ~mem[map[b]].hurt => mem[map[b]].data = Expected([Idle EXCEPT !.block = b])

\* The buffer semaphore's value is the number of buffers less the requests
\* between wait() and signal(), less one for every wait() that ever timed out:
\* the pool shrinks for good.  A DMA buffer has one owner, which holds a unit.
Counted == {"scan", "read", "wait", "release", "signal", "blocked"}
SemaphoreExact ==
    /\ val = Buffers - Cardinality({t \in Threads : pc[t] \in Counted}) - lost
    /\ \A t \in Threads : pc[t] \in {"read", "wait", "release"}
                          => bufLock[op[t].idx] = t
    /\ \A b \in 0 .. Buffers - 1 : bufLock[b] \in Threads =>
          pc[bufLock[b]] \in {"read", "wait", "release"} /\ op[bufLock[b]].idx = b

\* lru_cache's map and list name the same keys, at most Capacity of them, and
\* every block the map or the list points to is still allocated.
CacheExact ==
    /\ DOMAIN map = {list[i].block : i \in DOMAIN list}
    /\ Cardinality(DOMAIN map) = Len(list) /\ Len(list) <= Capacity
    /\ \A b \in DOMAIN map : map[b] \in Allocated
    /\ \A i \in DOMAIN list : list[i].ptr \in Allocated

\* Every read of a mounted volume ends, also one that has to wait for a buffer,
\* which it does with the semaphore's own lock held.  (Whether a volume is ever
\* mounted depends on what the heap held where that lock is: see Parse.)
ReadEnds == \A t \in Threads : pc[t] # "idle" ~> pc[t] = "idle"
=============================================================================
