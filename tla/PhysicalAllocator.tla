--------------------------- MODULE PhysicalAllocator ---------------------------
(***************************************************************************)
(* The allocator of physical blocks (arch/x86_64/physical_allocator.cpp):  *)
(* a bitmap of 32-bit chunks, a hint where to search, and a count of used  *)
(* blocks.  allocate_physical_block runs under allocator_lock;             *)
(* free_physical_block takes no lock.  The two meet in the words of the    *)
(* bitmap, in used_blocks and in next_chunk.                               *)
(*                                                                         *)
(* `a |= b`, `a = a & b`, `a++` and `a--` are a load and a store: the      *)
(* kernel is built without optimisation and its threads are preempted, so  *)
(* another thread may run in between, on the same CPU or on another.       *)
(***************************************************************************)
EXTENDS Naturals, Integers, FiniteSets

CONSTANTS
    Thread,         \* the threads that call the allocator
    ChunkBits,      \* blocks per chunk; 32 in the code
    NumChunks,      \* PHYS_BITMAP_SIZE_DWORDS
    Usable,         \* the blocks that the memory map of the boot loader frees
    MaxOut,         \* bound: blocks that are out
    MaxLost         \* bound: bits that lost an update

Block == 0 .. NumChunks * ChunkBits - 1
ChunkOf(b) == b \div ChunkBits
BlocksOf(c) == {b \in Block : ChunkOf(b) = c}

\* initialize_physical_allocator sets max_blocks to the number of chunks, and
\* the search stops at chunk max_blocks >> 5.
Limit == NumChunks \div ChunkBits

ASSUME ChunkAssumption ==
    /\ ChunkBits \in Nat \ {0}
    /\ NumChunks \in Nat
    /\ Usable \subseteq Block
    /\ MaxOut \in Nat /\ MaxLost \in Nat

ASSUME ThreadAssumption == IsFiniteSet(Thread)

VARIABLES
    bitmap,         \* phys_mem_bitmap: the blocks whose bit is set
    used_blocks,    \* used_blocks
    next_chunk,     \* next_chunk
    allocator_lock, \* allocator_lock
    pc,             \* where each thread is
    block,          \* the block a thread looks at, allocates or frees
    pass,           \* 1 or 2: which of the two search loops a thread is in
    reg,            \* the word or count a thread has loaded and not yet stored
    \* History:
    owned,          \* how often allocate returned a block that was not freed since
    out,            \* how many blocks are out
    freed,          \* bits free has cleared since allocator_lock was taken
    erased,         \* bits, set after a free had loaded the word, that its store cleared
    leaked,         \* bits, cleared after a load of the word, that the store set again
    miscounted      \* whether a store of used_blocks undid another one

marks == <<erased, leaked, miscounted>>
vars == <<bitmap, used_blocks, next_chunk, allocator_lock, pc, block, pass,
          reg, owned, out, freed, marks>>

LockedPC == {"start", "chunk", "bit", "set", "set_store", "count",
             "count_store", "unlock", "panic"}
FreePC == {"clear", "clear_store", "uncount", "uncount_store", "hint", "hint_set"}
PC == {"idle"} \union LockedPC \union FreePC

NoReg == [word |-> {}, count |-> 0]
WordReg(c) == [word |-> bitmap \intersect BlocksOf(c), count |-> 0]
CountReg == [word |-> {}, count |-> used_blocks]

Goto(t, from, to) ==
    /\ pc[t] = from
    /\ pc' = [pc EXCEPT ![t] = to]

\* After initialize_physical_allocator, mark_memory_region_free for each usable
\* region and reset_used_blocks.
Init ==
    /\ bitmap = Block \ Usable
    /\ used_blocks = 0
    /\ next_chunk = 1
    /\ allocator_lock = 0
    /\ pc = [t \in Thread |-> "idle"]
    /\ block = [t \in Thread |-> 0]
    /\ pass = [t \in Thread |-> 1]
    /\ reg = [t \in Thread |-> NoReg]
    /\ owned = [b \in Block |-> 0] /\ out = 0
    /\ freed = {} /\ erased = {} /\ leaked = {} /\ miscounted = FALSE

-----------------------------------------------------------------------------
(* allocate_physical_block and get_first_free_block                        *)

\* Mutant: the lock is not taken.
LockUntested(t) ==
    /\ Goto(t, "idle", "start")
    /\ allocator_lock' = 1
    /\ freed' = {}
    /\ UNCHANGED <<bitmap, used_blocks, next_chunk, block, pass, reg, owned, out, marks>>

Lock(t) ==
    /\ allocator_lock = 0
    /\ Goto(t, "idle", "start")
    /\ allocator_lock' = 1
    /\ freed' = {}
    /\ UNCHANGED <<bitmap, used_blocks, next_chunk, block, pass, reg, owned, out, marks>>

StartSearch(t) ==
    LET first == IF next_chunk = 0 THEN 1 ELSE next_chunk
    IN  /\ Goto(t, "start", "chunk")
        /\ next_chunk' = first
        /\ block' = [block EXCEPT ![t] = first * ChunkBits]
        /\ pass' = [pass EXCEPT ![t] = 1]
        /\ UNCHANGED <<bitmap, used_blocks, allocator_lock, reg, owned, out, freed, marks>>

\* The head of either loop and the test of the whole word: look at the bits of
\* the chunk, skip it, or begin the second loop, or give up.
TestChunk(t) ==
    LET c == ChunkOf(block[t])
    IN  /\ \/ /\ c < Limit
              /\ ~ BlocksOf(c) \subseteq bitmap
              /\ Goto(t, "chunk", "bit")
              /\ UNCHANGED <<block, pass>>
           \/ /\ c < Limit
              /\ BlocksOf(c) \subseteq bitmap
              /\ Goto(t, "chunk", "chunk")
              /\ block' = [block EXCEPT ![t] = (c + 1) * ChunkBits]
              /\ UNCHANGED pass
           \/ /\ c >= Limit
              /\ pass[t] = 1
              /\ Goto(t, "chunk", "chunk")
              /\ block' = [block EXCEPT ![t] = ChunkBits]
              /\ pass' = [pass EXCEPT ![t] = 2]
           \/ /\ c >= Limit
              /\ pass[t] = 2
              /\ Goto(t, "chunk", "panic")
              /\ UNCHANGED <<block, pass>>
        /\ UNCHANGED <<bitmap, used_blocks, next_chunk, allocator_lock, reg, owned, out, freed, marks>>

\* One turn of the loop over the bits of a chunk.
TestBit(t) ==
    LET c == ChunkOf(block[t])
    IN  /\ \/ /\ block[t] \notin bitmap
              /\ Goto(t, "bit", "set")
              /\ next_chunk' = c
              /\ UNCHANGED block
           \/ /\ block[t] \in bitmap
              /\ Goto(t, "bit", IF ChunkOf(block[t] + 1) = c THEN "bit" ELSE "chunk")
              /\ block' = [block EXCEPT ![t] = @ + 1]
              /\ UNCHANGED next_chunk
        /\ UNCHANGED <<bitmap, used_blocks, allocator_lock, pass, reg, owned, out, freed, marks>>

\* set_bit
SetBit(t) ==
    /\ Goto(t, "set", "set_store")
    /\ reg' = [reg EXCEPT ![t] = WordReg(ChunkOf(block[t]))]
    /\ UNCHANGED <<bitmap, used_blocks, next_chunk, allocator_lock, block, pass, owned, out, freed, marks>>

SetBitStore(t) ==
    /\ Goto(t, "set_store", "count")
    /\ bitmap' = (bitmap \ BlocksOf(ChunkOf(block[t]))) \union reg[t].word \union {block[t]}
    /\ reg' = [reg EXCEPT ![t] = NoReg]
    /\ leaked' = leaked \union (reg[t].word \ bitmap)
    /\ UNCHANGED <<used_blocks, next_chunk, allocator_lock, block, pass, owned, out, freed,
                   erased, miscounted>>

\* used_blocks++
CountUsed(t) ==
    /\ Goto(t, "count", "count_store")
    /\ reg' = [reg EXCEPT ![t] = CountReg]
    /\ UNCHANGED <<bitmap, used_blocks, next_chunk, allocator_lock, block, pass, owned, out, freed, marks>>

CountUsedStore(t) ==
    /\ Goto(t, "count_store", "unlock")
    /\ used_blocks' = reg[t].count + 1
    /\ miscounted' = (miscounted \/ reg[t].count # used_blocks)
    /\ reg' = [reg EXCEPT ![t] = NoReg]
    /\ UNCHANGED <<bitmap, next_chunk, allocator_lock, block, pass, owned, out, freed, erased, leaked>>

\* Mutant: the function returns without releasing the lock.
UnlockForgotten(t) ==
    /\ Goto(t, "unlock", "idle")
    /\ owned' = [owned EXCEPT ![block[t]] = @ + 1] /\ out' = out + 1
    /\ block' = [block EXCEPT ![t] = 0]
    /\ pass' = [pass EXCEPT ![t] = 1]
    /\ freed' = {}
    /\ UNCHANGED <<bitmap, used_blocks, next_chunk, allocator_lock, reg, marks>>

Unlock(t) ==
    /\ Goto(t, "unlock", "idle")
    /\ allocator_lock' = 0
    /\ owned' = [owned EXCEPT ![block[t]] = @ + 1] /\ out' = out + 1
    /\ block' = [block EXCEPT ![t] = 0]
    /\ pass' = [pass EXCEPT ![t] = 1]
    /\ freed' = {}
    /\ UNCHANGED <<bitmap, used_blocks, next_chunk, reg, marks>>

-----------------------------------------------------------------------------
(* free_physical_block: of a block that is out, by any thread.             *)

Free(t) ==
    \E b \in Block :
        /\ owned[b] > 0
        /\ Goto(t, "idle", "clear")
        /\ block' = [block EXCEPT ![t] = b]
        /\ owned' = [owned EXCEPT ![b] = @ - 1] /\ out' = out - 1
        /\ UNCHANGED <<bitmap, used_blocks, next_chunk, allocator_lock, pass, reg, freed, marks>>

ClearBit(t) ==
    /\ Goto(t, "clear", "clear_store")
    /\ reg' = [reg EXCEPT ![t] = WordReg(ChunkOf(block[t]))]
    /\ UNCHANGED <<bitmap, used_blocks, next_chunk, allocator_lock, block, pass, owned, out, freed, marks>>

\* The bits of the word that were set after it was loaded.
SetSince(t) == (bitmap \intersect BlocksOf(ChunkOf(block[t]))) \ reg[t].word

\* Mutant: the bit that is cleared is the one before the block's.
ClearBitStoreBefore(t) ==
    /\ Goto(t, "clear_store", "uncount")
    /\ bitmap' = (bitmap \ BlocksOf(ChunkOf(block[t]))) \union (reg[t].word \ {block[t] - 1})
    /\ reg' = [reg EXCEPT ![t] = NoReg]
    /\ erased' = erased \union SetSince(t)
    /\ leaked' = leaked \union (reg[t].word \ (bitmap \union {block[t]}))
    /\ freed' = IF allocator_lock = 1 THEN freed \union SetSince(t) \union {block[t]} ELSE {}
    /\ UNCHANGED <<used_blocks, next_chunk, allocator_lock, block, pass, owned, out, miscounted>>

ClearBitStore(t) ==
    /\ Goto(t, "clear_store", "uncount")
    /\ bitmap' = (bitmap \ BlocksOf(ChunkOf(block[t]))) \union (reg[t].word \ {block[t]})
    /\ reg' = [reg EXCEPT ![t] = NoReg]
    /\ erased' = erased \union SetSince(t)
    /\ leaked' = leaked \union (reg[t].word \ (bitmap \union {block[t]}))
    /\ freed' = IF allocator_lock = 1 THEN freed \union SetSince(t) \union {block[t]} ELSE {}
    /\ UNCHANGED <<used_blocks, next_chunk, allocator_lock, block, pass, owned, out, miscounted>>

\* used_blocks--
UncountUsed(t) ==
    /\ Goto(t, "uncount", "uncount_store")
    /\ reg' = [reg EXCEPT ![t] = CountReg]
    /\ UNCHANGED <<bitmap, used_blocks, next_chunk, allocator_lock, block, pass, owned, out, freed, marks>>

UncountUsedStore(t) ==
    /\ Goto(t, "uncount_store", "hint")
    /\ used_blocks' = reg[t].count - 1
    /\ miscounted' = (miscounted \/ reg[t].count # used_blocks)
    /\ reg' = [reg EXCEPT ![t] = NoReg]
    /\ UNCHANGED <<bitmap, next_chunk, allocator_lock, block, pass, owned, out, freed, erased, leaked>>

TestHint(t) ==
    /\ \/ /\ ChunkOf(block[t]) < next_chunk
          /\ Goto(t, "hint", "hint_set")
          /\ UNCHANGED block
       \/ /\ ChunkOf(block[t]) >= next_chunk
          /\ Goto(t, "hint", "idle")
          /\ block' = [block EXCEPT ![t] = 0]
    /\ UNCHANGED <<bitmap, used_blocks, next_chunk, allocator_lock, pass, reg, owned, out, freed, marks>>

SetHint(t) ==
    /\ Goto(t, "hint_set", "idle")
    /\ next_chunk' = ChunkOf(block[t])
    /\ block' = [block EXCEPT ![t] = 0]
    /\ UNCHANGED <<bitmap, used_blocks, allocator_lock, pass, reg, owned, out, freed, marks>>

-----------------------------------------------------------------------------
\* The steps of a thread inside one of the two functions, after the lock.
Step(t) ==
    \/ StartSearch(t) \/ TestChunk(t) \/ TestBit(t)
    \/ SetBit(t) \/ SetBitStore(t) \/ CountUsed(t) \/ CountUsedStore(t) \/ Unlock(t)
    \/ ClearBit(t) \/ ClearBitStore(t) \/ UncountUsed(t) \/ UncountUsedStore(t)
    \/ TestHint(t) \/ SetHint(t)

\* Lost updates let the blocks that are out, and the count, grow without bound:
\* no call begins after MaxLost bits are wrong, or the count, which decides nothing.
Call(t) ==
    /\ ~miscounted /\ Cardinality(erased \union leaked) <= MaxLost
    /\ (out < MaxOut /\ Lock(t)) \/ Free(t)

Next == \E t \in Thread : Call(t) \/ Step(t)

Spec == Init /\ [][Next]_vars

\* Every CPU keeps executing: a thread inside a function goes on.
FairSpec == Spec /\ \A t \in Thread : WF_vars(Step(t))

-----------------------------------------------------------------------------
(* Properties                                                              *)

At(S) == {t \in Thread : pc[t] \in S}

\* The threads about to be given block b, or that have not cleared its bit yet.
Holding(b) == {t \in At({"count", "count_store", "unlock", "clear", "clear_store"}) : block[t] = b}

\* The two words, the count and the positions of the threads stay in range.
TypeOK ==
    /\ bitmap \subseteq Block
    /\ used_blocks \in Int
    /\ next_chunk \in Nat /\ (next_chunk < Limit \/ next_chunk = 1)
    /\ allocator_lock \in {0, 1}
    /\ pc \in [Thread -> PC]
    /\ block \in [Thread -> Nat]
    /\ pass \in [Thread -> {1, 2}]
    /\ reg \in [Thread -> [word : SUBSET Block, count : Int]]
    /\ owned \in [Block -> Nat]
    /\ out \in Int
    /\ freed \subseteq Block /\ erased \subseteq Block /\ leaked \subseteq Block
    /\ miscounted \in BOOLEAN

\* allocate_physical_block hands out a block that somebody still has only if the
\* unlocked free_physical_block of another block of the same chunk had loaded the
\* word before the block's bit was set, and stored it afterwards.  Nothing else,
\* of all the ways in which the two functions interleave, does it: neither the
\* two loads and stores of the count, nor the hint, nor a bit cleared behind the
\* search.
NoDoubleAllocation ==
    \A b \in Block \ erased :
        /\ owned[b] <= 1
        /\ owned[b] = 1 => Holding(b) = {}
        /\ \A t, u \in Holding(b) : t = u

\* Every block somebody has is marked, except one whose bit such a free erased;
\* and every usable block that is marked is had by somebody or is just being
\* freed, except one whose bit was set again by a store older than its free.
ExactBitmap == (Block \ Usable) \union {b \in Block : owned[b] > 0 \/ Holding(b) # {}}
BitmapIsExact == ExactBitmap \ bitmap \subseteq erased /\ bitmap \ ExactBitmap \subseteq leaked

\* used_blocks counts the blocks that are out, up to the calls that have changed
\* one of the two, until the load and the store of two calls interleave.
UsedBlocksExact ==
    miscounted \/ used_blocks = out
        + Cardinality(At({"unlock", "clear", "clear_store", "uncount", "uncount_store"}))

\* The panic "Out of memory" is reached only when every block of the chunks
\* that are searched is taken, except those whose bit was cleared while the
\* search was already under way: a wrong hint in next_chunk, which
\* free_physical_block writes without the lock, costs time and never memory.
OutOfMemoryIsFull ==
    (\E t \in Thread : pc[t] = "panic")
        => \A c \in 1 .. Limit - 1 : BlocksOf(c) \subseteq bitmap \union freed

\* The comment on the second loop of get_first_free_block says that it tries
\* "again from the beginning", and PHYS_BITMAP_SIZE_DWORDS that the bitmap
\* serves 64 GB: memory is out only when no usable block is free.
OutOfMemoryIsReal ==
    (\E t \in Thread : pc[t] = "panic") => Usable \subseteq bitmap

\* A thread that has allocator_lock gives it back or stops the system: there
\* is no way to spin forever on a lock that nobody will release.
LockIsReleased == (allocator_lock = 1) ~> (allocator_lock = 0 \/ \E t \in Thread : pc[t] = "panic")

\* Between any two instructions the bitmap and used_blocks are exact up to the
\* updates that a load and a store of free_physical_block lose, and the search
\* fails only when it must.
MarksAndSearchExact == TypeOK /\ BitmapIsExact /\ UsedBlocksExact /\ OutOfMemoryIsFull
=============================================================================
