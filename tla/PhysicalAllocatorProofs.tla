------------------------ MODULE PhysicalAllocatorProofs ------------------------
(***************************************************************************)
(* For any finite set of threads, any size of the bitmap and any memory    *)
(* map: every value stays in range, a block has two owners only after a    *)
(* free erased its bit, the bitmap and used_blocks are exact up to such    *)
(* lost updates, and a search fails only if every chunk it may search was  *)
(* full.                                                                   *)
(***************************************************************************)
EXTENDS PhysicalAllocator, TLAPS

\* A leaf is proved by Zenon, unless it cites another prover.
USE Zenon

\* One thread at a time is between acquire_lock and release_lock.
LockInv ==
    /\ \A t, u \in Thread : pc[t] \in LockedPC /\ pc[u] \in LockedPC => t = u
    /\ \A t \in Thread : pc[t] \in LockedPC => allocator_lock = 1

\* A thread that has found, has or frees a block: one of a chunk that is searched.
FoundPC == {"bit", "set", "set_store", "count", "count_store", "unlock"} \union FreePC
Searched == {b \in Nat : ChunkOf(b) < Limit}

PlaceInv ==
    /\ \A t \in Thread : pc[t] \in FoundPC => block[t] \in Searched
    /\ \A b \in Block : owned[b] > 0 => b \in Searched

\* Somebody has block b, or is about to be given it, or has not cleared its bit.
HoldPC == {"count", "count_store", "unlock", "clear", "clear_store"}
Held(b) == owned[b] > 0 \/ \E t \in Thread : pc[t] \in HoldPC /\ block[t] = b

\* NoDoubleAllocation, thread by thread.
Keeps(t, b) == pc[t] \in HoldPC /\ block[t] = b
Sole(b) ==
    /\ owned[b] <= 1
    /\ \A t \in Thread : Keeps(t, b) => owned[b] = 0
    /\ \A t, u \in Thread : Keeps(t, b) /\ Keeps(u, b) => t = u
OwnerInv == \A b \in Block \ erased : Sole(b)

\* The bitmap, the word that set_bit has loaded and the block that the search has
\* found, up to the bits that a free erased.
MarkInv ==
    /\ \A b \in Block \ erased : Held(b) => b \in Usable
    /\ \A b \in Block \ erased : Held(b) \/ b \notin Usable => b \in bitmap
    /\ \A b \in bitmap : Held(b) \/ b \notin Usable \/ b \in leaked
    /\ \A t \in Thread : pc[t] \in {"set", "set_store"} =>
          block[t] \in erased \/ (~Held(block[t]) /\ block[t] \in Usable)
    /\ \A t \in Thread : pc[t] = "set_store" =>
          \A b \in BlocksOf(ChunkOf(block[t])) \ erased :
             Held(b) \/ b \notin Usable => b \in reg[t].word

\* The blocks that the second loop has passed were taken when it passed them.
Passed(t) == \A b \in Block : ChunkBits <= b /\ b < block[t] => b \in bitmap \union freed

SearchInv ==
    /\ \A t \in Thread : pc[t] \in {"chunk", "bit"} /\ pass[t] = 2 => Passed(t)
    /\ OutOfMemoryIsFull

IInv == TypeOK /\ LockInv /\ PlaceInv /\ OwnerInv /\ MarkInv /\ SearchInv

-----------------------------------------------------------------------------
\* A block is in the chunk that its number divided by the size of a chunk names.
LEMMA ChunkFacts ==
  ASSUME NEW b \in Nat
  PROVE  /\ ChunkOf(b) \in Nat
         /\ ChunkBits * ChunkOf(b) <= b
         /\ b < ChunkBits * ChunkOf(b) + ChunkBits
  BY ChunkAssumption, SMT DEF ChunkOf

\* The chunks lie one behind the other.
LEMMA ChunkOrder ==
  ASSUME NEW x \in Nat, NEW y \in Nat, x < y
  PROVE  ChunkBits * x + ChunkBits <= ChunkBits * y
  <1> DEFINE d == y - x - 1
  <1>1. d \in Nat /\ y = x + 1 + d
    BY SMT
  <1> HIDE DEF d
  <1>2. ChunkBits * y = ChunkBits * x + ChunkBits + ChunkBits * d
    BY <1>1, ChunkAssumption, SMT
  <1>3. ChunkBits * d \in Nat /\ ChunkBits * x \in Nat
    BY <1>1, ChunkAssumption, SMT
  <1> QED
    BY <1>2, <1>3, ChunkAssumption, SMT

\* The search stops within the bitmap.
LEMMA SearchedIsBlock == Limit \in Nat /\ Searched \subseteq Block
  <1>1. Limit \in Nat /\ ChunkBits * Limit <= NumChunks
    BY ChunkAssumption, SMT DEF Limit
  <1>2. NumChunks <= NumChunks * ChunkBits /\ NumChunks * ChunkBits \in Nat
    <2> DEFINE d == ChunkBits - 1
    <2>1. d \in Nat /\ ChunkBits = d + 1
      BY ChunkAssumption, SMT
    <2> HIDE DEF d
    <2>2. NumChunks * ChunkBits = NumChunks * d + NumChunks /\ NumChunks * d \in Nat
      BY <2>1, ChunkAssumption, SMT
    <2> QED
      BY <2>2, ChunkAssumption, SMT
  <1>3. ASSUME NEW b \in Searched PROVE b \in Block
    <2>1. b \in Nat /\ ChunkOf(b) < Limit
      BY DEF Searched
    <2>2. ChunkBits * ChunkOf(b) + ChunkBits <= ChunkBits * Limit
      BY <1>1, <2>1, ChunkFacts, ChunkOrder
    <2>3. b < NumChunks * ChunkBits
      <3>1. ChunkBits * ChunkOf(b) \in Nat /\ ChunkBits * Limit \in Nat
        BY <1>1, <2>1, ChunkFacts, ChunkAssumption, SMT
      <3> QED
        <4>1. b < ChunkBits * ChunkOf(b) + ChunkBits
          BY <2>1, ChunkFacts
        <4> HIDE DEF Limit
        <4> QED
          BY <1>1, <1>2, <2>1, <2>2, <3>1, <4>1, ChunkAssumption, SMT
    <2> QED
      BY <1>2, <2>1, <2>3, SMT DEF Block
  <1> QED
    BY <1>1, <1>3

\* What the arithmetic of chunks and blocks gives the steps.
LEMMA PlaceFacts ==
  /\ \A b \in Nat : ChunkOf(b) \in Nat
  /\ \A c \in Nat : c * ChunkBits \in Nat
  /\ ChunkBits \in Nat /\ Limit \in Nat
  /\ Searched \subseteq Block
  /\ Block \subseteq Nat
  BY ChunkFacts, SearchedIsBlock, ChunkAssumption, SMT DEF Block

\* A block in a lower chunk is a lower block.
LEMMA ChunkBelow ==
  ASSUME NEW a \in Nat, NEW b \in Nat
  PROVE  /\ ChunkOf(a) < ChunkOf(b) => a < ChunkBits * ChunkOf(b) /\ a < b
         /\ b <= a /\ a < ChunkBits * (ChunkOf(b) + 1) => ChunkOf(a) = ChunkOf(b)
  <1> DEFINE ca == ChunkOf(a)
             cb == ChunkOf(b)
  <1>1. /\ ca \in Nat /\ cb \in Nat /\ ChunkBits \in Nat
        /\ ChunkBits * ca <= a /\ a < ChunkBits * ca + ChunkBits
        /\ ChunkBits * cb <= b /\ b < ChunkBits * cb + ChunkBits
    BY ChunkFacts, ChunkAssumption
  <1>2. ca < cb => ChunkBits * ca + ChunkBits <= ChunkBits * cb
    BY <1>1, ChunkOrder
  <1>3. cb < ca => ChunkBits * cb + ChunkBits <= ChunkBits * ca
    BY <1>1, ChunkOrder
  <1> HIDE DEF ca, cb
  <1>4. ChunkBits * ca \in Nat /\ ChunkBits * cb \in Nat
    BY <1>1, SMT
  <1>5. ChunkBits * (cb + 1) = ChunkBits * cb + ChunkBits
    BY <1>1, SMT
  <1>6. ca < cb => a < ChunkBits * cb /\ a < b
    BY <1>1, <1>2, <1>4, SMT
  <1>7. b <= a /\ a < ChunkBits * (cb + 1) => ca = cb
    BY <1>1, <1>3, <1>4, <1>5, <1>6, SMT
  <1> QED
    BY <1>6, <1>7 DEF ca, cb

-----------------------------------------------------------------------------
\* Every instruction keeps allocator_lock with the one thread inside
\* allocate_physical_block.
LEMMA NextLockInv == ASSUME TypeOK, LockInv, [Next]_vars PROVE LockInv'
  <1> SUFFICES ASSUME pc \in [Thread -> PC] PROVE LockInv'
    BY DEF TypeOK
  <1> USE DEF LockInv
  <1>1. CASE UNCHANGED vars
    BY <1>1 DEF vars
  <1>2. ASSUME NEW t \in Thread, Call(t) PROVE LockInv'
    BY <1>2, SMT DEF Call, Lock, Free, Goto, LockedPC
  <1>3. ASSUME NEW t \in Thread, Step(t) PROVE LockInv'
    <2> USE DEF Goto, LockedPC
    <2>1. CASE StartSearch(t)  BY <2>1, SMT DEF StartSearch
    <2>2. CASE TestChunk(t)  BY <2>2, SMT DEF TestChunk
    <2>3. CASE TestBit(t)  BY <2>3, SMT DEF TestBit
    <2>4. CASE SetBit(t)  BY <2>4 DEF SetBit
    <2>5. CASE SetBitStore(t)  BY <2>5 DEF SetBitStore
    <2>6. CASE CountUsed(t)  BY <2>6 DEF CountUsed
    <2>7. CASE CountUsedStore(t)  BY <2>7 DEF CountUsedStore
    <2>8. CASE Unlock(t)  BY <2>8 DEF Unlock
    <2>9. CASE ClearBit(t)  BY <2>9 DEF ClearBit
    <2>10. CASE ClearBitStore(t)  BY <2>10 DEF ClearBitStore
    <2>11. CASE UncountUsed(t)  BY <2>11 DEF UncountUsed
    <2>12. CASE UncountUsedStore(t)  BY <2>12 DEF UncountUsedStore
    <2>13. CASE TestHint(t)  BY <2>13, SMT DEF TestHint
    <2>14. CASE SetHint(t)  BY <2>14 DEF SetHint
    <2> QED
      BY <1>3, <2>1, <2>2, <2>3, <2>4, <2>5, <2>6, <2>7, <2>8, <2>9, <2>10,
         <2>11, <2>12, <2>13, <2>14 DEF Step
  <1> QED
    BY <1>1, <1>2, <1>3 DEF Next

\* Every instruction keeps the blocks that are found, had or freed in the chunks
\* that are searched.
LEMMA NextPlaceInv ==
  ASSUME TypeOK, PlaceInv, [Next]_vars PROVE PlaceInv'
  <1> USE DEF TypeOK, PlaceInv, FreePC, FoundPC
  <1>1. CASE UNCHANGED vars
    BY <1>1 DEF vars
  <1>2. ASSUME NEW t \in Thread, Call(t) PROVE PlaceInv'
    <2>1. CASE Lock(t)  BY <2>1 DEF Lock, Goto
    <2>2. CASE Free(t)
      <3>1. PICK b \in Block :
              /\ owned[b] > 0
              /\ pc' = [pc EXCEPT ![t] = "clear"]
              /\ block' = [block EXCEPT ![t] = b]
              /\ owned' = [owned EXCEPT ![b] = @ - 1]
        BY <2>2 DEF Free, Goto
      <3>2. b \in Searched
        BY <3>1
      <3>3. \A u \in Thread : pc'[u] \in FoundPC => block'[u] \in Searched
        BY <3>1, <3>2
      <3>4. \A c \in Block : owned'[c] > 0 => c \in Searched
        BY <3>1, <3>2
      <3> QED
        BY <3>1, <3>3, <3>4 DEF Searched
    <2> QED
      BY <1>2, <2>1, <2>2 DEF Call
  <1>3. ASSUME NEW t \in Thread, Step(t) PROVE PlaceInv'
    <2> USE DEF Goto
    <2>1. CASE StartSearch(t)  BY <2>1 DEF StartSearch
    <2>2. CASE TestChunk(t)  BY <2>2, SMT DEF TestChunk, Searched
    <2>3. CASE TestBit(t)  BY <2>3, SMT DEF TestBit, Searched
    <2>4. CASE SetBit(t)  BY <2>4 DEF SetBit
    <2>5. CASE SetBitStore(t)  BY <2>5 DEF SetBitStore
    <2>6. CASE CountUsed(t)  BY <2>6 DEF CountUsed
    <2>7. CASE CountUsedStore(t)  BY <2>7 DEF CountUsedStore
    <2>8. CASE Unlock(t)  BY <2>8 DEF Unlock
    <2>9. CASE ClearBit(t)  BY <2>9 DEF ClearBit
    <2>10. CASE ClearBitStore(t)  BY <2>10 DEF ClearBitStore
    <2>11. CASE UncountUsed(t)  BY <2>11 DEF UncountUsed
    <2>12. CASE UncountUsedStore(t)  BY <2>12 DEF UncountUsedStore
    <2>13. CASE TestHint(t)  BY <2>13, SMT DEF TestHint
    <2>14. CASE SetHint(t)  BY <2>14 DEF SetHint
    <2> QED
      BY <1>3, <2>1, <2>2, <2>3, <2>4, <2>5, <2>6, <2>7, <2>8, <2>9, <2>10,
         <2>11, <2>12, <2>13, <2>14 DEF Step
  <1> QED
    BY <1>1, <1>2, <1>3 DEF Next

\* Every instruction keeps the variables in range.
LEMMA NextTypeOK ==
  ASSUME TypeOK, PlaceInv, [Next]_vars PROVE TypeOK'
  <1> DEFINE RegType == [word : SUBSET Block, count : Int]
  <1>0. /\ NoReg \in RegType
        /\ CountReg \in RegType
        /\ \A c : WordReg(c) \in RegType
        /\ reg \in [Thread -> RegType]
    BY SMT DEF NoReg, CountReg, WordReg, TypeOK
  <1>00. \A t \in Thread : reg[t].word \subseteq Block /\ reg[t].count \in Int
    BY DEF TypeOK
  <1> USE DEF TypeOK, PC, LockedPC, FreePC, marks
  <1> HIDE DEF RegType
  <1>1. CASE UNCHANGED vars
    BY <1>1 DEF vars
  <1>2. ASSUME NEW t \in Thread, Call(t) PROVE TypeOK'
    <2>1. CASE Lock(t)  BY <2>1 DEF Lock, Goto
    <2>2. CASE Free(t)
      <3>1. PICK b \in Block : /\ owned[b] > 0
                               /\ block' = [block EXCEPT ![t] = b]
                               /\ owned' = [owned EXCEPT ![b] = @ - 1]
        BY <2>2 DEF Free
      <3>2. owned' \in [Block -> Nat] /\ out' \in Int
        BY <2>2, <3>1, SMT DEF Free
      <3>3. block' \in [Thread -> Nat]
        BY <3>1, PlaceFacts
      <3>4. pc' \in [Thread -> PC]
        BY <2>2 DEF Free, Goto
      <3> QED
        BY <2>2, <3>2, <3>3, <3>4 DEF Free
    <2> QED  BY <1>2, <2>1, <2>2 DEF Call
  <1>3. ASSUME NEW t \in Thread, Step(t) PROVE TypeOK'
    <2> USE DEF Goto
    <2>0. pc[t] \in FoundPC => block[t] \in Block /\ ChunkOf(block[t]) \in Nat /\ ChunkOf(block[t]) < Limit
      BY PlaceFacts DEF PlaceInv, Searched
    <2>1. CASE StartSearch(t)  BY <2>1, PlaceFacts DEF StartSearch
    <2>2. CASE TestChunk(t)
      <3>1. block' \in [Thread -> Nat]
        BY <2>2, PlaceFacts, SMT DEF TestChunk
      <3> QED
        BY <2>2, <3>1 DEF TestChunk
    <2>3. CASE TestBit(t)
      <3>1. block' \in [Thread -> Nat]
        BY <2>3, SMT DEF TestBit
      <3>2. next_chunk' \in Nat /\ (next_chunk' < Limit \/ next_chunk' = 1)
        BY <2>0, <2>3 DEF TestBit, FoundPC
      <3> QED
        BY <2>3, <3>1, <3>2 DEF TestBit
    <2>4. CASE SetBit(t)  BY <1>0, <2>4 DEF SetBit, RegType
    <2>5. CASE SetBitStore(t)  BY <1>0, <1>00, <2>0, <2>5 DEF SetBitStore, FoundPC, RegType
    <2>6. CASE CountUsed(t)  BY <1>0, <2>6 DEF CountUsed, RegType
    <2>7. CASE CountUsedStore(t)
      <3>1. used_blocks' \in Int
        BY <1>00, <2>7, SMT DEF CountUsedStore
      <3> QED
        BY <1>0, <2>7, <3>1 DEF CountUsedStore, RegType
    <2>8. CASE Unlock(t)
      <3>1. owned' \in [Block -> Nat] /\ out' \in Int
        BY <2>0, <2>8, SMT DEF Unlock, FoundPC
      <3> QED
        BY <2>8, <3>1 DEF Unlock
    <2>9. CASE ClearBit(t)  BY <1>0, <2>9 DEF ClearBit, RegType
    <2>10. CASE ClearBitStore(t)
      <3>1. SetSince(t) \subseteq Block /\ block[t] \in Block
        BY <2>0, <2>10 DEF SetSince, ClearBitStore, FoundPC
      <3> QED
        BY <1>0, <1>00, <2>10, <3>1 DEF ClearBitStore, RegType
    <2>11. CASE UncountUsed(t)  BY <1>0, <2>11 DEF UncountUsed, RegType
    <2>12. CASE UncountUsedStore(t)
      <3>1. used_blocks' \in Int
        BY <1>00, <2>12, SMT DEF UncountUsedStore
      <3> QED
        BY <1>0, <2>12, <3>1 DEF UncountUsedStore, RegType
    <2>13. CASE TestHint(t)  BY <2>13, SMT DEF TestHint
    <2>14. CASE SetHint(t)  BY <2>0, <2>14 DEF SetHint, FoundPC
    <2> QED
      BY <1>3, <2>1, <2>2, <2>3, <2>4, <2>5, <2>6, <2>7, <2>8, <2>9, <2>10,
         <2>11, <2>12, <2>13, <2>14 DEF Step
  <1> QED
    BY <1>1, <1>2, <1>3 DEF Next

-----------------------------------------------------------------------------
(* Who has which block, and which bits are set.                            *)

SetPC == {"set", "set_store"}

\* A step that gives nobody a block and takes none away keeps the owners.
LEMMA SameHolders ==
  ASSUME OwnerInv, UNCHANGED <<owned, erased>>,
         \A u \in Thread : pc'[u] \in HoldPC <=> pc[u] \in HoldPC,
         \A u \in Thread : pc[u] \in HoldPC => block'[u] = block[u]
  PROVE  OwnerInv' /\ \A b \in Block : Held(b)' <=> Held(b)
  <1>1. \A b \in Block : Held(b)' <=> Held(b)
    BY DEF Held
  <1>2. ASSUME NEW b \in Block \ erased PROVE Sole(b)'
    <2>1. Sole(b) /\ owned' = owned
      BY DEF OwnerInv
    <2>2. \A t \in Thread : Keeps(t, b)' => Keeps(t, b)
      BY DEF Keeps
    <2> QED
      BY <2>1, <2>2 DEF Sole
  <1> QED
    BY <1>1, <1>2 DEF OwnerInv

\* A step that changes neither the bitmap nor who has a block keeps the marks,
\* if what the search has found and set_bit has loaded is right.
LEMMA SameMarks ==
  ASSUME MarkInv, bitmap \subseteq Block, UNCHANGED <<bitmap, erased, leaked>>,
         \A b \in Block : Held(b)' <=> Held(b),
         \A u \in Thread : pc'[u] \in SetPC =>
            block'[u] \in Block /\ (block'[u] \in erased \/ (~Held(block'[u]) /\ block'[u] \in Usable)),
         \A u \in Thread : pc'[u] = "set_store" =>
            \A b \in BlocksOf(ChunkOf(block'[u])) \ erased :
               Held(b) \/ b \notin Usable => b \in reg'[u].word
  PROVE  MarkInv'
  <1>1. \A b \in Block \ erased' : Held(b)' => b \in Usable
    BY DEF MarkInv
  <1>2. \A b \in Block \ erased' : Held(b)' \/ b \notin Usable => b \in bitmap'
    BY DEF MarkInv
  <1>3. \A b \in bitmap' : Held(b)' \/ b \notin Usable \/ b \in leaked'
    BY DEF MarkInv
  <1>4. ASSUME NEW t \in Thread, pc'[t] \in {"set", "set_store"}
        PROVE  block'[t] \in erased' \/ (~Held(block[t])' /\ block'[t] \in Usable)
    BY <1>4 DEF SetPC
  <1>5. ASSUME NEW t \in Thread, pc'[t] = "set_store",
               NEW b \in BlocksOf(ChunkOf(block'[t])) \ erased', Held(b)' \/ b \notin Usable
        PROVE  b \in reg'[t].word
    BY <1>5 DEF BlocksOf
  <1> QED
    BY <1>1, <1>2, <1>3, <1>4, <1>5 DEF MarkInv

\* Most instructions touch no bit and no owner.
LEMMA QuietStep ==
  ASSUME TypeOK, PlaceInv, OwnerInv, MarkInv, UNCHANGED <<owned, bitmap, erased, leaked>>,
         \A u \in Thread : pc'[u] \in HoldPC <=> pc[u] \in HoldPC,
         \A u \in Thread : pc'[u] \in SetPC => pc'[u] = pc[u],
         \A u \in Thread : pc'[u] \in HoldPC \union SetPC => block'[u] = block[u],
         \A u \in Thread : pc'[u] = "set_store" => reg'[u] = reg[u]
  PROVE  OwnerInv' /\ MarkInv'
  <1>1. OwnerInv' /\ \A b \in Block : Held(b)' <=> Held(b)
    BY SameHolders
  <1>2. \A u \in Thread : pc[u] \in SetPC => block[u] \in Block
    BY PlaceFacts DEF PlaceInv, FoundPC, SetPC
  <1>3. \A u \in Thread : pc'[u] \in SetPC =>
          block'[u] \in Block /\ (block'[u] \in erased \/ (~Held(block'[u]) /\ block'[u] \in Usable))
    BY <1>2 DEF MarkInv, SetPC
  <1>4. \A u \in Thread : pc'[u] = "set_store" =>
          \A b \in BlocksOf(ChunkOf(block'[u])) \ erased :
             Held(b) \/ b \notin Usable => b \in reg'[u].word
    BY DEF MarkInv, SetPC
  <1> QED
    BY <1>1, <1>3, <1>4, SameMarks DEF TypeOK

\* Every instruction keeps the owners apart and the marks right, up to the bits
\* that a store of free_physical_block erases.
LEMMA NextMarkInv ==
  ASSUME TypeOK, LockInv, PlaceInv, OwnerInv, MarkInv, [Next]_vars
  PROVE  OwnerInv' /\ MarkInv'
  <1>0. /\ pc \in [Thread -> PC] /\ block \in [Thread -> Nat] /\ owned \in [Block -> Nat]
        /\ DOMAIN reg = Thread /\ bitmap \subseteq Block
    BY DEF TypeOK
  <1> USE DEF marks
  <1>1. CASE UNCHANGED vars
    BY <1>1, QuietStep DEF vars
  <1>2. ASSUME NEW t \in Thread, Lock(t) PROVE OwnerInv' /\ MarkInv'
    BY <1>0, <1>2, QuietStep DEF Lock, Goto, HoldPC, SetPC
  <1>3. ASSUME NEW t \in Thread, Free(t) PROVE OwnerInv' /\ MarkInv'
    <2>1. PICK b \in Block : /\ owned[b] > 0 /\ pc[t] = "idle"
                             /\ pc' = [pc EXCEPT ![t] = "clear"]
                             /\ block' = [block EXCEPT ![t] = b]
                             /\ owned' = [owned EXCEPT ![b] = @ - 1]
                             /\ UNCHANGED <<bitmap, reg, erased, leaked>>
      BY <1>3 DEF Free, Goto
    <2>2. \A c \in Block : Held(c)' <=> Held(c)
      <3>1. Held(b) /\ Held(b)'
        BY <1>0, <2>1 DEF Held, HoldPC
      <3>2. \A c \in Block \ {b} : Held(c)' <=> Held(c)
        BY <1>0, <2>1 DEF Held, HoldPC
      <3> QED
        BY <3>1, <3>2
    <2>3. OwnerInv'
      <3>1. ASSUME NEW c \in Block \ erased PROVE Sole(c)'
        <4>1. Sole(c)
          BY DEF OwnerInv
        <4>2. CASE c = b
          <5>1. owned[b] = 1 /\ owned'[b] = 0
            BY <1>0, <2>1, <4>1, <4>2, SMT DEF Sole
          <5>2. \A u \in Thread : ~Keeps(u, b)
            BY <4>1, <4>2, <5>1, SMT DEF Sole
          <5>3. \A u \in Thread : Keeps(u, b)' => u = t
            BY <1>0, <2>1, <5>2 DEF Keeps
          <5> QED
            BY <4>2, <5>1, <5>3, SMT DEF Sole
        <4>3. CASE c # b
          <5>1. owned'[c] = owned[c]
            BY <1>0, <2>1, <4>3
          <5>2. \A u \in Thread : Keeps(u, c)' => Keeps(u, c)
            BY <1>0, <2>1, <4>3 DEF Keeps
          <5> QED
            BY <4>1, <5>1, <5>2 DEF Sole
        <4> QED
          BY <4>2, <4>3
      <3> QED
        BY <2>1, <3>1 DEF OwnerInv
    <2>4. \A u \in Thread : pc'[u] \in SetPC => pc'[u] = pc[u] /\ block'[u] = block[u] /\ reg'[u] = reg[u]
      BY <1>0, <2>1 DEF SetPC
    <2>5. \A u \in Thread : pc[u] \in SetPC => block[u] \in Block
      BY PlaceFacts DEF PlaceInv, FoundPC, SetPC
    <2>6. \A u \in Thread : pc'[u] \in SetPC =>
            block'[u] \in Block /\ (block'[u] \in erased \/ (~Held(block'[u]) /\ block'[u] \in Usable))
      BY <2>4, <2>5 DEF MarkInv, SetPC
    <2>7. \A u \in Thread : pc'[u] = "set_store" =>
            \A c \in BlocksOf(ChunkOf(block'[u])) \ erased :
               Held(c) \/ c \notin Usable => c \in reg'[u].word
      BY <2>4 DEF MarkInv, SetPC
    <2> QED
      BY <1>0, <2>1, <2>2, <2>3, <2>6, <2>7, SameMarks
  <1>4. ASSUME NEW t \in Thread, Step(t) PROVE OwnerInv' /\ MarkInv'
    <2>0. /\ \A u \in Thread : pc[u] \in FoundPC => block[u] \in Block
          /\ \A u \in Thread : u # t /\ pc[t] \in LockedPC => pc[u] \notin LockedPC
      BY PlaceFacts DEF PlaceInv, LockInv
    <2>00. \A u \in Thread : pc[u] \in SetPC => block[u] \in Block
      BY <2>0 DEF FoundPC, SetPC
    <2>1. CASE StartSearch(t)
      BY <1>0, <2>1, QuietStep DEF StartSearch, Goto, HoldPC, SetPC
    <2>2. CASE TestChunk(t)
      <3>1. pc' \in {[pc EXCEPT ![t] = "bit"], [pc EXCEPT ![t] = "chunk"], [pc EXCEPT ![t] = "panic"]}
        BY <2>2 DEF TestChunk, Goto
      <3>2. /\ UNCHANGED <<owned, bitmap, erased, leaked, reg>> /\ pc[t] = "chunk"
            /\ \A u \in Thread \ {t} : block'[u] = block[u]
        BY <1>0, <2>2 DEF TestChunk, Goto
      <3> QED
        BY <1>0, <3>1, <3>2, QuietStep DEF HoldPC, SetPC
    <2>3. CASE TestBit(t)
      <3>1. /\ UNCHANGED <<owned, bitmap, erased, leaked, reg>> /\ pc[t] = "bit"
            /\ pc'[t] \in {"set", "bit", "chunk"}
            /\ \A u \in Thread \ {t} : block'[u] = block[u] /\ pc'[u] = pc[u]
        BY <1>0, <2>3 DEF TestBit, Goto
      <3>2. pc'[t] = "set" => block[t] \notin bitmap /\ block'[t] = block[t]
        BY <1>0, <2>3 DEF TestBit, Goto
      <3>3. OwnerInv' /\ \A b \in Block : Held(b)' <=> Held(b)
        BY <3>1, SameHolders DEF HoldPC
      <3>4. ASSUME NEW u \in Thread, pc'[u] \in SetPC
            PROVE  block'[u] \in Block /\ (block'[u] \in erased \/ (~Held(block'[u]) /\ block'[u] \in Usable))
        <4>1. CASE u # t
          BY <2>00, <3>1, <3>4, <4>1 DEF MarkInv, SetPC
        <4>2. CASE u = t
          <5>1. block'[t] = block[t] /\ block[t] \notin bitmap /\ block[t] \in Block
            BY <2>0, <3>1, <3>2, <3>4, <4>2 DEF SetPC, FoundPC
          <5> QED
            BY <4>2, <5>1 DEF MarkInv
        <4> QED
          BY <4>1, <4>2
      <3>5. \A u \in Thread : pc'[u] = "set_store" =>
              \A b \in BlocksOf(ChunkOf(block'[u])) \ erased :
                 Held(b) \/ b \notin Usable => b \in reg'[u].word
        BY <3>1 DEF MarkInv
      <3> QED
        BY <1>0, <3>1, <3>3, <3>4, <3>5, SameMarks
    <2>4. CASE SetBit(t)
      <3>1. /\ UNCHANGED <<owned, bitmap, erased, leaked, block>> /\ pc[t] = "set" /\ pc'[t] = "set_store"
            /\ reg'[t] = WordReg(ChunkOf(block[t]))
            /\ \A u \in Thread \ {t} : reg'[u] = reg[u] /\ pc'[u] = pc[u]
        BY <1>0, <2>4 DEF SetBit, Goto
      <3>2. OwnerInv' /\ \A b \in Block : Held(b)' <=> Held(b)
        BY <3>1, SameHolders DEF HoldPC
      <3>3. ASSUME NEW u \in Thread, pc'[u] \in SetPC
            PROVE  block'[u] \in Block /\ (block'[u] \in erased \/ (~Held(block'[u]) /\ block'[u] \in Usable))
        BY <2>00, <3>1, <3>3 DEF MarkInv, SetPC
      <3>4. ASSUME NEW u \in Thread, pc'[u] = "set_store",
                   NEW b \in BlocksOf(ChunkOf(block'[u])) \ erased, Held(b) \/ b \notin Usable
            PROVE  b \in reg'[u].word
        <4>1. CASE u # t
          BY <3>1, <3>4, <4>1 DEF MarkInv
        <4>2. CASE u = t
          <5>1. b \in Block /\ b \in BlocksOf(ChunkOf(block[t]))
            BY <3>1, <3>4, <4>2 DEF BlocksOf
          <5>2. b \in bitmap
            BY <3>4, <5>1 DEF MarkInv
          <5> QED
            BY <3>1, <4>2, <5>1, <5>2, SMT DEF WordReg
        <4> QED
          BY <4>1, <4>2
      <3> QED
        BY <1>0, <3>1, <3>2, <3>3, <3>4, SameMarks
    <2>5. CASE SetBitStore(t)
      <3>0. PICK b \in Nat : b = block[t]
        BY <1>0
      <3>1. /\ UNCHANGED <<owned, block, erased>> /\ pc[t] = "set_store" /\ pc'[t] = "count"
            /\ block[t] = b
            /\ bitmap' = (bitmap \ BlocksOf(ChunkOf(b))) \union reg[t].word \union {b}
            /\ leaked' = leaked \union (reg[t].word \ bitmap)
            /\ \A u \in Thread \ {t} : pc'[u] = pc[u]
        BY <1>0, <2>5, <3>0 DEF SetBitStore, Goto
      <3>2. b \in Block /\ (b \in erased \/ (~Held(b) /\ b \in Usable))
        BY <2>00, <3>1 DEF MarkInv, SetPC
      <3>3. Held(b)' /\ \A c \in Block \ {b} : Held(c)' <=> Held(c)
        <4>1. Held(b)'
          BY <3>1 DEF Held, HoldPC
        <4>2. \A c \in Block \ {b} : Held(c)' <=> Held(c)
          BY <3>1 DEF Held, HoldPC
        <4> QED
          BY <4>1, <4>2
      <3>4. OwnerInv'
        <4>1. ASSUME NEW c \in Block \ erased PROVE Sole(c)'
          <5>1. Sole(c)
            BY DEF OwnerInv
          <5>2. CASE c = b
            <6>1. ~Held(b)
              BY <3>2, <4>1, <5>2
            <6>2. owned[b] = 0
              BY <1>0, <3>2, <6>1, SMT DEF Held
            <6>3. \A u \in Thread : Keeps(u, b)' => u = t
              BY <3>1, <6>1 DEF Held, Keeps
            <6> QED
              BY <3>1, <5>2, <6>2, <6>3, SMT DEF Sole
          <5>3. CASE c # b
            <6>1. \A u \in Thread : Keeps(u, c)' => Keeps(u, c)
              BY <3>1, <5>3 DEF Keeps
            <6> QED
              BY <3>1, <5>1, <6>1 DEF Sole
          <5> QED
            BY <5>2, <5>3
        <4> QED
          BY <3>1, <4>1 DEF OwnerInv
      <3>5. \A u \in Thread : pc'[u] \notin SetPC
        BY <2>0, <3>1 DEF SetPC, LockedPC
      <3>6. \A c \in Block \ erased' : Held(c)' => c \in Usable
        BY <3>1, <3>2, <3>3 DEF MarkInv
      <3>7. ASSUME NEW c \in Block \ erased', Held(c)' \/ c \notin Usable PROVE c \in bitmap'
        <4>1. CASE c = b
          BY <3>1, <4>1
        <4>2. CASE c # b
          <5>1. Held(c) \/ c \notin Usable
            BY <3>3, <3>7, <4>2
          <5>2. c \in bitmap
            BY <3>1, <3>7, <5>1 DEF MarkInv
          <5>3. c \in BlocksOf(ChunkOf(b)) => c \in reg[t].word
            BY <3>1, <3>7, <5>1 DEF MarkInv
          <5> QED
            BY <3>1, <5>2, <5>3
        <4> QED
          BY <4>1, <4>2
      <3>8. ASSUME NEW c \in bitmap' PROVE Held(c)' \/ c \notin Usable \/ c \in leaked'
        <4>1. CASE c = b
          BY <3>3, <4>1
        <4>2. CASE c # b /\ c \in bitmap
          BY <1>0, <3>1, <3>3, <4>2 DEF MarkInv
        <4>3. CASE c # b /\ c \notin bitmap
          BY <3>1, <3>8, <4>3
        <4> QED
          BY <4>1, <4>2, <4>3
      <3> QED
        BY <3>4, <3>5, <3>6, <3>7, <3>8 DEF MarkInv, SetPC
    <2>6. CASE CountUsed(t)
      BY <1>0, <2>6, QuietStep DEF CountUsed, Goto, HoldPC, SetPC
    <2>7. CASE CountUsedStore(t)
      BY <1>0, <2>7, QuietStep DEF CountUsedStore, Goto, HoldPC, SetPC
    <2>8. CASE Unlock(t)
      <3>0. PICK b \in Nat : b = block[t]
        BY <1>0
      <3>1. /\ UNCHANGED <<bitmap, erased, leaked, reg>> /\ pc[t] = "unlock" /\ pc'[t] = "idle"
            /\ block[t] = b
            /\ owned' = [owned EXCEPT ![b] = @ + 1]
            /\ \A u \in Thread \ {t} : pc'[u] = pc[u] /\ block'[u] = block[u]
        BY <1>0, <2>8, <3>0 DEF Unlock, Goto
      <3>2. b \in Block /\ pc[t] \in HoldPC
        BY <2>0, <3>1 DEF FoundPC, HoldPC
      <3>3. owned'[b] = owned[b] + 1 /\ \A c \in Block \ {b} : owned'[c] = owned[c]
        BY <1>0, <3>1, <3>2
      <3>4. \A c \in Block : Held(c)' <=> Held(c)
        <4>1. Held(b) /\ Held(b)'
          <5>1. owned'[b] > 0
            BY <1>0, <3>2, <3>3, SMT
          <5> QED
            BY <3>1, <3>2, <5>1 DEF Held
        <4>2. \A c \in Block \ {b} : Held(c)' <=> Held(c)
          BY <3>1, <3>3 DEF Held, HoldPC
        <4> QED
          BY <4>1, <4>2
      <3>5. OwnerInv'
        <4>1. ASSUME NEW c \in Block \ erased PROVE Sole(c)'
          <5>1. Sole(c)
            BY DEF OwnerInv
          <5>2. CASE c = b
            <6>1. Keeps(t, b)
              BY <3>1, <3>2 DEF Keeps
            <6>2. owned[b] = 0 /\ \A u \in Thread : Keeps(u, b) => u = t
              BY <5>1, <5>2, <6>1 DEF Sole
            <6>3. \A u \in Thread : ~Keeps(u, b)'
              BY <3>1, <6>2 DEF Keeps, HoldPC
            <6>4. owned'[b] <= 1
              BY <3>3, <6>2, SMT
            <6> QED
              BY <5>2, <6>3, <6>4 DEF Sole
          <5>3. CASE c # b
            <6>1. \A u \in Thread : Keeps(u, c)' => Keeps(u, c)
              BY <3>1 DEF Keeps, HoldPC
            <6> QED
              BY <3>3, <5>1, <5>3, <6>1 DEF Sole
          <5> QED
            BY <5>2, <5>3
        <4> QED
          BY <3>1, <4>1 DEF OwnerInv
      <3>6. \A u \in Thread : pc'[u] \in SetPC => pc'[u] = pc[u] /\ block'[u] = block[u] /\ reg'[u] = reg[u]
        BY <3>1 DEF SetPC
      <3>7. \A u \in Thread : pc'[u] \in SetPC =>
              block'[u] \in Block /\ (block'[u] \in erased \/ (~Held(block'[u]) /\ block'[u] \in Usable))
        BY <2>00, <3>6 DEF MarkInv, SetPC
      <3>8. \A u \in Thread : pc'[u] = "set_store" =>
              \A c \in BlocksOf(ChunkOf(block'[u])) \ erased :
                 Held(c) \/ c \notin Usable => c \in reg'[u].word
        BY <3>6 DEF MarkInv, SetPC
      <3> QED
        BY <1>0, <3>1, <3>4, <3>5, <3>7, <3>8, SameMarks
    <2>9. CASE ClearBit(t)
      BY <1>0, <2>9, QuietStep DEF ClearBit, Goto, HoldPC, SetPC
    <2>10. CASE ClearBitStore(t)
      <3>0. PICK b \in Nat : b = block[t]
        BY <1>0
      <3>1. /\ UNCHANGED <<owned, block>> /\ pc[t] = "clear_store" /\ pc'[t] = "uncount"
            /\ block[t] = b
            /\ bitmap' = (bitmap \ BlocksOf(ChunkOf(b))) \union (reg[t].word \ {b})
            /\ erased' = erased \union ((bitmap \intersect BlocksOf(ChunkOf(b))) \ reg[t].word)
            /\ leaked' = leaked \union (reg[t].word \ (bitmap \union {b}))
            /\ \A u \in Thread \ {t} : pc'[u] = pc[u] /\ reg'[u] = reg[u]
        BY <1>0, <2>10, <3>0 DEF ClearBitStore, Goto, SetSince
      <3>2. b \in Block /\ b \in BlocksOf(ChunkOf(b)) /\ pc[t] \in HoldPC /\ Held(b)
        BY <2>0, <3>1 DEF FoundPC, FreePC, BlocksOf, HoldPC, Held
      <3>3. \A c \in Block : Held(c)' => Held(c)
        BY <3>1 DEF Held, HoldPC
      <3>4. \A c \in Block \ {b} : Held(c) => Held(c)'
        BY <3>1 DEF Held, HoldPC
      <3>5. b \notin erased => ~Held(b)' /\ b \in Usable
        <4> SUFFICES ASSUME b \notin erased PROVE ~Held(b)' /\ b \in Usable
          OBVIOUS
        <4>1. Sole(b) /\ Keeps(t, b)
          BY <3>1, <3>2 DEF OwnerInv, Keeps
        <4>2. owned[b] = 0 /\ \A u \in Thread : Keeps(u, b) => u = t
          BY <4>1 DEF Sole
        <4>3. \A u \in Thread : ~(pc'[u] \in HoldPC /\ block'[u] = b)
          BY <3>1, <4>2 DEF HoldPC, Keeps
        <4>4. ~(owned'[b] > 0)
          BY <3>1, <4>2, SMT
        <4> QED
          BY <3>2, <4>3, <4>4 DEF Held, MarkInv
      <3>6. erased \subseteq erased' /\ leaked \subseteq leaked'
        BY <3>1
      <3>7. OwnerInv'
        <4>1. ASSUME NEW c \in Block \ erased' PROVE Sole(c)'
          <5>1. Sole(c)
            BY <3>6 DEF OwnerInv
          <5>2. \A u \in Thread : Keeps(u, c)' => Keeps(u, c)
            BY <3>1 DEF Keeps, HoldPC
          <5> QED
            BY <3>1, <5>1, <5>2 DEF Sole
        <4> QED
          BY <4>1 DEF OwnerInv
      <3>8. \A c \in Block \ erased' : Held(c)' => c \in Usable
        BY <3>3, <3>6 DEF MarkInv
      <3>9. ASSUME NEW c \in Block \ erased', Held(c)' \/ c \notin Usable PROVE c \in bitmap'
        <4>1. c \notin erased /\ (Held(c) \/ c \notin Usable)
          BY <3>3, <3>6, <3>9
        <4>2. c # b
          BY <3>5, <3>9, <4>1
        <4>3. c \in bitmap
          BY <4>1 DEF MarkInv
        <4> QED
          BY <3>1, <3>9, <4>2, <4>3
      <3>10. ASSUME NEW c \in bitmap' PROVE Held(c)' \/ c \notin Usable \/ c \in leaked'
        <4>1. CASE c \in bitmap
          <5>1. c # b
            BY <3>1, <3>2, <3>10
          <5> QED
            BY <1>0, <3>4, <3>6, <4>1, <5>1 DEF MarkInv
        <4>2. CASE c \notin bitmap
          BY <3>1, <3>10, <4>2
        <4> QED
          BY <4>1, <4>2
      <3>11. ASSUME NEW u \in Thread, pc'[u] \in {"set", "set_store"}
             PROVE  /\ u # t /\ pc[u] = pc'[u] /\ block'[u] = block[u] /\ reg'[u] = reg[u]
                    /\ block[u] \in Block
        BY <2>00, <3>1, <3>11 DEF SetPC
      <3>12. ASSUME NEW u \in Thread, pc'[u] \in {"set", "set_store"}
             PROVE  block'[u] \in erased' \/ (~Held(block[u])' /\ block'[u] \in Usable)
        BY <3>3, <3>6, <3>11, <3>12 DEF MarkInv
      <3>13. ASSUME NEW u \in Thread, pc'[u] = "set_store",
                    NEW c \in BlocksOf(ChunkOf(block'[u])) \ erased', Held(c)' \/ c \notin Usable
             PROVE  c \in reg'[u].word
        <4>1. c \in Block /\ c \in BlocksOf(ChunkOf(block[u])) \ erased /\ (Held(c) \/ c \notin Usable)
          BY <3>3, <3>6, <3>11, <3>13 DEF BlocksOf
        <4> QED
          BY <3>11, <3>13, <4>1 DEF MarkInv
      <3> QED
        BY <3>7, <3>8, <3>9, <3>10, <3>12, <3>13 DEF MarkInv
    <2>11. CASE UncountUsed(t)
      BY <1>0, <2>11, QuietStep DEF UncountUsed, Goto, HoldPC, SetPC
    <2>12. CASE UncountUsedStore(t)
      BY <1>0, <2>12, QuietStep DEF UncountUsedStore, Goto, HoldPC, SetPC
    <2>13. CASE TestHint(t)
      BY <1>0, <2>13, QuietStep DEF TestHint, Goto, HoldPC, SetPC
    <2>14. CASE SetHint(t)
      BY <1>0, <2>14, QuietStep DEF SetHint, Goto, HoldPC, SetPC
    <2> QED
      BY <1>4, <2>1, <2>2, <2>3, <2>4, <2>5, <2>6, <2>7, <2>8, <2>9, <2>10,
         <2>11, <2>12, <2>13, <2>14 DEF Step
  <1> QED
    BY <1>1, <1>2, <1>3, <1>4 DEF Next, Call

-----------------------------------------------------------------------------
(* The search gives up only when it has seen everything.                   *)

\* While a thread searches, no block that the search has passed gets lost:
\* free_physical_block moves it from the bitmap to the freed ones.
LEMMA PassedStays ==
  ASSUME NEW t \in Thread, Passed(t), block'[t] = block[t],
         bitmap \union freed \subseteq bitmap' \union freed'
  PROVE  Passed(t)'
  BY DEF Passed

\* A step that moves nobody in the search keeps what the search knows.
LEMMA SearchStays ==
  ASSUME SearchInv, bitmap \union freed \subseteq bitmap' \union freed',
         \A u \in Thread : pc'[u] = "panic" => pc[u] = "panic",
         \A u \in Thread : pc'[u] \in {"chunk", "bit"} =>
            pc'[u] = pc[u] /\ block'[u] = block[u] /\ pass'[u] = pass[u]
  PROVE  SearchInv'
  <1>1. ASSUME NEW u \in Thread, pc'[u] \in {"chunk", "bit"}, pass'[u] = 2 PROVE Passed(u)'
    <2>1. Passed(u) /\ block'[u] = block[u]
      BY <1>1 DEF SearchInv
    <2> QED
      BY <2>1, PassedStays
  <1>2. OutOfMemoryIsFull'
    BY DEF SearchInv, OutOfMemoryIsFull
  <1> QED
    BY <1>1, <1>2 DEF SearchInv

\* Every instruction keeps what the second loop knows, and the loop ends without
\* a block only when every chunk it may search was full.
LEMMA NextSearchInv ==
  ASSUME TypeOK, LockInv, SearchInv, [Next]_vars PROVE SearchInv'
  <1>0. /\ pc \in [Thread -> PC] /\ block \in [Thread -> Nat] /\ pass \in [Thread -> {1, 2}]
    BY DEF TypeOK
  <1>1. CASE UNCHANGED vars
    BY <1>1, SearchStays DEF vars
  <1> SUFFICES ASSUME NEW t \in Thread, Call(t) \/ Step(t) PROVE SearchInv'
    BY <1>1 DEF Next
  <1>3. ASSUME NEW u \in Thread, pc[u] \in {"chunk", "bit"}, pass[u] = 2 PROVE Passed(u)
    BY <1>3 DEF SearchInv
  <1>4. \A u \in Thread : u # t /\ pc[t] \in LockedPC => pc[u] \notin LockedPC
    BY DEF LockInv
  <1>5. \A u \in Thread : pc[u] \in LockedPC => allocator_lock = 1
    BY DEF LockInv
  <1> USE DEF Goto, LockedPC
  \* Nobody else is inside allocate_physical_block, and nobody finds memory full.
  <1>6. ASSUME \A u \in Thread : pc'[u] # "panic",
               \A u \in Thread : pc'[u] \in {"chunk", "bit"} /\ pass'[u] = 2 => Passed(u)'
        PROVE  SearchInv'
    BY <1>6 DEF SearchInv, OutOfMemoryIsFull
  <1>7. CASE Lock(t)
    <2>1. \A u \in Thread : pc[u] \notin LockedPC
      BY <1>5, <1>7, SMT DEF Lock
    <2>2. \A u \in Thread : pc'[u] \notin {"panic", "chunk", "bit"}
      BY <1>0, <1>7, <2>1 DEF Lock
    <2> QED
      BY <1>6, <2>2
  <1>8. CASE Free(t)
    BY <1>0, <1>8, SearchStays DEF Free
  <1>9. CASE StartSearch(t)
    <2>1. \A u \in Thread \ {t} : pc'[u] \notin LockedPC
      BY <1>0, <1>4, <1>9 DEF StartSearch
    <2>2. pc'[t] = "chunk" /\ pass'[t] = 1
      BY <1>0, <1>9 DEF StartSearch
    <2>3. \A u \in Thread : pc'[u] # "panic" /\ (pc'[u] \in {"chunk", "bit"} => u = t)
      BY <2>1, <2>2
    <2>4. pass'[t] # 2
      BY <2>2, SMT
    <2> QED
      BY <1>6, <2>3, <2>4
  <1>10. CASE TestChunk(t)
    <2>c. PICK c \in Nat : c = ChunkOf(block[t])
      BY <1>0, PlaceFacts
    <2>0. /\ \A u \in Thread \ {t} : pc'[u] = pc[u] /\ pc'[u] \notin LockedPC
          /\ UNCHANGED <<bitmap, freed>> /\ pc[t] = "chunk"
      BY <1>0, <1>4, <1>10 DEF TestChunk
    <2>1. CASE pc' = [pc EXCEPT ![t] = "bit"] /\ UNCHANGED <<block, pass>>
      <3>1. \A u \in Thread : pc'[u] # "panic" /\ (pc'[u] \in {"chunk", "bit"} => u = t)
        BY <1>0, <2>0, <2>1
      <3>2. pass'[t] = 2 => Passed(t)'
        BY <1>3, <2>0, <2>1, PassedStays
      <3> QED
        BY <1>6, <3>1, <3>2
    <2>2. CASE /\ c < Limit /\ BlocksOf(c) \subseteq bitmap
               /\ pc' = [pc EXCEPT ![t] = "chunk"]
               /\ block' = [block EXCEPT ![t] = (c + 1) * ChunkBits]
               /\ UNCHANGED pass
      <3>1. ASSUME pass[t] = 2, NEW b \in Block, ChunkBits <= b, b < (c + 1) * ChunkBits
            PROVE  b \in bitmap \union freed
        <4>1. CASE b < block[t]
          BY <1>3, <2>0, <3>1, <4>1 DEF Passed
        <4>2. CASE block[t] <= b
          <5>1. b \in Nat /\ block[t] \in Nat /\ ChunkOf(b) \in Nat
            BY <1>0, PlaceFacts
          <5>2. b < ChunkBits * (c + 1)
            BY <3>1, <5>1, ChunkAssumption, SMT
          <5>3. ChunkOf(b) = c
            BY <2>c, <4>2, <5>1, <5>2, ChunkBelow
          <5> QED
            BY <2>2, <5>3 DEF BlocksOf
        <4>3. b \in Nat /\ block[t] \in Nat
          BY <1>0, PlaceFacts
        <4> QED
          BY <4>1, <4>2, <4>3, SMT
      <3>2. pass'[t] = 2 => Passed(t)'
        BY <1>0, <2>0, <2>2, <3>1 DEF Passed
      <3>3. \A u \in Thread : pc'[u] # "panic" /\ (pc'[u] \in {"chunk", "bit"} => u = t)
        BY <1>0, <2>0, <2>2
      <3> QED
        BY <1>6, <3>2, <3>3
    <2>3. CASE /\ pc' = [pc EXCEPT ![t] = "chunk"]
               /\ block' = [block EXCEPT ![t] = ChunkBits]
               /\ pass' = [pass EXCEPT ![t] = 2]
      <3>1. block'[t] = ChunkBits
        BY <1>0, <2>3
      <3>2. \A b \in Block : ~(ChunkBits <= b /\ b < ChunkBits)
        BY PlaceFacts, SMT
      <3>3. Passed(t)'
        BY <3>1, <3>2 DEF Passed
      <3>4. \A u \in Thread : pc'[u] # "panic" /\ (pc'[u] \in {"chunk", "bit"} => u = t)
        BY <1>0, <2>0, <2>3
      <3> QED
        BY <1>6, <3>3, <3>4
    <2>4. CASE c >= Limit /\ pass[t] = 2 /\ pc' = [pc EXCEPT ![t] = "panic"]
      <3>1. Passed(t)
        BY <1>3, <2>0, <2>4
      <3>2. ASSUME NEW d \in 1 .. Limit - 1, NEW b \in BlocksOf(d)
            PROVE  b \in bitmap \union freed
        <4>1. /\ b \in Block /\ b \in Nat /\ ChunkOf(b) = d
              /\ block[t] \in Nat /\ Limit \in Nat /\ ChunkBits \in Nat
          BY <1>0, PlaceFacts DEF BlocksOf
        <4>2. d \in Nat /\ d >= 1 /\ d < c
          <5> HIDE DEF Limit
          <5> QED
            BY <2>4, <4>1, SMT
        <4>3. b < block[t]
          BY <2>c, <4>1, <4>2, ChunkBelow
        <4>4. ChunkBits <= b
          <5>1. ChunkBits * d <= b
            BY <4>1, ChunkFacts
          <5>2. 0 < d
            BY <4>2, SMT
          <5>3. ChunkBits * 0 + ChunkBits <= ChunkBits * d
            BY <4>2, <5>2, ChunkOrder
          <5>4. ChunkBits * 0 + ChunkBits = ChunkBits
            BY <4>1, SMT
          <5>5. ChunkBits * d \in Nat
            BY <4>1, <4>2, SMT
          <5> QED
            BY <4>1, <5>1, <5>3, <5>4, <5>5, SMT
        <4> QED
          BY <3>1, <4>1, <4>3, <4>4 DEF Passed
      <3>3. OutOfMemoryIsFull'
        BY <2>0, <3>2 DEF OutOfMemoryIsFull
      <3>4. \A u \in Thread : pc'[u] \notin {"chunk", "bit"}
        BY <1>0, <2>0, <2>4
      <3> QED
        BY <3>3, <3>4 DEF SearchInv
    <2> QED
      BY <1>10, <2>c, <2>1, <2>2, <2>3, <2>4 DEF TestChunk
  <1>11. CASE TestBit(t)
    <2>0. /\ \A u \in Thread \ {t} : pc'[u] = pc[u] /\ pc'[u] \notin LockedPC
          /\ UNCHANGED <<bitmap, freed, pass>> /\ pc[t] = "bit"
          /\ pc'[t] \in {"set", "bit", "chunk"}
      BY <1>0, <1>4, <1>11 DEF TestBit
    <2>1. \A u \in Thread : pc'[u] # "panic" /\ (pc'[u] \in {"chunk", "bit"} => u = t)
      BY <2>0
    <2>2. CASE pc' = [pc EXCEPT ![t] = "set"]
      BY <1>0, <1>6, <2>1, <2>2
    <2>3. CASE block[t] \in bitmap /\ block' = [block EXCEPT ![t] = @ + 1]
      <3>1. pass[t] = 2 => Passed(t)'
        <4> SUFFICES ASSUME pass[t] = 2, NEW b \in Block, ChunkBits <= b, b < block[t] + 1
                     PROVE  b \in bitmap \union freed
          BY <1>0, <2>0, <2>3 DEF Passed
        <4>1. b \in Nat /\ block[t] \in Nat
          BY <1>0, PlaceFacts
        <4>2. b < block[t] \/ b = block[t]
          BY <4>1, SMT
        <4> QED
          BY <1>3, <2>0, <2>3, <4>2 DEF Passed
      <3> QED
        BY <1>6, <2>0, <2>1, <3>1
    <2> QED
      BY <1>11, <2>2, <2>3 DEF TestBit
  <1>12. CASE SetBit(t)
    BY <1>0, <1>12, SearchStays DEF SetBit
  <1>13. CASE SetBitStore(t)
    <2>1. \A u \in Thread : pc'[u] \notin {"panic", "chunk", "bit"}
      BY <1>0, <1>4, <1>13 DEF SetBitStore
    <2> QED
      BY <1>6, <2>1
  <1>14. CASE CountUsed(t)
    BY <1>0, <1>14, SearchStays DEF CountUsed
  <1>15. CASE CountUsedStore(t)
    BY <1>0, <1>15, SearchStays DEF CountUsedStore
  <1>16. CASE Unlock(t)
    <2>1. \A u \in Thread : pc'[u] \notin {"panic", "chunk", "bit"}
      BY <1>0, <1>4, <1>16 DEF Unlock
    <2> QED
      BY <1>6, <2>1
  <1>17. CASE ClearBit(t)
    BY <1>0, <1>17, SearchStays DEF ClearBit
  <1>18. CASE ClearBitStore(t)
    <2>1. CASE allocator_lock = 1
      <3>1. bitmap \union freed \subseteq bitmap' \union freed'
        BY <1>18, <2>1 DEF ClearBitStore, SetSince
      <3> QED
        BY <1>0, <1>18, <3>1, SearchStays DEF ClearBitStore
    <2>2. CASE allocator_lock # 1
      <3>1. \A u \in Thread : pc'[u] \notin {"panic", "chunk", "bit"}
        BY <1>0, <1>5, <1>18, <2>2 DEF ClearBitStore
      <3> QED
        BY <1>6, <3>1
    <2> QED
      BY <2>1, <2>2
  <1>19. CASE UncountUsed(t)
    BY <1>0, <1>19, SearchStays DEF UncountUsed
  <1>20. CASE UncountUsedStore(t)
    BY <1>0, <1>20, SearchStays DEF UncountUsedStore
  <1>21. CASE TestHint(t)
    BY <1>0, <1>21, SearchStays DEF TestHint
  <1>22. CASE SetHint(t)
    BY <1>0, <1>22, SearchStays DEF SetHint
  <1> QED
    BY <1>7, <1>8, <1>9, <1>10, <1>11, <1>12, <1>13, <1>14, <1>15, <1>16, <1>17, <1>18, <1>19,
       <1>20, <1>21, <1>22 DEF Call, Step

-----------------------------------------------------------------------------
\* The allocator starts, after the memory map was read, in the invariant.
LEMMA InitIInv == Init => IInv
  <1> SUFFICES ASSUME Init PROVE IInv
    OBVIOUS
  <1>1. TypeOK
    <2>1. reg \in [Thread -> [word : SUBSET Block, count : Int]]
      BY SMT DEF Init, NoReg
    <2>2. /\ used_blocks \in Int /\ out \in Int /\ next_chunk \in Nat
          /\ owned \in [Block -> Nat] /\ block \in [Thread -> Nat]
      BY SMT DEF Init
    <2> QED
      BY <2>1, <2>2 DEF Init, TypeOK, PC
  <1>2. LockInv
    BY DEF Init, LockInv, LockedPC
  <1>3. \A b \in Block : owned[b] = 0
    BY DEF Init
  <1>4. \A b \in Block : ~(owned[b] > 0) /\ owned[b] <= 1
    BY <1>3, SMT
  <1>5. \A t \in Thread : pc[t] = "idle"
    BY DEF Init
  <1>6. PlaceInv
    BY <1>4, <1>5 DEF PlaceInv, FoundPC, FreePC
  <1>7. \A b \in Block : ~Held(b) /\ Sole(b)
    BY <1>4, <1>5 DEF Held, Sole, Keeps, HoldPC
  <1>8. OwnerInv
    BY <1>7 DEF OwnerInv
  <1>9. MarkInv
    BY <1>5, <1>7 DEF MarkInv, Init
  <1>10. SearchInv
    BY <1>5 DEF SearchInv, OutOfMemoryIsFull
  <1> QED
    BY <1>1, <1>2, <1>6, <1>8, <1>9, <1>10 DEF IInv

\* The inductive invariant of allocate_physical_block and free_physical_block
\* holds.
THEOREM IInvHolds == Spec => []IInv
  <1>1. IInv /\ [Next]_vars => IInv'
    BY NextTypeOK, NextLockInv, NextPlaceInv, NextMarkInv, NextSearchInv DEF IInv
  <1> QED
    BY <1>1, InitIInv, PTL DEF Spec

\* allocate_physical_block returns a block that somebody still has only if a
\* store of free_physical_block erased its bit.
THEOREM SingleOwner == Spec => []NoDoubleAllocation
  <1>1. IInv => NoDoubleAllocation
    <2> SUFFICES ASSUME IInv, NEW b \in Block \ erased
                 PROVE  /\ owned[b] <= 1
                        /\ owned[b] = 1 => Holding(b) = {}
                        /\ \A t, u \in Holding(b) : t = u
      BY DEF NoDoubleAllocation
    <2>1. Sole(b)
      BY DEF IInv, OwnerInv
    <2>2. \A t \in Holding(b) : t \in Thread /\ Keeps(t, b)
      BY DEF Holding, At, Keeps, HoldPC
    <2>3. owned[b] = 1 => Holding(b) = {}
      BY <2>1, <2>2, SMT DEF Sole
    <2> QED
      BY <2>1, <2>2, <2>3 DEF Sole
  <1> QED
    BY <1>1, IInvHolds, PTL

\* The bitmap marks the blocks the boot loader did not free and the blocks that
\* are out, and no others, up to the bits that a store older than their last
\* change erased or set again.
THEOREM ExactMarks == Spec => []BitmapIsExact
  <1>1. IInv => BitmapIsExact
    <2> SUFFICES ASSUME IInv PROVE BitmapIsExact
      OBVIOUS
    <2>1. \A b \in Block : Held(b) <=> owned[b] > 0 \/ Holding(b) # {}
      BY DEF Held, Holding, At, HoldPC
    <2>2. bitmap \subseteq Block
      BY DEF IInv, TypeOK
    <2>3. ExactBitmap \ bitmap \subseteq erased
      BY <2>1 DEF ExactBitmap, IInv, MarkInv
    <2>4. bitmap \ ExactBitmap \subseteq leaked
      BY <2>1, <2>2 DEF ExactBitmap, IInv, MarkInv
    <2> QED
      BY <2>3, <2>4 DEF BitmapIsExact
  <1> QED
    BY <1>1, IInvHolds, PTL

-----------------------------------------------------------------------------
(* The count.                                                              *)
INSTANCE FiniteSetTheorems

\* The calls that have changed the count and not yet what is out, or the other
\* way round.
CountedPC == {"unlock", "clear", "clear_store", "uncount", "uncount_store"}
Counted == Cardinality(At(CountedPC))
CountInv == miscounted \/ used_blocks = out + Counted

\* The number of such calls is the size of a finite set, to which one step adds
\* or from which it removes at most one thread.
LEMMA CountedFacts ==
  ASSUME pc \in [Thread -> PC], NEW t \in Thread, NEW from, NEW to, pc[t] = from,
         pc' = [pc EXCEPT ![t] = to]
  PROVE  /\ Counted \in Nat
         /\ (from \in CountedPC <=> to \in CountedPC) => Counted' = Counted
         /\ from \notin CountedPC /\ to \in CountedPC => Counted' = Counted + 1
         /\ from \in CountedPC /\ to \notin CountedPC => Counted' = Counted - 1
  <1> DEFINE Out == At(CountedPC)
  <1>1. Out \in SUBSET Thread
    BY DEF At
  <1>2. IsFiniteSet(Out) /\ Cardinality(Out) \in Nat
    BY <1>1, FS_Subset, FS_CardinalityType, ThreadAssumption
  <1>3. (from \in CountedPC <=> to \in CountedPC) => Out' = Out
    BY DEF At
  <1>4. from \notin CountedPC /\ to \in CountedPC => Out' = Out \union {t} /\ t \notin Out
    BY DEF At
  <1>5. from \in CountedPC /\ to \notin CountedPC => Out' = Out \ {t} /\ t \in Out
    BY DEF At
  <1>6. Counted = Cardinality(Out) /\ Counted' = Cardinality(Out')
    BY DEF Counted
  <1> HIDE DEF Out
  <1>7. from \notin CountedPC /\ to \in CountedPC => Cardinality(Out') = Cardinality(Out) + 1
    BY <1>2, <1>4, FS_AddElement
  <1>8. from \in CountedPC /\ to \notin CountedPC => Cardinality(Out') = Cardinality(Out) - 1
    BY <1>2, <1>5, FS_RemoveElement
  <1> QED
    BY <1>2, <1>3, <1>6, <1>7, <1>8

\* Every instruction keeps the count exact, until a store of it undoes another.
LEMMA NextCountInv ==
  ASSUME TypeOK, CountInv, [Next]_vars PROVE CountInv'
  <1>0. /\ pc \in [Thread -> PC] /\ used_blocks \in Int /\ out \in Int
    BY DEF TypeOK
  <1>1. CASE UNCHANGED vars
    BY <1>1 DEF vars, marks, CountInv, Counted, At
  <1> SUFFICES ASSUME NEW t \in Thread, Call(t) \/ Step(t) PROVE CountInv'
    BY <1>1 DEF Next
  \* Instructions that touch neither the count nor what is out.
  <1>2. ASSUME NEW from, NEW to, Goto(t, from, to), UNCHANGED <<used_blocks, out, miscounted>>,
               from \in CountedPC <=> to \in CountedPC
        PROVE  CountInv'
    BY <1>0, <1>2, CountedFacts DEF Goto, CountInv
  <1> USE DEF marks
  <1>3. CASE Lock(t)
    BY <1>2, <1>3 DEF Lock, CountedPC
  <1>4. CASE Free(t)
    <2>1. /\ Counted \in Nat /\ Counted' = Counted + 1 /\ out' = out - 1
          /\ UNCHANGED <<used_blocks, miscounted>>
      BY <1>0, <1>4, CountedFacts DEF Free, Goto, CountedPC
    <2> QED
      BY <1>0, <2>1, SMT DEF CountInv
  <1>5. CASE StartSearch(t)
    BY <1>2, <1>5 DEF StartSearch, CountedPC
  <1>6. CASE TestChunk(t)
    BY <1>2, <1>6 DEF TestChunk, CountedPC
  <1>7. CASE TestBit(t)
    BY <1>2, <1>7 DEF TestBit, CountedPC
  <1>8. CASE SetBit(t)
    BY <1>2, <1>8 DEF SetBit, CountedPC
  <1>9. CASE SetBitStore(t)
    BY <1>2, <1>9 DEF SetBitStore, CountedPC
  <1>10. CASE CountUsed(t)
    BY <1>2, <1>10 DEF CountUsed, CountedPC
  <1>11. CASE CountUsedStore(t)
    <2>1. Counted \in Nat /\ Counted' = Counted + 1
      BY <1>0, <1>11, CountedFacts DEF CountUsedStore, Goto, CountedPC
    <2>2. /\ out' = out
          /\ miscounted' \/ (~miscounted /\ used_blocks' = used_blocks + 1)
      BY <1>11 DEF CountUsedStore
    <2> QED
      BY <1>0, <2>1, <2>2, SMT DEF CountInv
  <1>12. CASE Unlock(t)
    <2>1. pc[t] = "unlock" /\ pc' = [pc EXCEPT ![t] = "idle"]
      BY <1>12 DEF Unlock, Goto
    <2>2. "unlock" \in CountedPC /\ "idle" \notin CountedPC
      BY DEF CountedPC
    <2>3. /\ Counted \in Nat /\ Counted' = Counted - 1
      BY <1>0, <2>1, <2>2, CountedFacts
    <2>4. out' = out + 1 /\ UNCHANGED <<used_blocks, miscounted>>
      BY <1>12 DEF Unlock
    <2> QED
      BY <1>0, <2>3, <2>4, SMT DEF CountInv
  <1>13. CASE ClearBit(t)
    BY <1>2, <1>13 DEF ClearBit, CountedPC
  <1>14. CASE ClearBitStore(t)
    BY <1>2, <1>14 DEF ClearBitStore, CountedPC
  <1>15. CASE UncountUsed(t)
    BY <1>2, <1>15 DEF UncountUsed, CountedPC
  <1>16. CASE UncountUsedStore(t)
    <2>1. Counted \in Nat /\ Counted' = Counted - 1
      <3>1. pc[t] = "uncount_store" /\ pc' = [pc EXCEPT ![t] = "hint"]
        BY <1>16 DEF UncountUsedStore, Goto
      <3>2. "uncount_store" \in CountedPC /\ "hint" \notin CountedPC
        BY DEF CountedPC
      <3> QED
        BY <1>0, <3>1, <3>2, CountedFacts
    <2>2. /\ out' = out
          /\ miscounted' \/ (~miscounted /\ used_blocks' = used_blocks - 1)
      BY <1>16 DEF UncountUsedStore
    <2> QED
      BY <1>0, <2>1, <2>2, SMT DEF CountInv
  <1>17. CASE TestHint(t)
    BY <1>2, <1>17 DEF TestHint, CountedPC
  <1>18. CASE SetHint(t)
    BY <1>2, <1>18 DEF SetHint, CountedPC
  <1> QED
    BY <1>3, <1>4, <1>5, <1>6, <1>7, <1>8, <1>9, <1>10, <1>11, <1>12, <1>13, <1>14, <1>15,
       <1>16, <1>17, <1>18 DEF Call, Step

\* Between any two instructions of allocate_physical_block and
\* free_physical_block, of any number of threads: every value is in range, the
\* bitmap and used_blocks are exact up to the updates that a store undid, and
\* "Out of memory" is said only when every chunk that may be searched was full.
THEOREM ExactAllocator == Spec => []MarksAndSearchExact
  <1>1. Init => CountInv
    <2> SUFFICES ASSUME Init PROVE CountInv
      OBVIOUS
    <2>1. At(CountedPC) = {}
      BY DEF Init, At, CountedPC
    <2>2. Counted = 0
      BY <2>1, FS_EmptySet DEF Counted
    <2> QED
      BY <2>2, SMT DEF Init, CountInv
  <1>2. IInv /\ CountInv /\ [Next]_vars => CountInv'
    BY NextCountInv DEF IInv
  <1>3. Spec => []CountInv
    BY <1>1, <1>2, IInvHolds, PTL DEF Spec
  <1>4. IInv /\ CountInv /\ BitmapIsExact => MarksAndSearchExact
    BY DEF IInv, SearchInv, CountInv, Counted, CountedPC, UsedBlocksExact, MarksAndSearchExact
  <1> QED
    BY <1>3, <1>4, IInvHolds, ExactMarks, PTL
=============================================================================
