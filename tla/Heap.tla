-------------------------------- MODULE Heap --------------------------------
(***************************************************************************)
(* The kernel heap: malloc, free, calloc and realloc of liballoc.c, the    *)
(* hooks of liballoc_internal.cpp (alloc_lock and the pages a new area is  *)
(* made of), and the page allocator kernel_allocate_4k_pages of paging.cpp *)
(* below it, which the rest of the kernel also calls, without any lock.    *)
(*                                                                         *)
(* An area of pages is cut into pieces, each with a boundary_tag in front. *)
(* A tag is named by its address; lengths are in units of which a header   *)
(* takes HeaderSize and a page PageSize.                                   *)
(***************************************************************************)
EXTENDS Integers, FiniteSets, FiniteSetsExt, Sequences

CONSTANTS
  Threads,
  HeaderSize, MinExp, MaxExp, MaxComplete,  \* sizeof(boundary_tag), MINEXP, MAXEXP, MAXCOMPLETE
  PageSize, PageCount,                      \* l_pageSize, l_pageCount
  TableSize, Tables,                        \* PAGES_PER_TABLE, TABLES_PER_DIR
  Sizes,                                    \* the sizes asked of malloc
  PageRequests,                             \* the amounts asked of kernel_allocate_4k_pages directly
  NoThread

ASSUME HeapAssumption ==
  /\ {HeaderSize, PageSize, PageCount, TableSize, Tables} \subseteq Nat \ {0}
  /\ MinExp \in Nat /\ MaxExp \in Nat /\ MinExp < MaxExp /\ MaxComplete \in Nat
  /\ Sizes \subseteq Nat \ {0} /\ PageRequests \subseteq Nat \ {0} /\ NoThread \notin Threads

VARIABLES
  tags,      \* the boundary tags, by address
  free,      \* l_freePages: the list of every exponent, front first
  complete,  \* l_completePages
  tables,    \* the entries of kernel_heap_dir that are present
  pages,     \* the entries of kernel_heap_dir_tables that are present
  lock,      \* alloc_lock: the thread that has it
  op,        \* what every thread is doing
  blocks,    \* the tags whose memory malloc has handed out (history)
  others,    \* the ranges of pages the rest of the kernel has (history)
  raced,     \* two searches for pages have overlapped (history)
  panic      \* an assertion has failed

heapVars == <<tags, free, complete, blocks>>
pageVars == <<tables, pages, raced>>
vars == <<heapVars, pageVars, lock, op, others, panic>>

Null == 0
Page == 0 .. Tables * TableSize - 1
Address(p) == (p + 1) * PageSize
PagesAt(a, n) == (a \div PageSize - 1) .. (a \div PageSize - 2 + n)
Exps == MinExp .. MaxExp - 1
\* A boundary_tag that is in no list; next and prev are the lists themselves.
Tag(size, real, left, right) ==
  [size |-> size, real |-> real, index |-> -1, left |-> left, right |-> right]

\* What a thread is in: the call, its size, the block it is about, the block realloc is to
\* free afterwards, the first of the pages it has found, and whether interrupts are off.
Op(do, size, tag, old, page, cli) ==
  [do |-> do, size |-> size, tag |-> tag, old |-> old, page |-> page, cli |-> cli]
Idle == Op("idle", 0, Null, Null, 0, FALSE)

Init ==
  /\ tags = [a \in {} |-> Null] /\ free = [i \in Exps |-> <<>>] /\ complete = [i \in Exps |-> 0]
  /\ tables = {} /\ pages = {} /\ lock = NoThread
  /\ op = [t \in Threads |-> Idle]
  /\ blocks = {} /\ others = {} /\ raced = FALSE /\ panic = FALSE

-----------------------------------------------------------------------------
(* The pages below the heap. *)

\* The first pass: a run of n entries that are not present, in tables that are.
FirstPass(n) ==
  {p \in Page : \A q \in p .. p + n - 1 : q \in Page \ pages /\ q \div TableSize \in tables}

\* The second pass: a run of tables that are not present and together have n entries.
SecondPass(n) ==
  {p \in Page : /\ p % TableSize = 0 /\ p + n - 1 \in Page
                /\ \A q \in p .. p + n - 1 : q \div TableSize \notin tables}

Searched(n) == IF FirstPass(n) # {} THEN Min(FirstPass(n)) ELSE Min(SecondPass(n))

OutOfVirtualMemory(n) == FirstPass(n) = {} /\ SecondPass(n) = {}

\* The entries found are marked, and the tables they are in.
Mark(t, p, n) ==
  /\ pages' = pages \union p .. p + n - 1
  /\ tables' = tables \union {q \div TableSize : q \in p .. p + n - 1}
  /\ raced' = (raced \/ \E u \in Threads \ {t} : op[u].do \in {"grow", "mark_other"})

\* kernel_allocate_4k_pages called by the rest of the kernel: the search, then the marking.
SearchPages(t) ==
  /\ op[t] = Idle
  /\ \E n \in PageRequests :
       /\ ~OutOfVirtualMemory(n)
       /\ op' = [op EXCEPT ![t] = Op("mark_other", n, Null, Null, Searched(n), FALSE)]
  /\ UNCHANGED <<heapVars, pageVars, lock, others, panic>>

\* Where neither pass finds a run the search ends in an assertion.
SearchPagesAsserts(t) ==
  /\ op[t] = Idle
  /\ \E n \in PageRequests : OutOfVirtualMemory(n)
  /\ panic' = TRUE
  /\ UNCHANGED <<heapVars, pageVars, lock, op, others>>

MarkPages(t) ==
  /\ op[t].do = "mark_other"
  /\ Mark(t, op[t].page, op[t].size)
  /\ others' = others \union {<<op[t].page, op[t].size>>}
  /\ op' = [op EXCEPT ![t] = Idle]
  /\ UNCHANGED <<heapVars, lock, panic>>

FreePages(t) ==
  /\ op[t] = Idle
  /\ \E r \in others :
       /\ others' = others \ {r}
       /\ pages' = pages \ (r[1] .. r[1] + r[2] - 1)
  /\ UNCHANGED <<heapVars, tables, raced, lock, op, panic>>

-----------------------------------------------------------------------------
(* Tags and lists. H stands for [tags, free], the part of the heap these helpers change. *)

\* n where 2^n <= size < 2^(n+1), or -1 below the quantum: the shift that the loop stops at,
\* less one.
GetExp(size) ==
  IF size < 2^MinExp THEN -1 ELSE Min({s \in MinExp .. MaxExp : s < MaxExp => size < 2^s}) - 1

\* Where a piece of a given real_size belongs.
IndexOf(real) == Max({MinExp, GetExp(real - HeaderSize)})

InsertTag(H, a) ==
  LET i == IndexOf(H.tags[a].real)
  IN [tags |-> [H.tags EXCEPT ![a].index = i], free |-> [H.free EXCEPT ![i] = <<a>> \o @]]

\* The list q without the tag a.
Unlinked(q, a) ==
  LET k == CHOOSE k \in DOMAIN q : q[k] = a
  IN [i \in 1 .. Len(q) - 1 |-> IF i < k THEN q[i] ELSE q[i + 1]]

RemoveTag(H, a) ==
  [tags |-> [H.tags EXCEPT ![a].index = -1],
   free |-> [H.free EXCEPT ![H.tags[a].index] = Unlinked(@, a)]]

\* Mutant: the link of the piece behind is forgotten.
RelinkedNot(T, right, a) == T

\* split_right->split_left = a, where there is a split_right.
Relinked(T, right, a) == IF right = Null THEN T ELSE [T EXCEPT ![right].left = a]

\* The piece r goes into the piece l in front of it: real_size and split_right of l are
\* stored, then split_left of the piece behind.
Merged(T, l, r) ==
  LET V == [T EXCEPT ![l].real = @ + T[r].real, ![l].right = T[r].right]
  IN [b \in DOMAIN T \ {r} |-> Relinked(V, T[r].right, l)[b]]

\* melt_left and remove_tag of free(): the piece a goes into the one on its left.
MeltLeft(H, a) ==
  LET l == H.tags[a].left
  IN RemoveTag([tags |-> Merged(H.tags, l, a), free |-> H.free], l)

\* Mutant: the piece that is absorbed stays in its list.
AbsorbRightListed(H, a) ==
  [tags |-> Merged(H.tags, a, H.tags[a].right), free |-> H.free]

AbsorbRight(H, a) ==
  LET r == H.tags[a].right
      G == RemoveTag(H, r)
  IN [tags |-> Merged(G.tags, a, r), free |-> G.free]

\* The last rest units of the piece a become a piece of their own, at b.
Halved(T, a, b, rest) ==
  LET V == [Relinked(T, T[a].right, b) EXCEPT ![a].right = b, ![a].real = @ - rest]
  IN [c \in DOMAIN T \union {b} |-> IF c = b THEN Tag(0, rest, a, T[a].right) ELSE V[c]]

SplitTag(H, a) ==
  LET b == a + HeaderSize + H.tags[a].size
      rest == H.tags[a].real - HeaderSize - H.tags[a].size
  IN InsertTag([tags |-> Halved(H.tags, a, b, rest), free |-> H.free], b)

\* The end of malloc: the size is stored, and what is left over split off if it is large enough.
Taken(H, a, size) ==
  LET G == [tags |-> [H.tags EXCEPT ![a].size = size], free |-> H.free]
      remainder == H.tags[a].real - size - 2 * HeaderSize
  IN IF remainder > 0 /\ GetExp(remainder) >= 0 THEN SplitTag(G, a) ELSE G

Whole(a) == tags[a].left = Null /\ tags[a].right = Null

\* Mutant: every piece is counted as a whole area.
RecountedAll(i, a, d) == [complete EXCEPT ![i] = @ + d]

\* l_completePages counts only pieces that are a whole area.
Recounted(i, a, d) == [complete EXCEPT ![i] = IF Whole(a) THEN @ + d ELSE @]

H0 == [tags |-> tags, free |-> free]
SetHeap(H) == tags' = H.tags /\ free' = H.free

-----------------------------------------------------------------------------
(* The calls. *)

Call(t, o) ==
  /\ op[t] = Idle
  /\ op' = [op EXCEPT ![t] = o]
  /\ UNCHANGED <<heapVars, pageVars, lock, others, panic>>

\* The blocks no call is busy with: their owners can pass them to free or realloc.
Unclaimed == blocks \ UNION {{op[u].tag, op[u].old} : u \in Threads}

\* malloc, operator new, and calloc, which clears what malloc returns.
CallMalloc(t) == \E n \in Sizes : Call(t, Op("malloc_lock", n, Null, Null, 0, FALSE))

\* free and operator delete; thread::block deletes its lock object with interrupts off.
CallFree(t) ==
  \E a \in Unclaimed, c \in BOOLEAN : Call(t, Op("free_lock", 0, a, Null, 0, c))

\* realloc reads the size of the block under the lock, gives the lock back, and goes on as
\* a malloc and a free of the old block.
CallRealloc(t) ==
  /\ lock = NoThread
  /\ \E a \in Unclaimed, n \in Sizes : Call(t, Op("malloc_lock", n, Null, a, 0, FALSE))

LiballocLock(t) ==
  /\ op[t].do \in {"malloc_lock", "free_lock"}
  /\ lock = NoThread
  /\ lock' = t
  /\ op' = [op EXCEPT ![t].do = IF @ = "malloc_lock" THEN "malloc" ELSE "free"]
  /\ blocks' = blocks \ {op[t].tag}
  /\ UNCHANGED <<tags, free, complete, pageVars, others, panic>>

\* A thread that finds the lock taken asserts that interrupts are on.
LiballocLockAsserts(t) ==
  /\ op[t].do = "free_lock" /\ op[t].cli
  /\ lock # NoThread
  /\ panic' = TRUE
  /\ UNCHANGED <<heapVars, pageVars, lock, op, others>>

\* malloc returns the block a; realloc then frees the old one.
Return(t, a) ==
  /\ lock' = NoThread
  /\ blocks' = blocks \union {a}
  /\ op' = [op EXCEPT ![t] = IF @.old = Null THEN Idle ELSE Op("free_lock", 0, @.old, Null, 0, FALSE)]

SearchIndex(n) == Max({MinExp, GetExp(n)})

\* The places in the list of the pieces that are large enough.
Fitting(n) ==
  {k \in DOMAIN free[SearchIndex(n)] :
     tags[free[SearchIndex(n)][k]].real - HeaderSize >= n + HeaderSize}

\* A piece of the list is large enough.
MallocFound(t) ==
  /\ op[t].do = "malloc"
  /\ Fitting(op[t].size) # {}
  /\ LET a == free[SearchIndex(op[t].size)][Min(Fitting(op[t].size))] IN
       /\ SetHeap(Taken(RemoveTag(H0, a), a, op[t].size))
       /\ complete' = Recounted(tags[a].index, a, -1)
       /\ Return(t, a)
  /\ UNCHANGED <<pageVars, others, panic>>

\* The pages of a new area, from its size.
AreaPages(n) == Max({PageCount, (n + HeaderSize + PageSize - 1) \div PageSize})

\* No piece found, make one: allocate_new_tag, up to the marking of the pages.
MallocSearch(t) ==
  /\ op[t].do = "malloc"
  /\ Fitting(op[t].size) = {}
  /\ ~OutOfVirtualMemory(AreaPages(op[t].size))
  /\ op' = [op EXCEPT ![t] = Op("grow", @.size, Null, @.old, Searched(AreaPages(@.size)), FALSE)]
  /\ UNCHANGED <<heapVars, pageVars, lock, others, panic>>

\* Out of virtual memory: the assertion fails, with the lock held.
MallocAsserts(t) ==
  /\ op[t].do = "malloc"
  /\ Fitting(op[t].size) = {}
  /\ OutOfVirtualMemory(AreaPages(op[t].size))
  /\ panic' = TRUE
  /\ UNCHANGED <<heapVars, pageVars, lock, op, others>>

MallocGrow(t) ==
  /\ op[t].do = "grow"
  /\ LET n == AreaPages(op[t].size)
         a == Address(op[t].page)
         new == Tag(op[t].size, n * PageSize, Null, Null)
     IN /\ Mark(t, op[t].page, n)
        /\ SetHeap(Taken([H0 EXCEPT !.tags = [b \in DOMAIN tags \union {a} |-> IF b = a THEN new ELSE tags[b]]],
                         a, op[t].size))
        /\ Return(t, a)
  /\ UNCHANGED <<complete, others, panic>>

IsFree(a) == a # Null /\ tags[a].index >= 0

\* One turn of the loop that melts the freed piece with free pieces on its left.
FreeMeltLeft(t) ==
  /\ op[t].do = "free"
  /\ LET a == op[t].tag IN
       /\ IsFree(tags[a].left)
       /\ SetHeap(MeltLeft(H0, a))
       /\ op' = [op EXCEPT ![t].tag = tags[a].left]
  /\ UNCHANGED <<complete, blocks, pageVars, lock, others, panic>>

\* One turn of the loop that melts it with free pieces on its right.
FreeMeltRight(t) ==
  /\ op[t].do = "free"
  /\ ~IsFree(tags[op[t].tag].left)
  /\ IsFree(tags[op[t].tag].right)
  /\ SetHeap(AbsorbRight(H0, op[t].tag))
  /\ UNCHANGED <<complete, blocks, op, pageVars, lock, others, panic>>

Melted(t) ==
  /\ op[t].do = "free"
  /\ ~IsFree(tags[op[t].tag].left) /\ ~IsFree(tags[op[t].tag].right)

\* The piece goes into its list; a whole area is counted.
FreeInsert(t) ==
  /\ Melted(t)
  /\ LET a == op[t].tag
         i == IndexOf(tags[a].real)
     IN /\ ~(Whole(a) /\ complete[i] = MaxComplete)
        /\ complete' = Recounted(i, a, 1)
        /\ SetHeap(InsertTag(H0, a))
  /\ lock' = NoThread
  /\ op' = [op EXCEPT ![t] = Idle]
  /\ UNCHANGED <<blocks, pageVars, others, panic>>

\* Too many whole areas standing by: this one is given back.
FreeArea(t) ==
  /\ Melted(t)
  /\ LET a == op[t].tag IN
       /\ Whole(a) /\ complete[IndexOf(tags[a].real)] = MaxComplete
       /\ pages' = pages \ PagesAt(a, Max({PageCount, (tags[a].real + PageSize - 1) \div PageSize}))
       /\ tags' = [b \in DOMAIN tags \ {a} |-> tags[b]]
  /\ lock' = NoThread
  /\ op' = [op EXCEPT ![t] = Idle]
  /\ UNCHANGED <<free, complete, blocks, tables, raced, others, panic>>

Step(t) ==
  \/ SearchPages(t) \/ SearchPagesAsserts(t) \/ MarkPages(t) \/ FreePages(t)
  \/ CallMalloc(t) \/ CallFree(t) \/ CallRealloc(t) \/ LiballocLock(t) \/ LiballocLockAsserts(t)
  \/ MallocFound(t) \/ MallocSearch(t) \/ MallocAsserts(t) \/ MallocGrow(t)
  \/ FreeMeltLeft(t) \/ FreeMeltRight(t) \/ FreeInsert(t) \/ FreeArea(t)

\* Nothing is followed behind a failed assertion, or behind pages given out twice.
Next == ~panic /\ ~raced /\ \E t \in Threads : Step(t)

Spec == Init /\ [][Next]_vars

-----------------------------------------------------------------------------
(* Properties, of the heap between two calls; nothing is promised once two searches for    *)
(* pages have overlapped.                                                                 *)

AtRest == lock = NoThread /\ ~raced

\* The pieces tile the areas. Between two calls the links split_left and split_right of the
\* tags join neighbours in both directions, no two pieces overlap, all of them lie in pages
\* the heap has and nobody else got, and the memory malloc handed out fits its piece.
HeapIsTiled ==
  AtRest =>
    /\ \A a \in DOMAIN tags :
         /\ tags[a].right # Null => /\ tags[a].right = a + tags[a].real
                                    /\ tags[tags[a].right].left = a
         /\ tags[a].left # Null => tags[tags[a].left].right = a
         /\ tags[a].left = Null => a % PageSize = 0
         /\ \A u \in a .. a + tags[a].real - 1 :
              /\ u \div PageSize - 1 \in pages
              /\ \A r \in others : u \div PageSize - 1 \notin r[1] .. r[1] + r[2] - 1
         /\ \A b \in DOMAIN tags : a < b => a + tags[a].real <= b
    /\ \A a \in blocks : a \in DOMAIN tags /\ HeaderSize + tags[a].size <= tags[a].real

\* The free lists are exact. Between two calls a piece is in the list of its own size class,
\* once, or its memory is handed out; no free piece has a free neighbour, so that free()
\* always finds all there is to melt.
FreeListsExact ==
  AtRest =>
    /\ \A i \in Exps : \A k \in DOMAIN free[i] :
         /\ free[i][k] \in DOMAIN tags \ blocks
         /\ tags[free[i][k]].index = i /\ i = IndexOf(tags[free[i][k]].real)
         /\ \A j \in DOMAIN free[i] : free[i][j] = free[i][k] => j = k
    /\ \A a \in DOMAIN tags :
         /\ a \in blocks <=> tags[a].index = -1
         /\ a \notin blocks => \E k \in DOMAIN free[tags[a].index] : free[tags[a].index][k] = a
         /\ IsFree(a) => ~IsFree(tags[a].left) /\ ~IsFree(tags[a].right)

\* l_completePages counts the whole areas standing by in every list, and never more of them
\* than MAXCOMPLETE: the heap does not keep the kernel's pages without bound.
CompletePagesExact ==
  AtRest =>
    \A i \in Exps :
      /\ complete[i] = Cardinality({k \in DOMAIN free[i] : Whole(free[i][k])})
      /\ complete[i] <= MaxComplete
=============================================================================
