----------------------------- MODULE HeapProofs -----------------------------
(***************************************************************************)
(* The heap is right between two calls: the pieces tile the areas, the     *)
(* free lists are exact, and so is l_completePages. The inductive          *)
(* invariant says the same of the middle of a call, where one piece may be *)
(* in the hand of the thread that has alloc_lock, and adds which blocks    *)
(* the calls claim and which pages they have found.                        *)
(***************************************************************************)
EXTENDS HeapTagsProofs

\* A leaf is proved by Zenon, unless it cites another prover.
USE Zenon

\* The tag that free() has in hand.
InHand(o) == {o[t].tag : t \in {u \in Threads : o[u].do = "free"}}

OpType ==
  [do : {"idle", "malloc_lock", "malloc", "grow", "free_lock", "free", "mark_other"},
   size : Nat, tag : Nat, old : Nat, page : Nat, cli : BOOLEAN]

\* Who has alloc_lock, and the blocks the calls are about: no two calls claim the same one.
Claims(x) == {x.tag, x.old} \ {Null}
CallOK(o, k, B) ==
  /\ o \in [Threads -> OpType] /\ k \in Threads \union {NoThread}
  /\ \A t \in Threads : o[t].do \in {"malloc", "grow", "free"} <=> k = t
  /\ \A t \in Threads : o[t].tag # Null => o[t].do \in {"free_lock", "free"}
  /\ \A t \in Threads : o[t].do = "free_lock" => o[t].tag \in B
  /\ \A t \in Threads : o[t].old # Null => o[t].old \in B /\ o[t].do \in {"malloc_lock", "malloc", "grow"}
  /\ \A t, u \in Threads : t # u => Claims(o[t]) \cap Claims(o[u]) = {}

\* The pages a thread has found and not marked yet.
Finder(x) == x.do \in {"grow", "mark_other"}
FoundBy(x) == IF x.do = "grow" THEN <<x.page, AreaPages(x.size)>> ELSE <<x.page, x.size>>

\* The pages ps and tables ts that are present, and the ranges os of the rest of the kernel.
PagesOK(o, ps, ts, os) ==
  /\ \A q \in ps : q \div TableSize \in ts
  /\ \A t \in Threads : Finder(o[t]) => Span(FoundBy(o[t])) \cap ps = {}
  /\ \A t \in Threads : o[t].do = "mark_other" => o[t].size > 0
  /\ \A r \in os : r \in Nat \X (Nat \ {0}) /\ Span(r) \subseteq ps
  /\ \A r, s \in os : r # s => Span(r) \cap Span(s) = {}

\* The pages that only the heap can have.
HeapPages(ps, os) == {q \in ps : \A r \in os : q \notin Span(r)}

HeapInv ==
  /\ Sound(tags, free, HeapPages(pages, others)) /\ CountOK(complete, tags)
  /\ BlocksOK(tags, blocks, InHand(op)) /\ CallOK(op, lock, blocks) /\ PagesOK(op, pages, tables, others)

IInv == raced \in BOOLEAN /\ (~raced => HeapInv)

\* Only the call of t changes, into x.
Changed(o, N, t, x) ==
  N \in [Threads -> OpType] /\ N[t] = x /\ \A u \in Threads \ {t} : N[u] = o[u]

\* What the call x of t must be like beside the others of o, when the lock goes from k to j
\* and the blocks become C.
Fits(o, t, x, k, j, C) ==
  /\ x.do \in {"malloc", "grow", "free"} <=> j = t
  /\ \A u \in Threads \ {t} : j = u <=> k = u
  /\ x.tag # Null => x.do \in {"free_lock", "free"}
  /\ x.do = "free_lock" => x.tag \in C
  /\ x.old # Null => x.old \in C /\ x.do \in {"malloc_lock", "malloc", "grow"}
  /\ \A u \in Threads \ {t} : Claims(x) \cap Claims(o[u]) = {}
  /\ \A u \in Threads \ {t} : o[u].do = "free_lock" => o[u].tag \in C
  /\ \A u \in Threads \ {t} : o[u].old # Null => o[u].old \in C

\* A call that is about no block and has no lock.
Plain(x) == x.do \in {"idle", "mark_other", "malloc_lock"} /\ x.tag = Null /\ x.old = Null

\* What adding and removing an element does to a finite set: likewise a hypothesis, of the
\* lemmas that count; it is CountingFacts, at the end.
SetCounts ==
  /\ IsFiniteSet({}) /\ Cardinality({}) = 0
  /\ \A S, x : IsFiniteSet(S) =>
       /\ Cardinality(S) \in Nat /\ IsFiniteSet(S \union {x}) /\ IsFiniteSet(S \ {x})
       /\ Cardinality(S \ {x}) \in Nat
       /\ x \notin S => Cardinality(S \union {x}) = Cardinality(S) + 1
       /\ x \in S => Cardinality(S \ {x}) = Cardinality(S) - 1

-----------------------------------------------------------------------------
(* The calls. *)

\* A thread that is in the middle of malloc or free has alloc_lock, and is the only one there.
LEMMA CallFacts ==
  ASSUME NEW o, NEW k, NEW B, CallOK(o, k, B), NEW t \in Threads, NEW S \in SUBSET {"malloc", "grow", "free"}
  PROVE  o[t].do \in S => k = t /\ \A u \in Threads \ {t} : o[u].do \notin {"malloc", "grow", "free"}
  BY DEF CallOK

\* The parts of what a thread is doing.
LEMMA OpFacts ==
  ASSUME NEW x \in OpType
  PROVE  x.size \in Nat /\ x.tag \in Nat /\ x.old \in Nat /\ x.page \in Nat /\ x.cli \in BOOLEAN
  BY DEF OpType

\* A thread changes its own call and no other.
LEMMA ChangeFacts ==
  ASSUME NEW o, o \in [Threads -> OpType], NEW t \in Threads, NEW x \in OpType, NEW N, N = [o EXCEPT ![t] = x]
  PROVE  Changed(o, N, t, x)
  <1>1. N \in [Threads -> OpType] /\ N[t] = x /\ \A u \in Threads \ {t} : N[u] = o[u]
    OBVIOUS
  <1> QED
    BY <1>1 DEF Changed

\* The claims of the calls stay disjoint, and alloc_lock with its thread, when a call changes into
\* one that fits beside the others.
LEMMA CallChange ==
  ASSUME NEW o, NEW k, NEW B, CallOK(o, k, B), NEW t \in Threads, NEW x, NEW N, Changed(o, N, t, x),
         NEW j \in Threads \union {NoThread}, NEW C, Fits(o, t, x, k, j, C)
  PROVE  CallOK(N, j, C)
  <1>1. N \in [Threads -> OpType] /\ N[t] = x /\ \A u \in Threads \ {t} : N[u] = o[u]
    BY DEF Changed
  <1>2. ASSUME NEW u \in Threads PROVE N[u].do \in {"malloc", "grow", "free"} <=> j = u
    <2>1. CASE u = t
      BY <1>1, <2>1 DEF Fits
    <2>2. CASE u # t
      <3>1. N[u] = o[u] /\ (j = u <=> k = u)
        BY <1>1, <2>2 DEF Fits
      <3>2. o[u].do \in {"malloc", "grow", "free"} <=> k = u
        BY DEF CallOK
      <3> QED
        BY <3>1, <3>2
    <2> QED
      BY <2>1, <2>2
  <1>3. ASSUME NEW u \in Threads
        PROVE  /\ N[u].tag # Null => N[u].do \in {"free_lock", "free"}
               /\ N[u].do = "free_lock" => N[u].tag \in C
               /\ N[u].old # Null => N[u].old \in C /\ N[u].do \in {"malloc_lock", "malloc", "grow"}
    <2>1. CASE u = t
      BY <1>1, <2>1 DEF Fits
    <2>2. CASE u # t
      <3>1. N[u] = o[u] /\ (o[u].do = "free_lock" => o[u].tag \in C) /\ (o[u].old # Null => o[u].old \in C)
        BY <1>1, <2>2 DEF Fits
      <3>2. /\ o[u].tag # Null => o[u].do \in {"free_lock", "free"}
            /\ o[u].old # Null => o[u].do \in {"malloc_lock", "malloc", "grow"}
        BY DEF CallOK
      <3> QED
        BY <3>1, <3>2
    <2> QED
      BY <2>1, <2>2
  <1>4. ASSUME NEW u \in Threads, NEW v \in Threads, u # v PROVE Claims(N[u]) \cap Claims(N[v]) = {}
    <2>1. \A w \in Threads \ {t} : Claims(x) \cap Claims(o[w]) = {}
      BY DEF Fits
    <2>2. CASE u = t
      <3>1. N[u] = x /\ N[v] = o[v] /\ v \in Threads \ {t}
        BY <1>1, <1>4, <2>2
      <3> QED
        BY <2>1, <3>1
    <2>3. CASE v = t
      <3>1. N[v] = x /\ N[u] = o[u] /\ u \in Threads \ {t}
        BY <1>1, <1>4, <2>3
      <3>2. Claims(x) \cap Claims(o[u]) = {}
        BY <2>1, <3>1
      <3> QED
        BY <3>1, <3>2
    <2>4. CASE u # t /\ v # t
      <3>1. N[u] = o[u] /\ N[v] = o[v]
        BY <1>1, <2>4
      <3>2. Claims(o[u]) \cap Claims(o[v]) = {}
        BY <1>4 DEF CallOK
      <3> QED
        BY <3>1, <3>2
    <2> QED
      BY <2>2, <2>3, <2>4
  <1> QED
    BY <1>1, <1>2, <1>3, <1>4 DEF CallOK

\* A call that claims nothing and has no lock ends or begins.
LEMMA FitsPlain ==
  ASSUME NEW o, NEW k, NEW B, CallOK(o, k, B), NEW t \in Threads, NEW x,
         Plain(x), k # t
  PROVE  Fits(o, t, x, k, k, B)
  <1>1. Claims(x) = {}
    BY DEF Claims, Plain
  <1>2. x.do \notin {"malloc", "grow", "free"} /\ x.do # "free_lock"
    BY DEF Plain
  <1>3. \A u \in Threads : /\ o[u].do = "free_lock" => o[u].tag \in B
                           /\ o[u].old # Null => o[u].old \in B
    BY DEF CallOK
  <1> QED
    BY <1>1, <1>2, <1>3 DEF Fits, Plain

\* The piece in hand.
LEMMA HandNone ==
  ASSUME NEW o, \A u \in Threads : o[u].do # "free"
  PROVE  InHand(o) = {}
  BY DEF InHand

\* The piece in hand is that of the one thread in free().
LEMMA HandOne ==
  ASSUME NEW o, NEW t \in Threads, o[t].do = "free", \A u \in Threads \ {t} : o[u].do # "free"
  PROVE  InHand(o) = {o[t].tag}
  BY DEF InHand

\* A call that is not free() has no piece in hand.
LEMMA HandSame ==
  ASSUME NEW o, NEW N, NEW t \in Threads, NEW x, Changed(o, N, t, x), o[t].do # "free", x.do # "free"
  PROVE  InHand(N) = InHand(o)
  <1>1. \A u \in Threads : N[u].do = "free" <=> o[u].do = "free"
    BY DEF Changed
  <1>2. \A u \in Threads : o[u].do = "free" => N[u] = o[u]
    BY DEF Changed
  <1>3. ASSUME NEW a \in InHand(N) PROVE a \in InHand(o)
    BY <1>1, <1>2, <1>3 DEF InHand
  <1>4. ASSUME NEW a \in InHand(o) PROVE a \in InHand(N)
    BY <1>1, <1>2, <1>4 DEF InHand
  <1> QED
    BY <1>3, <1>4

-----------------------------------------------------------------------------
(* The blocks, the counts and the pages. *)

\* malloc has a piece in hand once it has taken it out of its list.
LEMMA BlocksFound ==
  ASSUME NEW T, NEW U, NEW B, BlocksOK(T, B, {}), NEW a \in DOMAIN T, T[a].index # -1, Reindexed(T, U, a, -1)
  PROVE  BlocksOK(U, B, {a})
  <1>1. SameShape(T, U) /\ DOMAIN U = DOMAIN T /\ SameMarks(T, U, {a})
    BY ReindexedShape
  <1>2. a \notin B
    BY DEF BlocksOK
  <1>3. \A c \in DOMAIN T \ {a} : U[c].index = T[c].index /\ U[c].size = T[c].size /\ U[c].real = T[c].real
    BY <1>1 DEF SameShape, SameMarks
  <1>4. U[a].index = -1
    BY DEF Reindexed
  <1>5. B \subseteq DOMAIN U /\ {a} \subseteq DOMAIN U /\ B \cap {a} = {}
    BY <1>1, <1>2 DEF BlocksOK
  <1>6. ASSUME NEW c \in DOMAIN U PROVE U[c].index = -1 <=> c \in B \union {a}
    BY <1>1, <1>3, <1>4 DEF BlocksOK
  <1>7. ASSUME NEW c \in B PROVE HeaderSize + U[c].size <= U[c].real
    <2>1. c \in DOMAIN T \ {a} /\ HeaderSize + T[c].size <= T[c].real
      BY <1>2 DEF BlocksOK
    <2> QED
      BY <1>3, <2>1
  <1> QED
    BY <1>5, <1>6, <1>7 DEF BlocksOK

\* It likewise has the piece of a new area in hand.
LEMMA BlocksNew ==
  ASSUME NEW T, NEW U, NEW B, BlocksOK(T, B, {}), NEW a, a \notin DOMAIN T, DOMAIN U = DOMAIN T \union {a},
         Agree(T, U, DOMAIN T \ {a}), U[a].index = -1
  PROVE  BlocksOK(U, B, {a})
  <1>1. \A c \in DOMAIN T : U[c] = T[c]
    BY DEF Agree
  <1>2. B \subseteq DOMAIN U /\ {a} \subseteq DOMAIN U /\ B \cap {a} = {}
    BY DEF BlocksOK
  <1>3. ASSUME NEW c \in DOMAIN U PROVE U[c].index = -1 <=> c \in B \union {a}
    BY <1>1 DEF BlocksOK
  <1>4. ASSUME NEW c \in B PROVE HeaderSize + U[c].size <= U[c].real
    <2>1. c \in DOMAIN T /\ HeaderSize + T[c].size <= T[c].real
      BY DEF BlocksOK
    <2> QED
      BY <1>1, <2>1
  <1> QED
    BY <1>2, <1>3, <1>4 DEF BlocksOK

\* The piece malloc had in hand is a block when malloc returns.
LEMMA BlocksTaken ==
  ASSUME NEW T, NEW R, NEW B, NEW a \in DOMAIN T, BlocksOK(T, B, {a}), NEW n, NEW hp, TakenOK(T, R, a, n, hp)
  PROVE  BlocksOK(R.tags, B \union {a}, {})
  <1>1. PICK U : U = R.tags
    OBVIOUS
  <1>2. /\ a \in DOMAIN U /\ U[a].index = -1 /\ U[a].size = n /\ HeaderSize + n <= U[a].real
        /\ \A c \in DOMAIN U \ DOMAIN T : U[c].index # -1
    BY <1>1 DEF TakenOK
  <1>3. \A c \in DOMAIN T \ {a} :
          c \in DOMAIN U /\ U[c].index = T[c].index /\ U[c].size = T[c].size /\ U[c].real = T[c].real
    BY <1>1 DEF TakenOK, Kept
  <1>4. B \subseteq DOMAIN T \ {a}
    BY DEF BlocksOK
  <1>5. B \union {a} \subseteq DOMAIN U
    BY <1>2, <1>3, <1>4
  <1>6. ASSUME NEW c \in DOMAIN U PROVE U[c].index = -1 <=> c \in B \union {a}
    <2>1. CASE c = a
      BY <1>2, <2>1
    <2>2. CASE c \in DOMAIN T \ {a}
      <3>1. T[c].index = -1 <=> c \in B \union {a}
        BY <2>2 DEF BlocksOK
      <3> QED
        BY <1>3, <2>2, <3>1
    <2>3. CASE c \notin DOMAIN T
      BY <1>2, <1>4, <2>3
    <2> QED
      BY <2>1, <2>2, <2>3
  <1>7. ASSUME NEW c \in B \union {a} PROVE HeaderSize + U[c].size <= U[c].real
    <2>1. CASE c = a
      BY <1>2, <2>1
    <2>2. CASE c # a
      <3>1. c \in DOMAIN T \ {a} /\ HeaderSize + T[c].size <= T[c].real
        BY <1>4, <2>2 DEF BlocksOK
      <3> QED
        BY <1>3, <3>1
    <2> QED
      BY <2>1, <2>2
  <1>8. BlocksOK(U, B \union {a}, {})
    BY <1>5, <1>6, <1>7 DEF BlocksOK
  <1> QED
    BY <1>1, <1>8

\* free() has the melted piece in hand.
LEMMA BlocksMelt ==
  ASSUME NEW T, NEW R, NEW B, NEW l \in DOMAIN T, NEW r \in DOMAIN T, l # r, NEW x \in {l, r}, NEW y \in {l, r},
         BlocksOK(T, B, {y}), T[x].index # -1, NEW hp, MeltedOK(T, R, l, r, hp)
  PROVE  BlocksOK(R.tags, B, {l}) /\ l \notin B
  <1>1. PICK U : U = R.tags
    OBVIOUS
  <1>2. DOMAIN U = DOMAIN T \ {r} /\ U[l].index = -1
    BY <1>1 DEF MeltedOK
  <1>3. \A c \in DOMAIN T \ {l, r} :
          c \in DOMAIN U /\ U[c].index = T[c].index /\ U[c].size = T[c].size /\ U[c].real = T[c].real
    BY <1>1 DEF MeltedOK, Kept
  <1>4. x \notin B \union {y}
    BY DEF BlocksOK
  <1>5. l \notin B /\ r \notin B
    BY <1>4 DEF BlocksOK
  <1>6. B \subseteq DOMAIN T \ {l, r}
    BY <1>5 DEF BlocksOK
  <1>7. B \subseteq DOMAIN U /\ {l} \subseteq DOMAIN U /\ B \cap {l} = {}
    BY <1>2, <1>5, <1>6
  <1>8. ASSUME NEW c \in DOMAIN U PROVE U[c].index = -1 <=> c \in B \union {l}
    <2>1. CASE c = l
      BY <1>2, <2>1
    <2>2. CASE c # l
      <3>1. c \in DOMAIN T \ {l, r}
        BY <1>2, <2>2
      <3>2. T[c].index = -1 <=> c \in B
        BY <3>1 DEF BlocksOK
      <3> QED
        BY <1>3, <2>2, <3>1, <3>2
    <2> QED
      BY <2>1, <2>2
  <1>9. ASSUME NEW c \in B PROVE HeaderSize + U[c].size <= U[c].real
    <2>1. c \in DOMAIN T \ {l, r} /\ HeaderSize + T[c].size <= T[c].real
      BY <1>6 DEF BlocksOK
    <2> QED
      BY <1>3, <2>1
  <1>10. BlocksOK(U, B, {l})
    BY <1>7, <1>8, <1>9 DEF BlocksOK
  <1> QED
    BY <1>1, <1>5, <1>10

\* The piece in hand goes into a list.
LEMMA BlocksInsert ==
  ASSUME NEW T, NEW U, NEW B, NEW a \in DOMAIN T, BlocksOK(T, B, {a}), NEW i, i # -1, Reindexed(T, U, a, i)
  PROVE  BlocksOK(U, B, {})
  <1>1. SameShape(T, U) /\ DOMAIN U = DOMAIN T /\ SameMarks(T, U, {a})
    BY ReindexedShape
  <1>2. \A c \in DOMAIN T \ {a} : U[c].index = T[c].index /\ U[c].size = T[c].size /\ U[c].real = T[c].real
    BY <1>1 DEF SameShape, SameMarks
  <1>3. U[a].index = i /\ a \notin B
    BY DEF Reindexed, BlocksOK
  <1>4. B \subseteq DOMAIN U
    BY <1>1 DEF BlocksOK
  <1>5. ASSUME NEW c \in DOMAIN U PROVE U[c].index = -1 <=> c \in B
    BY <1>1, <1>2, <1>3 DEF BlocksOK
  <1>6. ASSUME NEW c \in B PROVE HeaderSize + U[c].size <= U[c].real
    <2>1. c \in DOMAIN T \ {a} /\ HeaderSize + T[c].size <= T[c].real
      BY <1>3 DEF BlocksOK
    <2> QED
      BY <1>2, <2>1
  <1> QED
    BY <1>4, <1>5, <1>6 DEF BlocksOK

\* The piece in hand goes with its area.
LEMMA BlocksDrop ==
  ASSUME NEW T, NEW U, NEW B, NEW a \in DOMAIN T, BlocksOK(T, B, {a}), DOMAIN U = DOMAIN T \ {a},
         Agree(T, U, DOMAIN T \ {a})
  PROVE  BlocksOK(U, B, {})
  <1>1. \A c \in DOMAIN T \ {a} : U[c] = T[c]
    BY DEF Agree
  <1>2. B \subseteq DOMAIN T \ {a}
    BY DEF BlocksOK
  <1>3. ASSUME NEW c \in DOMAIN U PROVE U[c].index = -1 <=> c \in B
    <2>1. c \in DOMAIN T \ {a}
      OBVIOUS
    <2>2. T[c].index = -1 <=> c \in B
      BY <2>1 DEF BlocksOK
    <2> QED
      BY <1>1, <2>1, <2>2
  <1>4. ASSUME NEW c \in B PROVE HeaderSize + U[c].size <= U[c].real
    <2>1. c \in DOMAIN T \ {a} /\ HeaderSize + T[c].size <= T[c].real
      BY <1>2 DEF BlocksOK
    <2> QED
      BY <1>1, <2>1
  <1> QED
    BY <1>2, <1>3, <1>4 DEF BlocksOK

\* The block that free() is given is in hand when it has alloc_lock.
LEMMA BlocksLocked ==
  ASSUME NEW T, NEW B, BlocksOK(T, B, {}), NEW a \in B
  PROVE  BlocksOK(T, B \ {a}, {a})
  BY DEF BlocksOK

\* The counts where WholeFree stays, loses a or gains a.
LEMMA CountSame ==
  ASSUME NEW T, NEW U, NEW c, CountOK(c, T), \A i \in Exps : WholeFree(U, i) = WholeFree(T, i)
  PROVE  CountOK(c, U)
  BY DEF CountOK

\* What kernel_allocate_4k_pages finds is present nowhere.
LEMMA SearchedFacts ==
  ASSUME WellOrdered, NEW n \in Nat \ {0}, \A q \in pages : q \div TableSize \in tables, ~OutOfVirtualMemory(n)
  PROVE  Searched(n) \in Nat /\ Span(<<Searched(n), n>>) \cap pages = {}
  <1>1. FirstPass(n) \in SUBSET Nat /\ SecondPass(n) \in SUBSET Nat
    BY SMT DEF FirstPass, SecondPass, Page
  <1>2. PICK p : p = Searched(n)
    OBVIOUS
  <1>3. p \in FirstPass(n) \/ p \in SecondPass(n)
    <2>1. CASE FirstPass(n) # {}
      <3>1. Min(FirstPass(n)) \in FirstPass(n)
        BY <1>1, <2>1, MinFacts
      <3> QED
        BY <1>2, <2>1, <3>1 DEF Searched
    <2>2. CASE FirstPass(n) = {}
      <3>1. SecondPass(n) # {}
        BY <2>2 DEF OutOfVirtualMemory
      <3>2. Min(SecondPass(n)) \in SecondPass(n)
        BY <1>1, <3>1, MinFacts
      <3> QED
        BY <1>2, <2>2, <3>2 DEF Searched
    <2> QED
      BY <2>1, <2>2
  <1>4. p \in Nat
    BY <1>1, <1>3
  <1>5. Span(<<p, n>>) = p .. p + n - 1
    BY DEF Span
  <1>6. ASSUME NEW q \in p .. p + n - 1 PROVE q \notin pages
    <2>1. CASE p \in FirstPass(n)
      BY <2>1 DEF FirstPass
    <2>2. CASE p \in SecondPass(n)
      <3>1. q \div TableSize \notin tables
        BY <2>2 DEF SecondPass
      <3> QED
        BY <3>1
    <2> QED
      BY <1>3, <2>1, <2>2
  <1>7. Span(<<p, n>>) \cap pages = {}
    BY <1>5, <1>6
  <1> QED
    BY <1>2, <1>4, <1>7

\* A thread that finds pages which are not present leaves the others' pages as they are.
LEMMA PagesChange ==
  ASSUME NEW o, NEW ps, NEW ts, NEW os, PagesOK(o, ps, ts, os), NEW N, NEW t \in Threads, NEW x,
         Changed(o, N, t, x), Finder(x) => Span(FoundBy(x)) \cap ps = {}, x.do = "mark_other" => x.size > 0
  PROVE  PagesOK(N, ps, ts, os)
  <1>1. N[t] = x /\ \A u \in Threads \ {t} : N[u] = o[u]
    BY DEF Changed
  <1>2. ASSUME NEW u \in Threads
        PROVE  /\ Finder(N[u]) => Span(FoundBy(N[u])) \cap ps = {}
               /\ N[u].do = "mark_other" => N[u].size > 0
    <2>1. CASE u = t
      <3>1. N[u] = x
        BY <1>1, <2>1
      <3> QED
        BY <3>1
    <2>2. CASE u # t
      <3>1. N[u] = o[u]
        BY <1>1, <2>2
      <3>2. /\ Finder(o[u]) => Span(FoundBy(o[u])) \cap ps = {}
            /\ o[u].do = "mark_other" => o[u].size > 0
        BY DEF PagesOK
      <3> QED
        BY <3>1, <3>2
    <2> QED
      BY <2>1, <2>2
  <1> QED
    BY <1>2 DEF PagesOK

\* Pages are marked, when nobody else has found pages that are not marked yet.
LEMMA PagesGrow ==
  ASSUME NEW o, NEW ps, NEW ts, NEW os, PagesOK(o, ps, ts, os), NEW N, NEW t \in Threads, NEW x,
         Changed(o, N, t, x), ~Finder(x), \A u \in Threads \ {t} : ~Finder(o[u]), NEW g
  PROVE  PagesOK(N, ps \union Span(g), ts \union {q \div TableSize : q \in Span(g)}, os)
  <1>1. N[t] = x /\ \A u \in Threads \ {t} : N[u] = o[u]
    BY DEF Changed
  <1>2. \A u \in Threads : ~Finder(N[u])
    BY <1>1
  <1>3. \A u \in Threads : N[u].do # "mark_other"
    BY <1>2 DEF Finder
  <1>4. \A q \in ps \union Span(g) : q \div TableSize \in ts \union {w \div TableSize : w \in Span(g)}
    <2>1. \A q \in ps : q \div TableSize \in ts
      BY DEF PagesOK
    <2> QED
      BY <2>1
  <1>5. \A r \in os : r \in Nat \X (Nat \ {0}) /\ Span(r) \subseteq ps \union Span(g)
    BY DEF PagesOK
  <1>6. \A r, s \in os : r # s => Span(r) \cap Span(s) = {}
    BY DEF PagesOK
  <1> QED
    BY <1>2, <1>3, <1>4, <1>5, <1>6 DEF PagesOK

\* The pages marked are a range of the rest of the kernel.
LEMMA PagesOthers ==
  ASSUME NEW o, NEW ps, NEW ts, NEW os, PagesOK(o, ps, ts, os), NEW N, NEW us, NEW g \in Nat \X (Nat \ {0}),
         Span(g) \cap ps = {}, PagesOK(N, ps \union Span(g), us, os)
  PROVE  PagesOK(N, ps \union Span(g), us, os \union {g})
  <1>1. \A r \in os : Span(r) \subseteq ps
    BY DEF PagesOK
  <1>2. \A r \in os \union {g} : r \in Nat \X (Nat \ {0}) /\ Span(r) \subseteq ps \union Span(g)
    BY DEF PagesOK
  <1>3. \A r, s \in os : r # s => Span(r) \cap Span(s) = {}
    BY DEF PagesOK
  <1>4. \A r \in os : Span(r) \cap Span(g) = {} /\ Span(g) \cap Span(r) = {}
    BY <1>1
  <1>5. ASSUME NEW r \in os \union {g}, NEW s \in os \union {g}, r # s PROVE Span(r) \cap Span(s) = {}
    <2>1. CASE r = g
      <3>1. s \in os
        BY <1>5, <2>1
      <3> QED
        BY <1>4, <2>1, <3>1
    <2>2. CASE s = g
      <3>1. r \in os
        BY <1>5, <2>2
      <3> QED
        BY <1>4, <2>2, <3>1
    <2>3. CASE r # g /\ s # g
      <3>1. r \in os /\ s \in os
        BY <2>3
      <3> QED
        BY <1>3, <1>5, <3>1
    <2> QED
      BY <2>1, <2>2, <2>3
  <1>6. \A q \in ps \union Span(g) : q \div TableSize \in us
    BY DEF PagesOK
  <1>7. \A u \in Threads : /\ Finder(N[u]) => Span(FoundBy(N[u])) \cap (ps \union Span(g)) = {}
                           /\ N[u].do = "mark_other" => N[u].size > 0
    BY DEF PagesOK
  <1> QED
    BY <1>2, <1>5, <1>6, <1>7 DEF PagesOK

\* Pages are given back.
LEMMA PagesLess ==
  ASSUME NEW o, NEW ps, NEW ts, NEW os, PagesOK(o, ps, ts, os), NEW X, NEW ys, ys \subseteq os,
         \A r \in ys : Span(r) \cap X = {}
  PROVE  PagesOK(o, ps \ X, ts, ys)
  <1>1. \A q \in ps \ X : q \div TableSize \in ts
    BY DEF PagesOK
  <1>2. ASSUME NEW u \in Threads, Finder(o[u]) PROVE Span(FoundBy(o[u])) \cap (ps \ X) = {}
    <2>1. Span(FoundBy(o[u])) \cap ps = {}
      BY <1>2 DEF PagesOK
    <2> QED
      BY <2>1
  <1>3. \A u \in Threads : o[u].do = "mark_other" => o[u].size > 0
    BY DEF PagesOK
  <1>4. ASSUME NEW r \in ys PROVE r \in Nat \X (Nat \ {0}) /\ Span(r) \subseteq ps \ X
    <2>1. r \in Nat \X (Nat \ {0}) /\ Span(r) \subseteq ps
      BY DEF PagesOK
    <2> QED
      BY <2>1
  <1>5. \A r, s \in ys : r # s => Span(r) \cap Span(s) = {}
    BY DEF PagesOK
  <1> QED
    BY <1>1, <1>2, <1>3, <1>4, <1>5 DEF PagesOK

\* The pages of the heap only change with the heap.
LEMMA HeapPagesMark ==
  ASSUME NEW ps, NEW os, NEW g, Span(g) \cap ps = {}
  PROVE  HeapPages(ps, os) \subseteq HeapPages(ps \union Span(g), os \union {g})
  BY DEF HeapPages

\* Pages marked for the heap become the heap's.
LEMMA HeapPagesGrow ==
  ASSUME NEW ps, NEW os, NEW g, Span(g) \cap ps = {}, \A r \in os : Span(r) \subseteq ps
  PROVE  HeapPages(ps, os) \union Span(g) \subseteq HeapPages(ps \union Span(g), os)
  BY DEF HeapPages

\* The heap keeps its pages when the rest of the kernel gives a range back.
LEMMA HeapPagesFree ==
  ASSUME NEW ps, NEW os, NEW r \in os
  PROVE  HeapPages(ps, os) \subseteq HeapPages(ps \ Span(r), os \ {r})
  BY DEF HeapPages

\* The heap keeps its other pages when it gives some back.
LEMMA HeapPagesDrop ==
  ASSUME NEW ps, NEW os, NEW X
  PROVE  HeapPages(ps, os) \ X \subseteq HeapPages(ps \ X, os)
  BY DEF HeapPages

\* More pages do not disturb the heap.
LEMMA SoundGrows ==
  ASSUME NEW T, NEW F, NEW hp, NEW hq, Sound(T, F, hp), hp \subseteq hq
  PROVE  Sound(T, F, hq)
  <1>1. Tiled(T, hq)
    BY TiledGrows DEF Sound
  <1> QED
    BY <1>1 DEF Sound

-----------------------------------------------------------------------------
(* The actions that leave the tags alone. *)

\* A thread outside any call.
LEMMA IdleFacts ==
  /\ Idle \in OpType /\ Idle.do = "idle" /\ Idle.tag = Null /\ Idle.old = Null
  /\ Idle.size = 0 /\ Idle.page = 0 /\ Idle.cli = FALSE
  BY DEF Idle, Op, OpType, Null

\* The parts of the invariant.
LEMMA HeapParts ==
  ASSUME HeapInv
  PROVE  /\ Sound(tags, free, HeapPages(pages, others)) /\ CountOK(complete, tags)
         /\ BlocksOK(tags, blocks, InHand(op)) /\ CallOK(op, lock, blocks)
         /\ PagesOK(op, pages, tables, others) /\ op \in [Threads -> OpType]
         /\ lock \in Threads \union {NoThread}
  BY DEF HeapInv, CallOK

\* A step that changes nothing of the heap keeps the invariant.
LEMMA StayInv ==
  ASSUME HeapInv, UNCHANGED <<tags, free, complete, blocks, tables, pages, lock, op, others>>
  PROVE  HeapInv'
  <1>1. /\ tags' = tags /\ free' = free /\ complete' = complete /\ blocks' = blocks /\ tables' = tables
        /\ pages' = pages /\ lock' = lock /\ op' = op /\ others' = others
    OBVIOUS
  <1> QED
    BY <1>1 DEF HeapInv

\* A thread goes on to the call x, and nothing else changes.
LEMMA ChangeInv ==
  ASSUME HeapInv, NEW t \in Threads, NEW x, Changed(op, op', t, x), op[t].do # "free", x.do # "free",
         Fits(op, t, x, lock, lock, blocks),
         Finder(x) => Span(FoundBy(x)) \cap pages = {}, x.do = "mark_other" => x.size > 0,
         UNCHANGED <<tags, free, complete, blocks, tables, pages, lock, others>>
  PROVE  HeapInv'
  <1>1. /\ tags' = tags /\ free' = free /\ complete' = complete /\ blocks' = blocks /\ tables' = tables
        /\ pages' = pages /\ lock' = lock /\ others' = others
    OBVIOUS
  <1>2. CallOK(op', lock, blocks)
    BY HeapParts, CallChange
  <1>3. InHand(op') = InHand(op)
    BY HandSame
  <1>4. PagesOK(op', pages, tables, others)
    BY HeapParts, PagesChange
  <1> QED
    BY <1>1, <1>2, <1>3, <1>4, HeapParts DEF HeapInv

\* A thread outside malloc and free does not have alloc_lock.
LEMMA IdleThread ==
  ASSUME NEW o, NEW k, NEW B, CallOK(o, k, B), NEW t \in Threads, o[t].do \in {"idle", "mark_other"}
  PROVE  k # t /\ o[t].do # "free"
  <1>1. o[t].do \notin {"malloc", "grow", "free"}
    OBVIOUS
  <1> QED
    BY <1>1 DEF CallOK

\* The search of the rest of the kernel for pages keeps the invariant.
LEMMA SearchPagesInv ==
  ASSUME WellOrdered, HeapInv, NEW t \in Threads, SearchPages(t)
  PROVE  HeapInv'
  <1>1. op[t] = Idle /\ UNCHANGED <<tags, free, complete, blocks, tables, pages, lock, others>>
    BY DEF SearchPages, heapVars, pageVars
  <1>2. PICK n \in PageRequests :
          /\ ~OutOfVirtualMemory(n)
          /\ op' = [op EXCEPT ![t] = Op("mark_other", n, Null, Null, Searched(n), FALSE)]
    BY DEF SearchPages
  <1>3. n \in Nat \ {0}
    BY HeapAssumption
  <1>4. \A q \in pages : q \div TableSize \in tables
    BY HeapParts DEF PagesOK
  <1>5. Searched(n) \in Nat /\ Span(<<Searched(n), n>>) \cap pages = {}
    BY <1>2, <1>3, <1>4, SearchedFacts
  <1>6. PICK x : x = Op("mark_other", n, Null, Null, Searched(n), FALSE)
    OBVIOUS
  <1>7. /\ x \in OpType /\ x.do = "mark_other" /\ x.page = Searched(n) /\ x.size = n
        /\ x.tag = Null /\ x.old = Null
    <2>1. n \in Nat /\ Null \in Nat /\ FALSE \in BOOLEAN
      BY <1>3 DEF Null
    <2> QED
      BY <1>5, <1>6, <2>1 DEF Op, OpType
  <1>8. Changed(op, op', t, x)
    BY <1>2, <1>6, <1>7, HeapParts, ChangeFacts
  <1>9. lock # t /\ op[t].do # "free"
    BY <1>1, HeapParts, IdleFacts, IdleThread
  <1>10. Fits(op, t, x, lock, lock, blocks)
    <2>1. x.do \in {"idle", "mark_other", "malloc_lock"}
      BY <1>7
    <2>2. Plain(x)
      BY <1>7, <2>1 DEF Plain
    <2> QED
      BY <1>9, <2>2, HeapParts, FitsPlain
  <1>11. x.do # "grow" /\ x.do # "free" /\ x.size > 0
    BY <1>3, <1>7, SMT
  <1>12. Span(FoundBy(x)) \cap pages = {}
    BY <1>5, <1>7, <1>11 DEF FoundBy
  <1> QED
    BY <1>1, <1>8, <1>9, <1>10, <1>11, <1>12, ChangeInv

\* The blocks no call is about are not claimed.
LEMMA UnclaimedFacts ==
  ASSUME NEW a \in Unclaimed
  PROVE  a \in blocks /\ \A u \in Threads : a \notin Claims(op[u])
  BY DEF Unclaimed, Claims

\* free() and realloc() begin with a block nobody else is about.
LEMMA FitsClaim ==
  ASSUME NEW t \in Threads, CallOK(op, lock, blocks), lock # t, NEW a \in Unclaimed, NEW x, Claims(x) \subseteq {a},
         \/ x.do = "free_lock" /\ x.tag = a /\ x.old = Null
         \/ x.do = "malloc_lock" /\ x.tag = Null /\ x.old = a
  PROVE  Fits(op, t, x, lock, lock, blocks)
  <1>1. a \in blocks /\ \A u \in Threads : a \notin Claims(op[u])
    BY UnclaimedFacts
  <1>2. \A u \in Threads \ {t} : Claims(x) \cap Claims(op[u]) = {}
    BY <1>1
  <1>3. x.do \notin {"malloc", "grow", "free"}
    OBVIOUS
  <1>4. x.do = "free_lock" => x.tag = a /\ x.old = Null
    OBVIOUS
  <1>5. x.do # "free_lock" => x.do = "malloc_lock" /\ x.tag = Null /\ x.old = a
    OBVIOUS
  <1>6. \A u \in Threads : /\ op[u].do = "free_lock" => op[u].tag \in blocks
                           /\ op[u].old # Null => op[u].old \in blocks
    BY DEF CallOK
  <1>7. /\ x.tag # Null => x.do \in {"free_lock", "free"}
        /\ x.do = "free_lock" => x.tag \in blocks
        /\ x.old # Null => x.old \in blocks /\ x.do \in {"malloc_lock", "malloc", "grow"}
    BY <1>1, <1>4, <1>5
  <1> QED
    BY <1>2, <1>3, <1>6, <1>7 DEF Fits

\* A call about a block that nobody else is busy with keeps the invariant.
LEMMA CallFits ==
  ASSUME HeapInv, NEW t \in Threads, NEW x \in OpType, Call(t, x), x.do \in {"malloc_lock", "free_lock"},
         \/ x.tag = Null /\ x.old = Null /\ x.do = "malloc_lock"
         \/ \E a \in Unclaimed : \/ x.do = "free_lock" /\ x.tag = a /\ x.old = Null
                                 \/ x.do = "malloc_lock" /\ x.tag = Null /\ x.old = a
  PROVE  HeapInv'
  <1>1. /\ op[t] = Idle /\ op' = [op EXCEPT ![t] = x]
        /\ UNCHANGED <<tags, free, complete, blocks, tables, pages, lock, others>>
    BY DEF Call, heapVars, pageVars
  <1>2. Changed(op, op', t, x)
    BY <1>1, HeapParts, ChangeFacts
  <1>3. lock # t /\ op[t].do # "free"
    BY <1>1, HeapParts, IdleFacts, IdleThread
  <1>4. Fits(op, t, x, lock, lock, blocks)
    <2>1. CASE x.tag = Null /\ x.old = Null /\ x.do = "malloc_lock"
      <3>1. x.do \in {"idle", "mark_other", "malloc_lock"}
        BY <2>1
      <3>2. Plain(x)
        BY <2>1, <3>1 DEF Plain
      <3> QED
        BY <1>3, <3>2, HeapParts, FitsPlain
    <2>2. ASSUME NEW a \in Unclaimed, \/ x.do = "free_lock" /\ x.tag = a /\ x.old = Null
                                      \/ x.do = "malloc_lock" /\ x.tag = Null /\ x.old = a
          PROVE  Fits(op, t, x, lock, lock, blocks)
      <3>1. Claims(x) \subseteq {a}
        BY <2>2 DEF Claims
      <3> QED
        BY <1>3, <2>2, <3>1, HeapParts, FitsClaim
    <2> QED
      BY <2>1, <2>2
  <1>5. x.do # "free" /\ x.do # "mark_other" /\ ~Finder(x)
    BY DEF Finder
  <1> QED
    BY <1>1, <1>2, <1>3, <1>4, <1>5, ChangeInv

\* The calls of malloc, free and realloc keep the invariant.
LEMMA CallsInv ==
  ASSUME HeapInv, NEW t \in Threads, CallMalloc(t) \/ CallFree(t) \/ CallRealloc(t)
  PROVE  HeapInv'
  <1>0. Sizes \subseteq Nat /\ \A a \in Unclaimed : a \in Nat
    <2>1. \A a \in blocks : a \in DOMAIN tags
      BY HeapParts DEF BlocksOK
    <2>2. Tiled(tags, HeapPages(pages, others))
      BY HeapParts DEF Sound
    <2>3. \A a \in blocks : a \in Nat
      BY <2>1, <2>2, TiledFacts
    <2>4. Sizes \subseteq Nat
      BY HeapAssumption
    <2> QED
      BY <2>3, <2>4, UnclaimedFacts
  <1>1. Null \in Nat /\ 0 \in Nat /\ FALSE \in BOOLEAN
    BY DEF Null
  <1>3. CASE CallMalloc(t)
    <2>1. PICK n \in Sizes : Call(t, Op("malloc_lock", n, Null, Null, 0, FALSE))
      BY <1>3 DEF CallMalloc
    <2>2. PICK x : x = Op("malloc_lock", n, Null, Null, 0, FALSE)
      OBVIOUS
    <2>3. n \in Nat
      BY <1>0
    <2>4. x \in OpType /\ x.do = "malloc_lock" /\ x.tag = Null /\ x.old = Null
      BY <1>1, <2>2, <2>3 DEF Op, OpType
    <2> QED
      BY <2>1, <2>2, <2>4, CallFits
  <1>4. CASE CallFree(t)
    <2>1. PICK a \in Unclaimed, c \in BOOLEAN : Call(t, Op("free_lock", 0, a, Null, 0, c))
      BY <1>4 DEF CallFree
    <2>2. PICK x : x = Op("free_lock", 0, a, Null, 0, c)
      OBVIOUS
    <2>3. a \in Nat
      BY <1>0
    <2>4. x \in OpType /\ x.do = "free_lock" /\ x.tag = a /\ x.old = Null
      BY <1>1, <2>2, <2>3 DEF Op, OpType
    <2> QED
      BY <2>1, <2>2, <2>4, CallFits
  <1>5. CASE CallRealloc(t)
    <2>1. PICK a \in Unclaimed, n \in Sizes : Call(t, Op("malloc_lock", n, Null, a, 0, FALSE))
      BY <1>5 DEF CallRealloc
    <2>2. PICK x : x = Op("malloc_lock", n, Null, a, 0, FALSE)
      OBVIOUS
    <2>3. a \in Nat /\ n \in Nat
      BY <1>0
    <2>4. x \in OpType /\ x.do = "malloc_lock" /\ x.tag = Null /\ x.old = a
      BY <1>1, <2>2, <2>3 DEF Op, OpType
    <2> QED
      BY <2>1, <2>2, <2>4, CallFits
  <1> QED
    BY <1>3, <1>4, <1>5

-----------------------------------------------------------------------------
(* The pages of the rest of the kernel, and alloc_lock. *)

\* The marking of pages for the rest of the kernel keeps the invariant, unless two searches overlapped.
LEMMA MarkPagesInv ==
  ASSUME HeapInv, NEW t \in Threads, MarkPages(t), ~raced'
  PROVE  HeapInv'
  <1>1. PICK x, g : x = op[t] /\ g = <<op[t].page, op[t].size>>
    OBVIOUS
  <1>2. x \in OpType /\ x.do = "mark_other"
    BY <1>1, HeapParts DEF MarkPages
  <1>3. Span(g) = op[t].page .. op[t].page + op[t].size - 1
    BY <1>1 DEF Span
  <1>4. /\ pages' = pages \union Span(g) /\ tables' = tables \union {q \div TableSize : q \in Span(g)}
        /\ others' = others \union {g} /\ op' = [op EXCEPT ![t] = Idle]
    BY <1>1, <1>3 DEF MarkPages, Mark
  <1>5. tags' = tags /\ free' = free /\ complete' = complete /\ blocks' = blocks /\ lock' = lock
    BY DEF MarkPages, heapVars
  <1>6. \A u \in Threads \ {t} : ~Finder(op[u])
    BY DEF MarkPages, Mark, Finder
  <1>7. g \in Nat \X (Nat \ {0})
    <2>1. op[t].page \in Nat /\ op[t].size \in Nat
      BY <1>1, <1>2, OpFacts
    <2>2. op[t].size > 0
      BY <1>1, <1>2, HeapParts DEF PagesOK
    <2> QED
      BY <1>1, <2>1, <2>2, SMT
  <1>8. Span(g) \cap pages = {}
    <2>1. x.do # "grow"
      BY <1>2
    <2>2. FoundBy(op[t]) = g
      BY <1>1, <2>1 DEF FoundBy
    <2>3. Finder(op[t])
      BY <1>1, <1>2 DEF Finder
    <2> QED
      BY <2>2, <2>3, HeapParts DEF PagesOK
  <1>9. Changed(op, op', t, Idle)
    BY <1>4, HeapParts, IdleFacts, ChangeFacts
  <1>10. ~Finder(Idle) /\ Plain(Idle) /\ Idle.do # "free"
    BY IdleFacts DEF Finder, Plain
  <1>11. lock # t /\ op[t].do # "free"
    <2>1. op[t].do \in {"idle", "mark_other"}
      BY <1>1, <1>2
    <2> QED
      BY <2>1, HeapParts, IdleThread
  <1>12. CallOK(op', lock, blocks)
    <2>1. Fits(op, t, Idle, lock, lock, blocks)
      BY <1>10, <1>11, HeapParts, FitsPlain
    <2> QED
      BY <1>9, <2>1, HeapParts, CallChange
  <1>13. InHand(op') = InHand(op)
    BY <1>9, <1>10, <1>11, HandSame
  <1>14. PagesOK(op', pages', tables', others')
    <2>1. PagesOK(op', pages', tables', others)
      BY <1>4, <1>6, <1>9, <1>10, HeapParts, PagesGrow
    <2> QED
      BY <1>4, <1>7, <1>8, <2>1, HeapParts, PagesOthers
  <1>15. Sound(tags, free, HeapPages(pages', others'))
    <2>1. HeapPages(pages, others) \subseteq HeapPages(pages', others')
      BY <1>4, <1>8, HeapPagesMark
    <2> QED
      BY <2>1, HeapParts, SoundGrows
  <1> QED
    BY <1>5, <1>12, <1>13, <1>14, <1>15, HeapParts DEF HeapInv

\* The rest of the kernel gives pages back: the invariant is kept.
LEMMA FreePagesInv ==
  ASSUME HeapInv, NEW t \in Threads, FreePages(t)
  PROVE  HeapInv'
  <1>1. PICK r \in others : others' = others \ {r} /\ pages' = pages \ (r[1] .. r[1] + r[2] - 1)
    BY DEF FreePages
  <1>2. pages' = pages \ Span(r)
    BY <1>1 DEF Span
  <1>3. /\ tags' = tags /\ free' = free /\ complete' = complete /\ blocks' = blocks /\ lock' = lock
        /\ tables' = tables /\ op' = op
    BY DEF FreePages, heapVars
  <1>4. Sound(tags, free, HeapPages(pages', others'))
    <2>1. HeapPages(pages, others) \subseteq HeapPages(pages', others')
      BY <1>1, <1>2, HeapPagesFree
    <2> QED
      BY <2>1, HeapParts, SoundGrows
  <1>5. PagesOK(op, pages', tables, others')
    <2>1. PICK X, ys : X = Span(r) /\ ys = others \ {r}
      OBVIOUS
    <2>2. \A s \in ys : Span(s) \cap X = {}
      BY <2>1, HeapParts DEF PagesOK
    <2>3. ys \subseteq others
      BY <2>1
    <2>4. PagesOK(op, pages \ X, tables, ys)
      BY <2>2, <2>3, HeapParts, PagesLess
    <2> QED
      BY <1>1, <1>2, <2>1, <2>4
  <1> QED
    BY <1>3, <1>4, <1>5, HeapParts DEF HeapInv

\* The thread with alloc_lock, and the others.
LEMMA LockedFacts ==
  ASSUME HeapInv, NEW t \in Threads, op[t].do \in {"malloc", "grow", "free"}
  PROVE  /\ lock = t /\ NoThread # t
         /\ \A u \in Threads \ {t} :
              op[u].do # "free" /\ Claims(op[u]) \subseteq blocks /\ (op[u].do = "free_lock" => op[u].tag \in blocks)
              /\ (op[u].old # Null => op[u].old \in blocks)
  <1>1. lock = t /\ NoThread # t
    BY HeapParts, HeapAssumption DEF CallOK
  <1>2. ASSUME NEW u \in Threads \ {t} PROVE op[u].do # "free"
    <2>1. op[u].do \notin {"malloc", "grow", "free"}
      BY <1>1, HeapParts DEF CallOK
    <2> QED
      BY <2>1
  <1>3. ASSUME NEW u \in Threads \ {t}
        PROVE  /\ op[u].do = "free_lock" => op[u].tag \in blocks
               /\ op[u].old # Null => op[u].old \in blocks
               /\ op[u].tag # Null => op[u].do \in {"free_lock", "free"}
    BY HeapParts DEF CallOK
  <1>4. ASSUME NEW u \in Threads \ {t} PROVE op[u].tag # Null => op[u].do = "free_lock"
    BY <1>2, <1>3
  <1>5. ASSUME NEW u \in Threads \ {t} PROVE Claims(op[u]) \subseteq blocks
    BY <1>3, <1>4 DEF Claims
  <1> QED
    BY <1>1, <1>2, <1>3, <1>5

\* liballoc_lock: malloc or free goes on with the lock.
LEMMA LockFits ==
  ASSUME HeapInv, NEW t \in Threads, lock = NoThread, NEW x, x = op[t], NEW y,
         y.tag = x.tag, y.old = x.old,
         \/ x.do = "malloc_lock" /\ y.do = "malloc"
         \/ x.do = "free_lock" /\ y.do = "free"
  PROVE  Fits(op, t, y, lock, t, blocks \ {x.tag})
  <1>1. y.do \in {"malloc", "grow", "free"} /\ \A u \in Threads \ {t} : t = u <=> lock = u
    BY HeapAssumption
  <1>2. y.do # "free_lock"
    OBVIOUS
  <1>3. Null \notin blocks
    <2>1. Tiled(tags, HeapPages(pages, others))
      BY HeapParts DEF Sound
    <2> QED
      BY <2>1, HeapParts, TiledFacts DEF BlocksOK
  <1>4. /\ x.tag # Null => x.do \in {"free_lock", "free"}
        /\ x.old # Null => x.old \in blocks /\ x.do \in {"malloc_lock", "malloc", "grow"}
    BY HeapParts DEF CallOK
  <1>5. y.tag # Null => y.do \in {"free_lock", "free"}
    BY <1>4
  <1>6. y.old # Null => y.old \in blocks \ {x.tag} /\ y.do \in {"malloc_lock", "malloc", "grow"}
    <2>1. SUFFICES ASSUME x.old # Null PROVE x.old \in blocks \ {x.tag} /\ y.do = "malloc"
      BY <2>1
    <2>2. x.do # "free_lock" /\ x.do # "free"
      BY <1>4, <2>1
    <2>3. x.tag = Null
      BY <1>4, <2>2
    <2> QED
      BY <1>3, <1>4, <2>1, <2>2, <2>3
  <1>7. Claims(y) = Claims(x)
    BY DEF Claims
  <1>8. ASSUME NEW u \in Threads \ {t} PROVE Claims(x) \cap Claims(op[u]) = {}
    BY HeapParts DEF CallOK
  <1>9. ASSUME NEW u \in Threads \ {t}, NEW a \in blocks, a \in {op[u].tag, op[u].old}
        PROVE  a \in blocks \ {x.tag}
    <2>1. a # Null
      BY <1>3, <1>9
    <2>2. a \in Claims(op[u])
      BY <1>9, <2>1 DEF Claims
    <2>3. a \notin Claims(x)
      BY <1>8, <2>2
    <2> QED
      BY <2>1, <2>3 DEF Claims
  <1>10. ASSUME NEW u \in Threads \ {t}
         PROVE  /\ op[u].do = "free_lock" => op[u].tag \in blocks \ {x.tag}
                /\ op[u].old # Null => op[u].old \in blocks \ {x.tag}
    <2>1. /\ op[u].do = "free_lock" => op[u].tag \in blocks
          /\ op[u].old # Null => op[u].old \in blocks
      BY HeapParts DEF CallOK
    <2> QED
      BY <1>9, <2>1
  <1> QED
    BY <1>1, <1>2, <1>5, <1>6, <1>7, <1>8, <1>10 DEF Fits

\* liballoc_lock keeps the invariant: free() now has its block in hand.
LEMMA LiballocLockInv ==
  ASSUME HeapInv, NEW t \in Threads, LiballocLock(t)
  PROVE  HeapInv'
  <1>1. PICK x : x = op[t]
    OBVIOUS
  <1>2. x \in OpType /\ op \in [Threads -> OpType] /\ x.do \in {"malloc_lock", "free_lock"}
    BY <1>1, HeapParts DEF LiballocLock
  <1>3. PICK y : y = [x EXCEPT !.do = IF x.do = "malloc_lock" THEN "malloc" ELSE "free"]
    OBVIOUS
  <1>4. /\ y \in OpType /\ y.tag = x.tag /\ y.old = x.old
        /\ \/ x.do = "malloc_lock" /\ y.do = "malloc"
           \/ x.do = "free_lock" /\ y.do = "free"
    BY <1>2, <1>3 DEF OpType
  <1>5. op' = [op EXCEPT ![t] = y]
    BY <1>1, <1>2, <1>3 DEF LiballocLock
  <1>6. /\ lock = NoThread /\ lock' = t /\ blocks' = blocks \ {x.tag} /\ tags' = tags /\ free' = free
        /\ complete' = complete /\ tables' = tables /\ pages' = pages /\ others' = others
    BY <1>1 DEF LiballocLock, pageVars
  <1>7. Changed(op, op', t, y)
    BY <1>4, <1>5, HeapParts, ChangeFacts
  <1>8. CallOK(op', lock', blocks')
    <2>1. Fits(op, t, y, lock, t, blocks \ {x.tag})
      BY <1>1, <1>4, <1>6, LockFits
    <2> QED
      BY <1>6, <1>7, <2>1, HeapParts, CallChange
  <1>9. \A u \in Threads : op[u].do # "free"
    <2>1. \A u \in Threads : op[u].do \notin {"malloc", "grow", "free"}
      BY <1>6, HeapParts, HeapAssumption DEF CallOK
    <2> QED
      BY <2>1
  <1>10. BlocksOK(tags, blocks, {})
    <2>1. InHand(op) = {}
      BY <1>9, HandNone
    <2> QED
      BY <2>1, HeapParts
  <1>11. BlocksOK(tags, blocks', InHand(op'))
    <2>1. CASE x.do = "malloc_lock" /\ y.do = "malloc"
      <3>1. y.do # "free"
        BY <2>1
      <3>2. InHand(op') = InHand(op)
        BY <1>7, <1>9, <3>1, HandSame
      <3>3. x.tag = Null
        <4>1. x.tag # Null => x.do \in {"free_lock", "free"}
          BY <1>1, HeapParts DEF CallOK
        <4> QED
          BY <2>1, <4>1
      <3>4. Null \notin blocks
        <4>1. Tiled(tags, HeapPages(pages, others))
          BY HeapParts DEF Sound
        <4> QED
          BY <4>1, HeapParts, TiledFacts DEF BlocksOK
      <3>5. blocks' = blocks
        BY <1>6, <3>3, <3>4
      <3> QED
        BY <3>2, <3>5, HeapParts
    <2>2. CASE x.do = "free_lock" /\ y.do = "free"
      <3>1. x.tag \in blocks
        BY <1>1, <2>2, HeapParts DEF CallOK
      <3>2. op'[t] = y /\ \A u \in Threads \ {t} : op'[u].do # "free"
        BY <1>7, <1>9 DEF Changed
      <3>3. InHand(op') = {op'[t].tag}
        BY <2>2, <3>2, HandOne
      <3>4. InHand(op') = {x.tag}
        BY <1>4, <3>2, <3>3
      <3>5. BlocksOK(tags, blocks \ {x.tag}, {x.tag})
        BY <1>10, <3>1, BlocksLocked
      <3> QED
        BY <1>6, <3>4, <3>5
    <2> QED
      BY <1>4, <2>1, <2>2
  <1>12. PagesOK(op', pages, tables, others)
    <2>1. ~Finder(y) /\ y.do # "mark_other"
      BY <1>4 DEF Finder
    <2> QED
      BY <1>7, <2>1, HeapParts, PagesChange
  <1> QED
    BY <1>6, <1>8, <1>11, <1>12, HeapParts DEF HeapInv

\* An assertion that fails changes nothing of the heap.
LEMMA AssertsInv ==
  ASSUME HeapInv, NEW t \in Threads, LiballocLockAsserts(t) \/ MallocAsserts(t) \/ SearchPagesAsserts(t)
  PROVE  HeapInv'
  <1>1. UNCHANGED <<tags, free, complete, blocks, tables, pages, lock, op, others>>
    BY DEF LiballocLockAsserts, MallocAsserts, SearchPagesAsserts, heapVars, pageVars
  <1> QED
    BY <1>1, StayInv

\* The search of allocate_new_tag for pages keeps the invariant.
LEMMA MallocSearchInv ==
  ASSUME WellOrdered, HeapInv, NEW t \in Threads, MallocSearch(t)
  PROVE  HeapInv'
  <1>1. PICK x, n : x = op[t] /\ n = AreaPages(op[t].size)
    OBVIOUS
  <1>2. x \in OpType /\ op \in [Threads -> OpType] /\ x.do = "malloc"
    BY <1>1, HeapParts DEF MallocSearch
  <1>3. n \in Nat \ {0}
    <2>1. n \in Nat /\ n >= PageCount
      BY <1>1, <1>2, OpFacts, AreaPagesFacts
    <2> QED
      BY <2>1, ConstantFacts, SMT
  <1>4. \A q \in pages : q \div TableSize \in tables
    BY HeapParts DEF PagesOK
  <1>5. PICK p : p = Searched(n)
    OBVIOUS
  <1>6. p \in Nat /\ Span(<<p, n>>) \cap pages = {}
    <2>1. ~OutOfVirtualMemory(n)
      BY <1>1 DEF MallocSearch
    <2> QED
      BY <1>3, <1>4, <1>5, <2>1, SearchedFacts
  <1>7. PICK y : y = Op("grow", x.size, Null, x.old, p, FALSE)
    OBVIOUS
  <1>8. /\ y \in OpType /\ y.do = "grow" /\ y.tag = Null /\ y.old = x.old /\ y.page = p
        /\ y.size = x.size
    <2>1. x.size \in Nat /\ x.old \in Nat /\ Null \in Nat /\ FALSE \in BOOLEAN
      BY <1>2, OpFacts DEF Null
    <2> QED
      BY <1>6, <1>7, <2>1 DEF Op, OpType
  <1>9. op' = [op EXCEPT ![t] = y]
    BY <1>1, <1>2, <1>5, <1>7 DEF MallocSearch
  <1>10. UNCHANGED <<tags, free, complete, blocks, tables, pages, lock, others>>
    BY DEF MallocSearch, heapVars, pageVars
  <1>11. Changed(op, op', t, y)
    BY <1>8, <1>9, HeapParts, ChangeFacts
  <1>12. op[t].do \in {"malloc", "grow", "free"} /\ op[t].do # "free" /\ y.do # "free" /\ y.do # "mark_other"
    BY <1>1, <1>2, <1>8
  <1>13. Fits(op, t, y, lock, lock, blocks)
    <2>1. lock = t
      BY <1>12, LockedFacts
    <2>2. x.old # Null => x.old \in blocks
      BY <1>1, HeapParts DEF CallOK
    <2>3. y.tag = Null /\ y.do \in {"malloc", "grow", "free"} /\ y.do # "free_lock" /\ y.do \in {"malloc_lock", "malloc", "grow"}
      BY <1>8
    <2>4. y.old # Null => y.old \in blocks
      BY <1>8, <2>2
    <2>5. Claims(y) \subseteq Claims(op[t])
      BY <1>1, <1>8 DEF Claims
    <2>6. \A u \in Threads \ {t} : Claims(y) \cap Claims(op[u]) = {}
      BY <2>5, HeapParts DEF CallOK
    <2>7. \A u \in Threads \ {t} : /\ op[u].do = "free_lock" => op[u].tag \in blocks
                                   /\ op[u].old # Null => op[u].old \in blocks
      BY HeapParts DEF CallOK
    <2> QED
      BY <2>1, <2>3, <2>4, <2>6, <2>7 DEF Fits
  <1>14. Span(FoundBy(y)) \cap pages = {}
    <2>1. FoundBy(y) = <<p, n>>
      BY <1>1, <1>8 DEF FoundBy
    <2> QED
      BY <1>6, <2>1
  <1> QED
    BY <1>10, <1>11, <1>12, <1>13, <1>14, ChangeInv

-----------------------------------------------------------------------------
(* malloc and free with the lock. *)

\* The call x of t ends as y, and the lock is given back: realloc goes on to free the old block.
Ends(x, y) ==
  /\ y \in OpType /\ y.old = Null
  /\ \/ y.do = "idle" /\ y.tag = Null
     \/ y.do = "free_lock" /\ y.tag = x.old /\ x.old # Null

\* A thread outside any call claims nothing.
LEMMA EndsIdle ==
  ASSUME NEW x
  PROVE  Ends(x, Idle)
  BY IdleFacts DEF Ends

\* A call that gives alloc_lock back fits beside the others.
LEMMA EndFits ==
  ASSUME HeapInv, NEW t \in Threads, op[t].do \in {"malloc", "grow", "free"}, NEW y, Ends(op[t], y),
         NEW C, blocks \subseteq C
  PROVE  Fits(op, t, y, lock, NoThread, C)
  <1>1. lock = t /\ NoThread \notin Threads
    BY LockedFacts, HeapAssumption
  <1>2. y.do \notin {"malloc", "grow", "free"} /\ (y.tag # Null => y.do \in {"free_lock", "free"})
    BY DEF Ends
  <1>3. y.do = "free_lock" => y.tag \in C
    <2>1. op[t].old # Null => op[t].old \in blocks
      BY HeapParts DEF CallOK
    <2>2. y.do = "free_lock" => y.tag = op[t].old /\ op[t].old # Null
      BY DEF Ends
    <2> QED
      BY <2>1, <2>2
  <1>4. Claims(y) \subseteq Claims(op[t])
    <2>1. y.old = Null /\ (y.tag = Null \/ y.tag = op[t].old)
      BY DEF Ends
    <2> QED
      BY <2>1 DEF Claims
  <1>5. \A u \in Threads \ {t} : Claims(y) \cap Claims(op[u]) = {}
    BY <1>4, HeapParts DEF CallOK
  <1>6. \A u \in Threads \ {t} : /\ op[u].do = "free_lock" => op[u].tag \in C
                                 /\ op[u].old # Null => op[u].old \in C
    BY LockedFacts
  <1>7. y.old = Null
    BY DEF Ends
  <1> QED
    BY <1>1, <1>2, <1>3, <1>5, <1>6, <1>7 DEF Fits

\* What is left to show when a call ends and the pages stay: the heap, the counts and the blocks.
LEMMA EndCall ==
  ASSUME HeapInv, NEW t \in Threads, op[t].do \in {"malloc", "grow", "free"}, NEW y, Ends(op[t], y),
         op' = [op EXCEPT ![t] = y], lock' = NoThread, blocks \subseteq blocks'
  PROVE  /\ CallOK(op', lock', blocks') /\ InHand(op') = {} /\ Changed(op, op', t, y) /\ ~Finder(y)
         /\ PagesOK(op', pages, tables, others)
  <1>1. y \in OpType
    BY DEF Ends
  <1>2. Changed(op, op', t, y)
    BY <1>1, HeapParts, ChangeFacts
  <1>3. CallOK(op', lock', blocks')
    <2>1. Fits(op, t, y, lock, NoThread, blocks')
      BY EndFits
    <2>2. NoThread \in Threads \union {NoThread}
      OBVIOUS
    <2> QED
      BY <1>2, <2>1, <2>2, HeapParts, CallChange
  <1>4. y.do # "free" /\ y.do # "mark_other" /\ ~Finder(y)
    BY DEF Ends, Finder
  <1>5. InHand(op') = {}
    <2>1. \A u \in Threads : op'[u].do # "free"
      BY <1>2, <1>4, LockedFacts DEF Changed
    <2> QED
      BY <2>1, HandNone
  <1>6. PagesOK(op', pages, tables, others)
    BY <1>2, <1>4, HeapParts, PagesChange
  <1> QED
    BY <1>2, <1>3, <1>4, <1>5, <1>6

\* free() has its piece in hand; malloc has none.
LEMMA HandFree ==
  ASSUME HeapInv, NEW t \in Threads, op[t].do = "free"
  PROVE  /\ InHand(op) = {op[t].tag} /\ BlocksOK(tags, blocks, {op[t].tag})
         /\ op[t].tag \in DOMAIN tags /\ tags[op[t].tag].index = -1
         /\ op[t].do \in {"malloc", "grow", "free"} /\ op[t].old = Null
  <1>1. op[t].do \in {"malloc", "grow", "free"} /\ op[t].do \notin {"malloc_lock", "malloc", "grow"}
    OBVIOUS
  <1>2. InHand(op) = {op[t].tag}
    BY <1>1, LockedFacts, HandOne
  <1>3. BlocksOK(tags, blocks, {op[t].tag})
    BY <1>2, HeapParts
  <1>4. op[t].tag \in DOMAIN tags /\ tags[op[t].tag].index = -1
    BY <1>3 DEF BlocksOK
  <1>5. op[t].old = Null
    BY <1>1, HeapParts DEF CallOK
  <1> QED
    BY <1>1, <1>2, <1>3, <1>4, <1>5

\* While a thread is in malloc, no piece is in the hand of a free().
LEMMA HandMalloc ==
  ASSUME HeapInv, NEW t \in Threads, op[t].do \in {"malloc", "grow"}
  PROVE  BlocksOK(tags, blocks, {}) /\ op[t].do \in {"malloc", "grow", "free"}
  <1>1. op[t].do \in {"malloc", "grow", "free"} /\ op[t].do # "free"
    OBVIOUS
  <1>2. \A u \in Threads : op[u].do # "free"
    BY <1>1, LockedFacts
  <1>3. InHand(op) = {}
    BY <1>2, HandNone
  <1> QED
    BY <1>1, <1>3, HeapParts

\* The neighbours of a piece in the terms of IsFree.
LEMMA FreeNeighbour ==
  ASSUME HeapInv, NEW a \in DOMAIN tags, NEW b \in {tags[a].left, tags[a].right}
  PROVE  /\ b # Null => b \in DOMAIN tags /\ tags[b].index \in Exps \union {-1}
         /\ IsFree(b) <=> b # Null /\ tags[b].index # -1
  <1>1. Tiled(tags, HeapPages(pages, others))
    BY HeapParts DEF Sound
  <1>2. b # Null => b \in DOMAIN tags
    BY <1>1 DEF Tiled, LinksOK
  <1>3. b # Null => tags[b].index \in Exps \union {-1}
    BY <1>1, <1>2, TiledFacts
  <1>4. b # Null => (tags[b].index >= 0 <=> tags[b].index # -1)
    <2>1. \A i \in Exps \union {-1} : i >= 0 <=> i # -1
      BY ExpsFacts, SMT
    <2> QED
      BY <1>3, <2>1
  <1> QED
    BY <1>2, <1>3, <1>4 DEF IsFree

\* The loop of free() goes on with the piece l, which is in no block.
LEMMA MeltFits ==
  ASSUME HeapInv, NEW t \in Threads, op[t].do = "free", NEW l, l \notin blocks, NEW y,
         y.do = "free", y.tag = l, y.old = Null
  PROVE  Fits(op, t, y, lock, lock, blocks)
  <1>1. lock = t /\ op[t].do \in {"malloc", "grow", "free"}
    BY HandFree, LockedFacts
  <1>2. /\ y.do \in {"malloc", "grow", "free"} /\ y.do \in {"free_lock", "free"} /\ y.do # "free_lock"
    OBVIOUS
  <1>3. \A u \in Threads \ {t} : Claims(y) \cap Claims(op[u]) = {}
    <2>1. Claims(y) \subseteq {l}
      BY DEF Claims
    <2>2. \A u \in Threads \ {t} : Claims(op[u]) \subseteq blocks
      BY <1>1, LockedFacts
    <2> QED
      BY <2>1, <2>2
  <1>4. \A u \in Threads \ {t} : /\ op[u].do = "free_lock" => op[u].tag \in blocks
                                 /\ op[u].old # Null => op[u].old \in blocks
    BY <1>1, LockedFacts
  <1> QED
    BY <1>1, <1>2, <1>3, <1>4 DEF Fits

\* One turn of the loop that melts to the left keeps the invariant.
LEMMA FreeMeltLeftInv ==
  ASSUME HeapInv, NEW t \in Threads, FreeMeltLeft(t)
  PROVE  HeapInv'
  <1>1. PICK x, a, l, R : x = op[t] /\ a = op[t].tag /\ l = tags[op[t].tag].left /\ R = MeltLeft(H0, op[t].tag)
    OBVIOUS
  <1>2. op[t].do = "free" /\ IsFree(l) /\ tags' = R.tags /\ free' = R.free /\ op' = [op EXCEPT ![t].tag = l]
    BY <1>1 DEF FreeMeltLeft, SetHeap
  <1>3. /\ complete' = complete /\ blocks' = blocks /\ tables' = tables /\ pages' = pages
        /\ lock' = lock /\ others' = others
    BY DEF FreeMeltLeft, pageVars
  <1>4. a \in DOMAIN tags /\ tags[a].index = -1 /\ BlocksOK(tags, blocks, {a}) /\ x.old = Null
    BY <1>1, <1>2, HandFree
  <1>5. l = tags[a].left /\ l # Null /\ tags[l].index # -1 /\ l \in DOMAIN tags
    <2>1. l \in {tags[a].left, tags[a].right}
      BY <1>1
    <2> QED
      BY <1>1, <1>2, <1>4, <2>1, FreeNeighbour
  <1>6. PICK hp : hp = HeapPages(pages, others)
    OBVIOUS
  <1>7. Sound(tags, free, hp)
    BY <1>6, HeapParts
  <1>8. MeltedOK(tags, R, l, a, hp)
    BY <1>1, <1>4, <1>5, <1>7, MeltLeftSound DEF H0
  <1>9. l # a
    BY <1>4, <1>5
  <1>10. BlocksOK(tags', blocks, {l}) /\ l \notin blocks
    <2>1. l \in {l, a} /\ a \in {l, a}
      OBVIOUS
    <2> QED
      BY <1>2, <1>4, <1>5, <1>8, <1>9, <2>1, BlocksMelt
  <1>11. Sound(tags', free', hp) /\ CountOK(complete, tags')
    <2>1. Sound(tags', free', hp) /\ \A i \in Exps : WholeFree(tags', i) = WholeFree(tags, i)
      BY <1>2, <1>8 DEF MeltedOK
    <2> QED
      BY <2>1, HeapParts, CountSame
  <1>12. PICK y : y = [x EXCEPT !.tag = l]
    OBVIOUS
  <1>13. y \in OpType /\ y.do = "free" /\ y.tag = l /\ y.old = Null
    <2>1. x \in OpType /\ l \in Nat /\ x.do = "free"
      <3>1. Tiled(tags, hp)
        BY <1>7 DEF Sound
      <3> QED
        BY <1>1, <1>2, <1>5, <3>1, HeapParts, TiledFacts
    <2> QED
      BY <1>4, <1>12, <2>1 DEF OpType
  <1>14. Changed(op, op', t, y)
    <2>1. op' = [op EXCEPT ![t] = y]
      BY <1>1, <1>2, <1>12, HeapParts
    <2> QED
      BY <1>13, <2>1, HeapParts, ChangeFacts
  <1>15. CallOK(op', lock, blocks)
    <2>1. Fits(op, t, y, lock, lock, blocks)
      BY <1>2, <1>10, <1>13, MeltFits
    <2> QED
      BY <1>14, <2>1, HeapParts, CallChange
  <1>16. InHand(op') = {l}
    <2>1. \A u \in Threads \ {t} : op[u].do # "free"
      BY <1>2, HandFree, LockedFacts
    <2>2. op'[t] = y /\ \A u \in Threads \ {t} : op'[u].do # "free"
      BY <1>14, <2>1 DEF Changed
    <2>3. op'[t].do = "free" /\ op'[t].tag = l
      BY <1>13, <2>2
    <2> QED
      BY <2>2, <2>3, HandOne
  <1>17. PagesOK(op', pages, tables, others)
    <2>1. ~Finder(y) /\ y.do # "mark_other"
      BY <1>13 DEF Finder
    <2> QED
      BY <1>14, <2>1, HeapParts, PagesChange
  <1> QED
    BY <1>3, <1>6, <1>10, <1>11, <1>15, <1>16, <1>17 DEF HeapInv

\* One turn of the loop that melts to the right keeps the invariant.
LEMMA FreeMeltRightInv ==
  ASSUME HeapInv, NEW t \in Threads, FreeMeltRight(t)
  PROVE  HeapInv'
  <1>1. PICK a, r, R : a = op[t].tag /\ r = tags[op[t].tag].right /\ R = AbsorbRight(H0, op[t].tag)
    OBVIOUS
  <1>2. op[t].do = "free" /\ IsFree(r) /\ tags' = R.tags /\ free' = R.free
    BY <1>1 DEF FreeMeltRight, SetHeap
  <1>3. /\ complete' = complete /\ blocks' = blocks /\ tables' = tables /\ pages' = pages
        /\ lock' = lock /\ others' = others /\ op' = op
    BY DEF FreeMeltRight, pageVars
  <1>4. a \in DOMAIN tags /\ tags[a].index = -1 /\ BlocksOK(tags, blocks, {a}) /\ InHand(op) = {a}
    BY <1>1, <1>2, HandFree
  <1>5. r = tags[a].right /\ r # Null /\ tags[r].index # -1 /\ r \in DOMAIN tags
    <2>1. r \in {tags[a].left, tags[a].right}
      BY <1>1
    <2> QED
      BY <1>1, <1>2, <1>4, <2>1, FreeNeighbour
  <1>6. PICK hp : hp = HeapPages(pages, others)
    OBVIOUS
  <1>7. Sound(tags, free, hp)
    BY <1>6, HeapParts
  <1>8. MeltedOK(tags, R, a, r, hp)
    BY <1>1, <1>4, <1>5, <1>7, AbsorbRightSound DEF H0
  <1>9. a # r
    BY <1>4, <1>5
  <1>10. BlocksOK(tags', blocks, {a})
    <2>1. r \in {a, r} /\ a \in {a, r}
      OBVIOUS
    <2> QED
      BY <1>2, <1>4, <1>5, <1>8, <1>9, <2>1, BlocksMelt
  <1>11. Sound(tags', free', hp) /\ CountOK(complete, tags')
    <2>1. Sound(tags', free', hp) /\ \A i \in Exps : WholeFree(tags', i) = WholeFree(tags, i)
      BY <1>2, <1>8 DEF MeltedOK
    <2> QED
      BY <2>1, HeapParts, CountSame
  <1> QED
    BY <1>3, <1>4, <1>6, <1>10, <1>11, HeapParts DEF HeapInv

\* An area given back with its pages keeps the invariant.
LEMMA FreeAreaInv ==
  ASSUME HeapInv, NEW t \in Threads, FreeArea(t)
  PROVE  HeapInv'
  <1>1. PICK a, hp, U : a = op[t].tag /\ hp = HeapPages(pages, others) /\ U = tags'
    OBVIOUS
  <1>2. /\ op[t].do = "free" /\ tags[a].left = Null /\ tags[a].right = Null
        /\ Dropped(tags, U, a) /\ lock' = NoThread /\ op' = [op EXCEPT ![t] = Idle]
        /\ pages' = pages \ PagesAt(a, Max({PageCount, (tags[a].real + PageSize - 1) \div PageSize}))
    BY <1>1 DEF FreeArea, Melted, Whole, Dropped
  <1>3. /\ free' = free /\ complete' = complete /\ blocks' = blocks /\ tables' = tables /\ others' = others
    BY DEF FreeArea
  <1>4. a \in DOMAIN tags /\ tags[a].index = -1 /\ BlocksOK(tags, blocks, {a})
    BY <1>1, <1>2, HandFree
  <1>5. Sound(tags, free, hp)
    BY <1>1, HeapParts
  <1>6. /\ \E p \in Nat, n \in Nat : GivenBack(tags, U, a, p, n, hp) /\ Sound(U, free, hp \ Span(<<p, n>>))
        /\ DOMAIN U = DOMAIN tags \ {a} /\ Agree(tags, U, DOMAIN tags \ {a})
        /\ \A j \in Exps : WholeFree(U, j) = WholeFree(tags, j)
    BY <1>2, <1>4, <1>5, DropAreaSound
  <1>7. PICK p \in Nat, n \in Nat : GivenBack(tags, U, a, p, n, hp) /\ Sound(U, free, hp \ Span(<<p, n>>))
    BY <1>6
  <1>8. PICK X : X = Span(<<p, n>>)
    OBVIOUS
  <1>9. pages' = pages \ X /\ X \subseteq hp
    <2>1. n >= PageCount /\ a = Address(p) /\ tags[a].real = n * PageSize /\ X \subseteq hp
      BY <1>7, <1>8 DEF GivenBack
    <2>2. PagesAt(Address(p), Max({PageCount, (n * PageSize + PageSize - 1) \div PageSize})) = X
      BY <1>8, <2>1, PagesOfArea
    <2> QED
      BY <1>2, <2>1, <2>2
  <1>10. Sound(tags', free', HeapPages(pages', others'))
    <2>1. hp \ X \subseteq HeapPages(pages', others')
      BY <1>1, <1>3, <1>9, HeapPagesDrop
    <2> QED
      BY <1>1, <1>3, <1>7, <1>8, <2>1, SoundGrows
  <1>11. CountOK(complete', tags') /\ BlocksOK(tags', blocks', {})
    BY <1>1, <1>3, <1>4, <1>6, HeapParts, CountSame, BlocksDrop
  <1>12. CallOK(op', lock', blocks') /\ InHand(op') = {} /\ PagesOK(op', pages, tables, others)
    <2>1. op[t].do \in {"malloc", "grow", "free"} /\ blocks \subseteq blocks'
      BY <1>2, <1>3, HandFree
    <2> QED
      BY <1>2, <2>1, EndsIdle, EndCall
  <1>13. PagesOK(op', pages', tables', others')
    <2>1. \A r \in others : Span(r) \cap X = {}
      BY <1>1, <1>9 DEF HeapPages
    <2>2. others \subseteq others
      OBVIOUS
    <2>3. PagesOK(op', pages \ X, tables, others)
      BY <1>12, <2>1, <2>2, PagesLess
    <2> QED
      BY <1>3, <1>9, <2>3
  <1> QED
    BY <1>10, <1>11, <1>12, <1>13 DEF HeapInv

\* The end of malloc: Return in the terms of EndCall.
LEMMA ReturnEnds ==
  ASSUME HeapInv, NEW t \in Threads, op[t].do \in {"malloc", "grow"}, NEW a, Return(t, a)
  PROVE  \E y : Ends(op[t], y) /\ op' = [op EXCEPT ![t] = y] /\ lock' = NoThread /\ blocks' = blocks \union {a}
  <1>1. PICK x, y : x = op[t] /\ y = IF op[t].old = Null THEN Idle ELSE Op("free_lock", 0, op[t].old, Null, 0, FALSE)
    OBVIOUS
  <1>2. op' = [op EXCEPT ![t] = y] /\ lock' = NoThread /\ blocks' = blocks \union {a}
    BY <1>1, HeapParts DEF Return
  <1>3. Ends(x, y)
    <2>1. CASE x.old = Null
      <3>1. y = Idle
        BY <1>1, <2>1
      <3> QED
        BY <3>1, EndsIdle
    <2>2. CASE x.old # Null
      <3>1. y = Op("free_lock", 0, x.old, Null, 0, FALSE)
        BY <1>1, <2>2
      <3>2. x.old \in Nat /\ Null \in Nat /\ 0 \in Nat /\ FALSE \in BOOLEAN
        <4>1. x.old \in Nat
          BY <1>1, HeapParts, OpFacts
        <4> QED
          BY <4>1 DEF Null
      <3>3. y \in OpType /\ y.do = "free_lock" /\ y.tag = x.old /\ y.old = Null
        BY <3>1, <3>2 DEF Op, OpType
      <3> QED
        BY <2>2, <3>3 DEF Ends
    <2> QED
      BY <2>1, <2>2
  <1> QED
    BY <1>1, <1>2, <1>3

\* Pages are marked by a thread that has the lock: its own are not the heap's yet.
LEMMA GrowFacts ==
  ASSUME HeapInv, NEW t \in Threads, op[t].do = "grow"
  PROVE  /\ op[t].page \in Nat /\ op[t].size \in Nat /\ op[t].do \in {"malloc", "grow"}
         /\ op[t].do \in {"malloc", "grow", "free"}
         /\ Span(<<op[t].page, AreaPages(op[t].size)>>) \cap pages = {}
  <1>1. op[t].do \in {"malloc", "grow"} /\ op[t].do \in {"malloc", "grow", "free"} /\ Finder(op[t])
    BY DEF Finder
  <1>2. FoundBy(op[t]) = <<op[t].page, AreaPages(op[t].size)>>
    BY DEF FoundBy
  <1>3. op[t] \in OpType
    BY HeapParts
  <1> QED
    BY <1>1, <1>2, <1>3, HeapParts, OpFacts DEF PagesOK

\* l_completePages is exact when a piece has been taken out of its list.
LEMMA CountTake ==
  ASSUME SetCounts, NEW T, NEW U, NEW c, CountOK(c, T), NEW a \in DOMAIN T,
         NEW i \in Exps, T[a].index = i, NEW w, w <=> T[a].left = Null /\ T[a].right = Null,
         \A j \in Exps : WholeFree(U, j) = WholeFree(T, j) \ {a}
  PROVE  CountOK([c EXCEPT ![i] = IF w THEN @ + (-1) ELSE @], U)
  <1>1. /\ c \in [Exps -> Nat]
        /\ \A j \in Exps : IsFiniteSet(WholeFree(T, j)) /\ c[j] = Cardinality(WholeFree(T, j)) /\ c[j] <= MaxComplete
    BY DEF CountOK
  <1>2. PICK d : d = [c EXCEPT ![i] = IF w THEN @ + (-1) ELSE @]
    OBVIOUS
  <1>3. DOMAIN d = Exps /\ \A j \in Exps : d[j] = IF j = i /\ w THEN c[i] + (-1) ELSE c[j]
    BY <1>1, <1>2
  <1>4. ASSUME NEW j \in Exps
        PROVE  /\ IsFiniteSet(WholeFree(U, j))
               /\ d[j] \in Nat /\ d[j] = Cardinality(WholeFree(U, j)) /\ d[j] <= MaxComplete
    <2>1. IsFiniteSet(WholeFree(T, j)) /\ Cardinality(WholeFree(T, j)) \in Nat
      BY <1>1 DEF SetCounts
    <2>2. a \in WholeFree(T, j) <=> j = i /\ w
      BY DEF WholeFree
    <2>3. PICK S : S = WholeFree(T, j) /\ WholeFree(U, j) = S \ {a}
      OBVIOUS
    <2>4. IsFiniteSet(WholeFree(U, j)) /\ Cardinality(WholeFree(U, j)) \in Nat
      <3>1. IsFiniteSet(S \ {a}) /\ Cardinality(S \ {a}) \in Nat
        BY <2>1, <2>3 DEF SetCounts
      <3> QED
        BY <2>3, <3>1
    <2>5. c[j] = Cardinality(WholeFree(T, j)) /\ c[j] <= MaxComplete /\ MaxComplete \in Nat
      BY <1>1, ConstantFacts
    <2>6. CASE j = i /\ w
      <3>1. d[j] = c[j] + (-1)
        BY <1>3, <2>6
      <3>2. Cardinality(WholeFree(U, j)) = Cardinality(WholeFree(T, j)) - 1
        <4>1. IsFiniteSet(S) /\ a \in S
          BY <2>1, <2>2, <2>3, <2>6
        <4>2. Cardinality(S \ {a}) = Cardinality(S) - 1
          BY <4>1 DEF SetCounts
        <4> QED
          BY <2>3, <4>2
      <3> QED
        BY <2>1, <2>4, <2>5, <3>1, <3>2, SMT
    <2>7. CASE ~(j = i /\ w)
      <3>1. d[j] = c[j]
        BY <1>3, <2>7
      <3>2. WholeFree(U, j) = WholeFree(T, j)
        BY <2>2, <2>3, <2>7
      <3> QED
        BY <2>4, <2>5, <3>1, <3>2
    <2> QED
      BY <2>6, <2>7
  <1>5. d \in [Exps -> Nat]
    <2>1. PICK e : e = IF w THEN c[i] + (-1) ELSE c[i]
      OBVIOUS
    <2>2. d = [c EXCEPT ![i] = e]
      BY <1>2, <2>1
    <2>3. d[i] = e
      BY <1>1, <2>2
    <2>4. e \in Nat
      BY <1>4, <2>3
    <2> QED
      BY <1>1, <2>2, <2>4
  <1> QED
    BY <1>2, <1>4, <1>5 DEF CountOK

\* l_completePages is exact when a piece has been put into its list.
LEMMA CountPut ==
  ASSUME SetCounts, NEW T, NEW R, NEW c, CountOK(c, T), NEW a \in DOMAIN T,
         NEW i \in Exps, NEW w, w <=> T[a].left = Null /\ T[a].right = Null, NEW hp, InsertOK(T, R, a, i, hp),
         ~(w /\ c[i] = MaxComplete)
  PROVE  CountOK([c EXCEPT ![i] = IF w THEN @ + 1 ELSE @], R.tags)
  <1>1. /\ c \in [Exps -> Nat]
        /\ \A j \in Exps : IsFiniteSet(WholeFree(T, j)) /\ c[j] = Cardinality(WholeFree(T, j)) /\ c[j] <= MaxComplete
    BY DEF CountOK
  <1>2. PICK d : d = [c EXCEPT ![i] = IF w THEN @ + 1 ELSE @]
    OBVIOUS
  <1>3. DOMAIN d = Exps /\ \A j \in Exps : d[j] = IF j = i /\ w THEN c[i] + 1 ELSE c[j]
    BY <1>1, <1>2
  <1>4. ASSUME NEW j \in Exps
        PROVE  /\ IsFiniteSet(WholeFree(R.tags, j))
               /\ d[j] \in Nat /\ d[j] = Cardinality(WholeFree(R.tags, j)) /\ d[j] <= MaxComplete
    <2>1. IsFiniteSet(WholeFree(T, j)) /\ Cardinality(WholeFree(T, j)) \in Nat
      BY <1>1 DEF SetCounts
    <2>2. /\ a \notin WholeFree(T, j)
          /\ IF j = i /\ T[a].left = Null /\ T[a].right = Null
             THEN WholeFree(R.tags, j) = WholeFree(T, j) \union {a}
             ELSE WholeFree(R.tags, j) = WholeFree(T, j)
      BY DEF InsertOK
    <2>3. c[j] \in Nat /\ c[j] = Cardinality(WholeFree(T, j)) /\ c[j] <= MaxComplete /\ MaxComplete \in Nat
      BY <1>1, <2>1, ConstantFacts
    <2>4. CASE j = i /\ w
      <3>1. d[j] = c[j] + 1 /\ c[j] # MaxComplete
        BY <1>3, <2>4
      <3>2. WholeFree(R.tags, j) = WholeFree(T, j) \union {a}
        BY <2>2, <2>4
      <3>3. /\ IsFiniteSet(WholeFree(T, j) \union {a})
            /\ Cardinality(WholeFree(T, j) \union {a}) = Cardinality(WholeFree(T, j)) + 1
        BY <2>1, <2>2 DEF SetCounts
      <3>4. d[j] = Cardinality(WholeFree(R.tags, j))
        BY <2>3, <3>1, <3>2, <3>3
      <3>5. d[j] \in Nat /\ d[j] <= MaxComplete
        BY <2>3, <3>1, SMT
      <3> QED
        BY <3>2, <3>3, <3>4, <3>5
    <2>5. CASE ~(j = i /\ w)
      <3>1. d[j] = c[j] /\ WholeFree(R.tags, j) = WholeFree(T, j)
        BY <1>3, <2>2, <2>5
      <3> QED
        BY <2>1, <2>3, <3>1
    <2> QED
      BY <2>4, <2>5
  <1>5. d \in [Exps -> Nat]
    <2>1. PICK e : e = IF w THEN c[i] + 1 ELSE c[i]
      OBVIOUS
    <2>2. d = [c EXCEPT ![i] = e]
      BY <1>2, <2>1
    <2>3. d[i] = e
      BY <1>1, <2>2
    <2>4. e \in Nat
      BY <1>4, <2>3
    <2> QED
      BY <1>1, <2>2, <2>4
  <1> QED
    BY <1>2, <1>4, <1>5 DEF CountOK

\* What the search of malloc finds is in a list, and large enough.
LEMMA FittingFacts ==
  ASSUME WellOrdered, HeapInv, NEW n \in Nat, Fitting(n) # {}, NEW a, a = free[SearchIndex(n)][Min(Fitting(n))]
  PROVE  /\ a \in DOMAIN tags /\ tags[a].index \in Exps /\ tags[a].index # -1
         /\ tags[a].real - HeaderSize >= n + HeaderSize
  <1>1. PICK i \in Exps : i = SearchIndex(n)
    BY SearchIndexFacts
  <1>2. Lists(tags, free)
    BY HeapParts DEF Sound
  <1>3. free[i] \in Seq(Nat)
    BY <1>2 DEF Lists
  <1>4. PICK k : k = Min(Fitting(n))
    OBVIOUS
  <1>5. DOMAIN free[i] = 1 .. Len(free[i]) /\ \A j \in 1 .. Len(free[i]) : free[i][j] \in Nat
    BY <1>3, LenFacts
  <1>6. Fitting(n) \subseteq 1 .. Len(free[i]) /\ 1 .. Len(free[i]) \subseteq Nat
    <2>1. 1 .. Len(free[i]) \subseteq Nat
      BY <1>3, SMT
    <2> QED
      BY <1>1, <1>5, <2>1 DEF Fitting
  <1>7. k \in Fitting(n)
    <2>1. Fitting(n) \in SUBSET Nat
      BY <1>6
    <2> QED
      BY <1>4, <2>1, MinFacts
  <1>8. k \in 1 .. Len(free[i]) /\ a = free[i][k] /\ tags[a].real - HeaderSize >= n + HeaderSize
    BY <1>1, <1>4, <1>6, <1>7 DEF Fitting
  <1>9. a \in Nat /\ Holds(free[i], a)
    BY <1>5, <1>8 DEF Holds
  <1>10. a \in DOMAIN tags /\ tags[a].index = i
    BY <1>2, <1>9 DEF Lists
  <1> QED
    BY <1>8, <1>10, ExpsFacts

\* malloc of a piece from a list keeps the invariant.
LEMMA MallocFoundInv ==
  ASSUME WellOrdered, SetCounts, HeapInv, NEW t \in Threads, MallocFound(t)
  PROVE  HeapInv'
  <1>1. PICK n, a, hp : n = op[t].size /\ a = free[SearchIndex(op[t].size)][Min(Fitting(op[t].size))]
                        /\ hp = HeapPages(pages, others)
    OBVIOUS
  <1>2. /\ op[t].do = "malloc" /\ Fitting(n) # {} /\ SetHeap(Taken(RemoveTag(H0, a), a, n))
        /\ complete' = Recounted(tags[a].index, a, -1) /\ Return(t, a)
    BY <1>1 DEF MallocFound
  <1>3. tables' = tables /\ pages' = pages /\ others' = others
    <2>1. UNCHANGED <<pageVars, others>>
      BY DEF MallocFound
    <2> QED
      BY <2>1 DEF pageVars
  <1>4. op[t].do \in {"malloc", "grow"} /\ n \in Nat
    <2>1. op[t].do \in {"malloc", "grow"}
      BY <1>2
    <2> QED
      BY <1>1, <2>1, HeapParts, OpFacts
  <1>5. /\ a \in DOMAIN tags /\ tags[a].index \in Exps /\ tags[a].index # -1
        /\ tags[a].real - HeaderSize >= n + HeaderSize
    BY <1>1, <1>2, <1>4, FittingFacts
  <1>6. PICK R, T, F : R = RemoveTag(H0, a) /\ T = RemoveTag(H0, a).tags /\ F = RemoveTag(H0, a).free
    OBVIOUS
  <1>7. R = [tags |-> T, free |-> F]
    BY <1>6, HeapFields DEF RemoveTag
  <1>8. FoundOK(tags, R, a, hp)
    BY <1>1, <1>5, <1>6, HeapParts, FoundSound DEF H0
  <1>9. /\ Sound(T, F, hp) /\ Reindexed(tags, T, a, -1) /\ (T[a].right # Null => T[T[a].right].index = -1)
        /\ \A j \in Exps : WholeFree(T, j) = WholeFree(tags, j) \ {a}
    BY <1>6, <1>8 DEF FoundOK
  <1>10. a \in DOMAIN T /\ T[a].index = -1 /\ T[a].real = tags[a].real
    <2>1. DOMAIN T = DOMAIN tags
      BY <1>5, <1>9, ReindexedShape
    <2> QED
      BY <1>5, <1>9, <2>1 DEF Reindexed
  <1>11. HeaderSize + n <= T[a].real
    <2>1. Tiled(tags, hp)
      BY <1>1, HeapParts DEF Sound
    <2>2. tags[a].real \in Nat
      BY <1>5, <2>1, TiledFacts
    <2> QED
      BY <1>4, <1>5, <1>10, <2>2, ConstantFacts, SMT
  <1>12. PICK G : G = Taken(R, a, n)
    OBVIOUS
  <1>13. TakenOK(T, G, a, n, hp)
    BY <1>4, <1>7, <1>9, <1>10, <1>11, <1>12, TakenSound
  <1>14. tags' = G.tags /\ free' = G.free
    BY <1>2, <1>6, <1>12 DEF SetHeap
  <1>15. BlocksOK(tags', blocks \union {a}, {})
    <2>1. BlocksOK(T, blocks, {a})
      BY <1>4, <1>5, <1>9, HandMalloc, BlocksFound
    <2> QED
      BY <1>10, <1>13, <1>14, <2>1, BlocksTaken
  <1>16. CountOK(complete', tags')
    <2>1. \A j \in Exps : WholeFree(tags', j) = WholeFree(tags, j) \ {a}
      BY <1>9, <1>13, <1>14 DEF TakenOK
    <2>2. complete' = [complete EXCEPT ![tags[a].index] = IF Whole(a) THEN @ + (-1) ELSE @]
      BY <1>2 DEF Recounted
    <2>3. Whole(a) <=> tags[a].left = Null /\ tags[a].right = Null
      BY DEF Whole
    <2> QED
      BY <1>5, <2>1, <2>2, <2>3, HeapParts, CountTake
  <1>17. Sound(tags', free', HeapPages(pages', others'))
    BY <1>1, <1>3, <1>13, <1>14 DEF TakenOK
  <1>18. PICK y : Ends(op[t], y) /\ op' = [op EXCEPT ![t] = y] /\ lock' = NoThread /\ blocks' = blocks \union {a}
    BY <1>2, <1>4, ReturnEnds
  <1>19. CallOK(op', lock', blocks') /\ InHand(op') = {} /\ PagesOK(op', pages, tables, others)
    <2>1. op[t].do \in {"malloc", "grow", "free"} /\ blocks \subseteq blocks'
      BY <1>4, <1>18, HandMalloc
    <2> QED
      BY <1>18, <2>1, EndCall
  <1> QED
    BY <1>3, <1>15, <1>16, <1>17, <1>18, <1>19 DEF HeapInv

\* The end of free() that puts the piece into its list keeps the invariant.
LEMMA FreeInsertInv ==
  ASSUME WellOrdered, SetCounts, HeapInv, NEW t \in Threads, FreeInsert(t)
  PROVE  HeapInv'
  <1>1. PICK a, i, hp, R : /\ a = op[t].tag /\ i = IndexOf(tags[op[t].tag].real) /\ hp = HeapPages(pages, others)
                           /\ R = InsertTag(H0, op[t].tag)
    OBVIOUS
  <1>2. /\ op[t].do = "free" /\ ~IsFree(tags[a].left) /\ ~IsFree(tags[a].right)
        /\ ~(Whole(a) /\ complete[i] = MaxComplete) /\ complete' = Recounted(i, a, 1)
        /\ tags' = R.tags /\ free' = R.free /\ lock' = NoThread /\ op' = [op EXCEPT ![t] = Idle]
    BY <1>1 DEF FreeInsert, Melted, SetHeap
  <1>3. tables' = tables /\ pages' = pages /\ others' = others /\ blocks' = blocks
    BY DEF FreeInsert, pageVars
  <1>4. a \in DOMAIN tags /\ tags[a].index = -1 /\ BlocksOK(tags, blocks, {a})
    BY <1>1, <1>2, HandFree
  <1>5. Sound(tags, free, hp)
    BY <1>1, HeapParts
  <1>6. /\ tags[a].left # Null => tags[tags[a].left].index = -1
        /\ tags[a].right # Null => tags[tags[a].right].index = -1
    BY <1>2, <1>4, FreeNeighbour
  <1>7. InsertOK(tags, R, a, i, hp)
    BY <1>1, <1>4, <1>5, <1>6, InsertSound DEF H0
  <1>8. i \in Exps
    <2>1. tags[a].real \in Nat
      BY <1>4, <1>5, TiledFacts DEF Sound
    <2>2. tags[a].real \in Int
      BY <2>1, SMT
    <2> QED
      BY <1>1, <2>2, IndexFacts
  <1>9. Sound(tags', free', HeapPages(pages', others'))
    BY <1>1, <1>2, <1>3, <1>7 DEF InsertOK
  <1>10. BlocksOK(tags', blocks', {})
    <2>1. i # -1 /\ Reindexed(tags, R.tags, a, i)
      BY <1>7, <1>8, ExpsFacts DEF InsertOK
    <2> QED
      BY <1>2, <1>3, <1>4, <2>1, BlocksInsert
  <1>11. CountOK(complete', tags')
    <2>1. complete' = [complete EXCEPT ![i] = IF Whole(a) THEN @ + 1 ELSE @]
      BY <1>2 DEF Recounted
    <2>2. Whole(a) <=> tags[a].left = Null /\ tags[a].right = Null
      BY DEF Whole
    <2>3. CountOK([complete EXCEPT ![i] = IF Whole(a) THEN @ + 1 ELSE @], R.tags)
      BY <1>2, <1>4, <1>7, <1>8, <2>2, HeapParts, CountPut
    <2> QED
      BY <1>2, <2>1, <2>3
  <1>12. CallOK(op', lock', blocks') /\ InHand(op') = {} /\ PagesOK(op', pages, tables, others)
    <2>1. op[t].do \in {"malloc", "grow", "free"} /\ blocks \subseteq blocks'
      BY <1>2, <1>3, HandFree
    <2> QED
      BY <1>2, <2>1, EndsIdle, EndCall
  <1> QED
    BY <1>3, <1>9, <1>10, <1>11, <1>12 DEF HeapInv

\* The tag of a new area is put beside the others.
LEMMA NewTagFacts ==
  ASSUME NEW T, NEW hp, Tiled(T, hp), NEW a, NEW x \in TagType, NEW U,
         U = [b \in DOMAIN T \union {a} |-> IF b = a THEN x ELSE T[b]]
  PROVE  U \in [DOMAIN T \union {a} -> TagType] /\ U[a] = x /\ Agree(T, U, DOMAIN T \ {a})
  <1>1. T \in [DOMAIN T -> TagType]
    BY DEF Tiled, TagsOK
  <1>2. U \in [DOMAIN T \union {a} -> TagType] /\ U[a] = x /\ \A c \in DOMAIN T \ {a} : U[c] = T[c]
    BY <1>1
  <1> QED
    BY <1>2 DEF Agree

\* malloc of a piece from a new area keeps the invariant, unless two searches overlapped.
LEMMA MallocGrowInv ==
  ASSUME WellOrdered, HeapInv, NEW t \in Threads, MallocGrow(t), ~raced'
  PROVE  HeapInv'
  <1>1. PICK m, p, n, a, g, hp, x : /\ m = op[t].size /\ p = op[t].page /\ n = AreaPages(op[t].size)
                                    /\ a = Address(op[t].page) /\ g = <<op[t].page, AreaPages(op[t].size)>>
                                    /\ hp = HeapPages(pages, others)
                                    /\ x = Tag(op[t].size, AreaPages(op[t].size) * PageSize, Null, Null)
    OBVIOUS
  <1>2. PICK U : U = [b \in DOMAIN tags \union {a} |-> IF b = a THEN x ELSE tags[b]]
    OBVIOUS
  <1>3. op[t].do = "grow" /\ Mark(t, p, n) /\ SetHeap(Taken([H0 EXCEPT !.tags = U], a, m)) /\ Return(t, a)
    BY <1>1, <1>2 DEF MallocGrow
  <1>4. complete' = complete /\ others' = others
    <2>1. UNCHANGED <<complete, others, panic>>
      BY DEF MallocGrow
    <2> QED
      BY <2>1
  <1>5. /\ p \in Nat /\ m \in Nat /\ op[t].do \in {"malloc", "grow"} /\ op[t].do \in {"malloc", "grow", "free"}
        /\ Span(g) \cap pages = {} /\ g = <<p, n>>
    BY <1>1, <1>3, GrowFacts
  <1>6. n \in Nat /\ n >= PageCount /\ HeaderSize + m <= n * PageSize
    BY <1>1, <1>5, AreaPagesFacts
  <1>7. x \in TagType /\ x.real = n * PageSize /\ x.left = Null /\ x.right = Null /\ x.index = -1
    <2>1. PICK r \in Nat : r = n * PageSize
      BY <1>6, ConstantFacts, SMT
    <2>2. x = Tag(m, r, Null, Null) /\ Null \in Nat /\ -1 \in Exps \union {-1}
      BY <1>1, <2>1 DEF Null
    <2> QED
      BY <1>5, <2>1, <2>2 DEF Tag, TagType
  <1>8. Sound(tags, free, hp) /\ Tiled(tags, hp)
    BY <1>1, HeapParts DEF Sound
  <1>9. U \in [DOMAIN tags \union {a} -> TagType] /\ U[a] = x /\ Agree(tags, U, DOMAIN tags \ {a})
    BY <1>2, <1>7, <1>8, NewTagFacts
  <1>10. Span(<<p, n>>) \cap hp = {}
    BY <1>1, <1>5 DEF HeapPages
  <1>11. /\ Sound(U, free, hp \union Span(<<p, n>>)) /\ a \notin DOMAIN tags
         /\ \A j \in Exps : WholeFree(U, j) = WholeFree(tags, j)
    <2>1. AreaAdded(tags, U, a, p, n)
      BY <1>1, <1>7, <1>9 DEF AreaAdded
    <2> QED
      BY <1>5, <1>6, <1>8, <1>10, <2>1, NewAreaSound
  <1>12. pages' = pages \union Span(g) /\ tables' = tables \union {q \div TableSize : q \in Span(g)}
    <2>1. Span(g) = p .. p + n - 1
      BY <1>5 DEF Span
    <2> QED
      BY <1>3, <2>1 DEF Mark
  <1>13. PICK hq : hq = HeapPages(pages', others')
    OBVIOUS
  <1>14. Sound(U, free, hq)
    <2>1. \A r \in others : Span(r) \subseteq pages
      BY HeapParts DEF PagesOK
    <2>2. HeapPages(pages, others) \union Span(g) \subseteq HeapPages(pages \union Span(g), others)
      BY <1>5, <2>1, HeapPagesGrow
    <2>3. hp \union Span(<<p, n>>) \subseteq hq
      BY <1>1, <1>4, <1>5, <1>12, <1>13, <2>2
    <2> QED
      BY <1>11, <2>3, SoundGrows
  <1>15. PICK G : G = Taken([tags |-> U, free |-> free], a, m)
    OBVIOUS
  <1>16. a \in DOMAIN U /\ DOMAIN U = DOMAIN tags \union {a} /\ U[a].index = -1
    BY <1>7, <1>9
  <1>17. TakenOK(U, G, a, m, hq)
    <2>1. HeaderSize + m <= U[a].real /\ U[a].right = Null
      BY <1>6, <1>7, <1>9
    <2> QED
      BY <1>5, <1>14, <1>15, <1>16, <2>1, TakenSound
  <1>18. tags' = G.tags /\ free' = G.free
    <2>1. [H0 EXCEPT !.tags = U] = [tags |-> U, free |-> free]
      BY SMT DEF H0
    <2> QED
      BY <1>3, <1>15, <2>1 DEF SetHeap
  <1>19. BlocksOK(tags', blocks \union {a}, {})
    <2>1. BlocksOK(tags, blocks, {})
      BY <1>5, HandMalloc
    <2>2. BlocksOK(U, blocks, {a})
      BY <1>9, <1>11, <1>16, <2>1, BlocksNew
    <2> QED
      BY <1>16, <1>17, <1>18, <2>2, BlocksTaken
  <1>20. CountOK(complete', tags')
    <2>1. \A j \in Exps : WholeFree(tags', j) = WholeFree(tags, j)
      BY <1>11, <1>17, <1>18 DEF TakenOK
    <2> QED
      BY <1>4, <2>1, HeapParts, CountSame
  <1>21. Sound(tags', free', HeapPages(pages', others'))
    BY <1>13, <1>17, <1>18 DEF TakenOK
  <1>22. PICK y : Ends(op[t], y) /\ op' = [op EXCEPT ![t] = y] /\ lock' = NoThread /\ blocks' = blocks \union {a}
    BY <1>3, <1>5, ReturnEnds
  <1>23. CallOK(op', lock', blocks') /\ InHand(op') = {} /\ Changed(op, op', t, y) /\ ~Finder(y)
    <2>1. blocks \subseteq blocks'
      BY <1>22
    <2> QED
      BY <1>5, <1>22, <2>1, EndCall
  <1>24. PagesOK(op', pages', tables', others')
    <2>1. \A u \in Threads \ {t} : ~Finder(op[u])
      BY <1>3 DEF Mark, Finder
    <2> QED
      BY <1>4, <1>12, <1>23, <2>1, HeapParts, PagesGrow
  <1> QED
    BY <1>19, <1>20, <1>21, <1>22, <1>23, <1>24 DEF HeapInv

-----------------------------------------------------------------------------
(* The invariant. *)

\* The heap starts with no area.
LEMMA InitInv ==
  ASSUME SetCounts, Init
  PROVE  IInv
  <1> SUFFICES HeapInv /\ raced = FALSE
    BY DEF IInv
  <1>1. PICK T : T = tags
    OBVIOUS
  <1>2. /\ DOMAIN T = {} /\ T \in [{} -> TagType] /\ free = [i \in Exps |-> <<>>] /\ complete = [i \in Exps |-> 0]
        /\ tables = {} /\ pages = {} /\ lock = NoThread /\ op = [t \in Threads |-> Idle]
        /\ blocks = {} /\ others = {} /\ raced = FALSE
    BY <1>1 DEF Init
  <1>3. \A a : a \notin DOMAIN T
    BY <1>2
  <1>4. Tiled(T, HeapPages(pages, others))
    <2>1. TagsOK(T) /\ LinksOK(T) /\ Apart(T)
      BY <1>2, <1>3 DEF TagsOK, LinksOK, Apart
    <2>2. PICK ar : ar = [a \in {} |-> <<0, 0>>]
      OBVIOUS
    <2>3. ar \in [DOMAIN T -> Nat \X Nat]
      BY <1>2, <2>2
    <2>4. AreasOK(T, ar, HeapPages(pages, others))
      BY <1>3 DEF AreasOK
    <2> QED
      BY <2>1, <2>3, <2>4 DEF Tiled
  <1>5. Lists(T, free)
    <2>1. free \in [Exps -> Seq(Nat)] /\ \A i \in Exps : Len(free[i]) = 0
      BY <1>2, SMT
    <2>2. \A i \in Exps : 1 .. Len(free[i]) = {}
      BY <2>1, SMT
    <2>3. \A i \in Exps : Once(free[i]) /\ \A x \in Nat : ~Holds(free[i], x)
      BY <2>2 DEF Once, Holds
    <2> QED
      BY <1>3, <2>1, <2>3 DEF Lists
  <1>6. NoFreePair(T)
    BY <1>3 DEF NoFreePair
  <1>7. BlocksOK(T, blocks, InHand(op))
    <2>1. \A u \in Threads : op[u].do # "free"
      BY <1>2, IdleFacts
    <2>2. InHand(op) = {}
      BY <2>1, HandNone
    <2> QED
      BY <1>2, <1>3, <2>2 DEF BlocksOK
  <1>8. op \in [Threads -> OpType] /\ \A u \in Threads : op[u] = Idle
    BY <1>2, IdleFacts
  <1>9. /\ Idle.do \notin {"malloc", "grow", "free"} /\ Idle.do # "free_lock" /\ Claims(Idle) = {}
        /\ ~Finder(Idle) /\ Idle.do # "mark_other"
    BY IdleFacts DEF Claims, Finder
  <1>10. CallOK(op, lock, blocks)
    BY <1>2, <1>8, <1>9, IdleFacts, HeapAssumption DEF CallOK
  <1>11. PagesOK(op, pages, tables, others)
    BY <1>2, <1>8, <1>9 DEF PagesOK
  <1>12. CountOK(complete, T)
    <2>1. \A i \in Exps : WholeFree(T, i) = {}
      BY <1>3 DEF WholeFree
    <2>2. IsFiniteSet({}) /\ Cardinality({}) = 0
      BY DEF SetCounts
    <2>3. complete \in [Exps -> Nat] /\ \A i \in Exps : complete[i] = 0
      BY <1>2
    <2>4. 0 <= MaxComplete
      BY ConstantFacts, SMT
    <2> QED
      BY <2>1, <2>2, <2>3, <2>4 DEF CountOK
  <1> QED
    BY <1>1, <1>2, <1>4, <1>5, <1>6, <1>7, <1>10, <1>11, <1>12 DEF HeapInv, Sound

\* Every step keeps the invariant.
LEMMA StepInv ==
  ASSUME WellOrdered, SetCounts, IInv, [Next]_vars
  PROVE  IInv'
  <1>1. CASE UNCHANGED vars
    <2>1. /\ UNCHANGED <<tags, free, complete, blocks, tables, pages, lock, op, others>> /\ raced' = raced
      BY <1>1 DEF vars, heapVars, pageVars
    <2> QED
      BY <2>1, StayInv DEF IInv
  <1>2. CASE Next
    <2>1. PICK t \in Threads : Step(t)
      BY <1>2 DEF Next
    <2>2. HeapInv /\ raced = FALSE
      BY <1>2 DEF Next, IInv
    <2>3. ASSUME \/ SearchPages(t) \/ FreePages(t) \/ CallMalloc(t) \/ CallFree(t) \/ CallRealloc(t)
                 \/ LiballocLock(t) \/ LiballocLockAsserts(t) \/ MallocFound(t) \/ MallocSearch(t)
                 \/ MallocAsserts(t) \/ FreeMeltLeft(t) \/ FreeMeltRight(t) \/ FreeInsert(t) \/ FreeArea(t)
                 \/ SearchPagesAsserts(t)
          PROVE  IInv'
      <3>1. raced' = raced
        <4>1. UNCHANGED pageVars \/ raced' = raced
          BY <2>3 DEF SearchPages, FreePages, CallMalloc, CallFree, CallRealloc, Call, LiballocLock,
             LiballocLockAsserts, MallocFound, MallocSearch, MallocAsserts, FreeMeltLeft, FreeMeltRight,
             FreeInsert, FreeArea, SearchPagesAsserts
        <4> QED
          BY <4>1 DEF pageVars
      <3>2. HeapInv'
        BY <2>2, <2>3, SearchPagesInv, FreePagesInv, CallsInv, LiballocLockInv, AssertsInv, MallocFoundInv,
           MallocSearchInv, FreeMeltLeftInv, FreeMeltRightInv, FreeInsertInv, FreeAreaInv
      <3> QED
        BY <2>2, <3>1, <3>2 DEF IInv
    <2>4. ASSUME MarkPages(t) \/ MallocGrow(t) PROVE IInv'
      <3>1. raced' \in BOOLEAN
        BY <2>4 DEF MarkPages, MallocGrow, Mark
      <3>2. ~raced' => HeapInv'
        BY <2>2, <2>4, MarkPagesInv, MallocGrowInv
      <3> QED
        BY <3>1, <3>2 DEF IInv
    <2> QED
      BY <2>1, <2>3, <2>4 DEF Step
  <1> QED
    BY <1>1, <1>2

\* The invariant implies that the pieces tile the areas between two calls.
LEMMA TiledHolds == IInv => HeapIsTiled
  <1> SUFFICES ASSUME HeapInv, lock = NoThread
               PROVE  /\ \A a \in DOMAIN tags :
                           /\ tags[a].right # Null => /\ tags[a].right = a + tags[a].real
                                                      /\ tags[tags[a].right].left = a
                           /\ tags[a].left # Null => tags[tags[a].left].right = a
                           /\ tags[a].left = Null => a % PageSize = 0
                           /\ \A u \in a .. a + tags[a].real - 1 :
                                /\ u \div PageSize - 1 \in pages
                                /\ \A r \in others : u \div PageSize - 1 \notin r[1] .. r[1] + r[2] - 1
                           /\ \A b \in DOMAIN tags : a < b => a + tags[a].real <= b
                      /\ \A a \in blocks : a \in DOMAIN tags /\ HeaderSize + tags[a].size <= tags[a].real
    BY DEF IInv, HeapIsTiled, AtRest
  <1>1. Tiled(tags, HeapPages(pages, others))
    BY HeapParts DEF Sound
  <1>2. \A a \in blocks : a \in DOMAIN tags /\ HeaderSize + tags[a].size <= tags[a].real
    BY HeapParts DEF BlocksOK
  <1>3. ASSUME NEW a \in DOMAIN tags
        PROVE  /\ tags[a].right # Null => tags[a].right = a + tags[a].real /\ tags[tags[a].right].left = a
               /\ tags[a].left # Null => tags[tags[a].left].right = a
               /\ \A b \in DOMAIN tags : a < b => a + tags[a].real <= b
    BY <1>1 DEF Tiled, LinksOK, Apart
  <1>4. ASSUME NEW a \in DOMAIN tags PROVE tags[a].left = Null => a % PageSize = 0
    BY <1>1, PiecesInPages
  <1>5. ASSUME NEW a \in DOMAIN tags, NEW u \in a .. a + tags[a].real - 1
        PROVE  /\ u \div PageSize - 1 \in pages
               /\ \A r \in others : u \div PageSize - 1 \notin r[1] .. r[1] + r[2] - 1
    <2>1. u \div PageSize - 1 \in HeapPages(pages, others)
      BY <1>1, PiecesInPages
    <2> QED
      BY <2>1 DEF HeapPages, Span
  <1> QED
    BY <1>2, <1>3, <1>4, <1>5

\* Between two calls no piece is in hand.
LEMMA NoneInHand ==
  ASSUME HeapInv, lock = NoThread
  PROVE  BlocksOK(tags, blocks, {})
  <1>1. \A u \in Threads : op[u].do \notin {"malloc", "grow", "free"}
    BY HeapParts, HeapAssumption DEF CallOK
  <1>2. \A u \in Threads : op[u].do # "free"
    BY <1>1
  <1>3. InHand(op) = {}
    BY <1>2, HandNone
  <1> QED
    BY <1>3, HeapParts

\* The invariant implies that the free lists are exact between two calls.
LEMMA ListsHold == IInv => FreeListsExact
  <1> SUFFICES ASSUME HeapInv, lock = NoThread
               PROVE  /\ \A i \in Exps : \A k \in DOMAIN free[i] :
                           /\ free[i][k] \in DOMAIN tags \ blocks
                           /\ tags[free[i][k]].index = i /\ i = IndexOf(tags[free[i][k]].real)
                           /\ \A j \in DOMAIN free[i] : free[i][j] = free[i][k] => j = k
                      /\ \A a \in DOMAIN tags :
                           /\ a \in blocks <=> tags[a].index = -1
                           /\ a \notin blocks => \E k \in DOMAIN free[tags[a].index] : free[tags[a].index][k] = a
                           /\ IsFree(a) => ~IsFree(tags[a].left) /\ ~IsFree(tags[a].right)
    BY DEF IInv, FreeListsExact, AtRest
  <1>1. Tiled(tags, HeapPages(pages, others)) /\ Lists(tags, free) /\ NoFreePair(tags)
    BY HeapParts DEF Sound
  <1>2. BlocksOK(tags, blocks, {})
    BY NoneInHand
  <1>3. \A a \in DOMAIN tags : a \in blocks <=> tags[a].index = -1
    BY <1>2 DEF BlocksOK
  <1>4. \A i \in Exps : DOMAIN free[i] = 1 .. Len(free[i]) /\ \A k \in 1 .. Len(free[i]) : free[i][k] \in Nat
    <2>1. \A i \in Exps : free[i] \in Seq(Nat)
      BY <1>1 DEF Lists
    <2> QED
      BY <2>1, LenFacts
  <1>5. ASSUME NEW i \in Exps, NEW k \in DOMAIN free[i]
        PROVE  /\ free[i][k] \in DOMAIN tags \ blocks
               /\ tags[free[i][k]].index = i /\ i = IndexOf(tags[free[i][k]].real)
               /\ \A j \in DOMAIN free[i] : free[i][j] = free[i][k] => j = k
    <2>1. PICK x : x = free[i][k]
      OBVIOUS
    <2>2. x \in Nat /\ Holds(free[i], x)
      BY <1>4, <2>1 DEF Holds
    <2>3. x \in DOMAIN tags /\ tags[x].index = i /\ i # -1
      BY <1>1, <2>2, ExpsFacts DEF Lists
    <2>4. i = IndexOf(tags[x].real) /\ x \notin blocks
      BY <1>1, <1>3, <2>3 DEF Lists
    <2>5. \A j \in DOMAIN free[i] : free[i][j] = free[i][k] => j = k
      <3>1. Once(free[i])
        BY <1>1 DEF Lists
      <3> QED
        BY <1>4, <3>1 DEF Once
    <2> QED
      BY <2>1, <2>3, <2>4, <2>5
  <1>6. ASSUME NEW a \in DOMAIN tags, a \notin blocks
        PROVE  \E k \in DOMAIN free[tags[a].index] : free[tags[a].index][k] = a
    <2>1. PICK i : i = tags[a].index
      OBVIOUS
    <2>2. i \in Exps /\ a \in Nat
      BY <1>1, <1>3, <1>6, <2>1, TiledFacts
    <2>3. Holds(free[i], a)
      BY <1>1, <2>1, <2>2 DEF Lists
    <2> QED
      BY <1>4, <2>1, <2>2, <2>3 DEF Holds
  <1>7. ASSUME NEW a \in DOMAIN tags, IsFree(a) PROVE ~IsFree(tags[a].left) /\ ~IsFree(tags[a].right)
    <2>1. tags[a].index # -1 /\ a # Null
      <3>1. tags[a].index >= 0 /\ a # Null
        BY <1>7 DEF IsFree
      <3>2. ~(-1 >= 0)
        BY SMT
      <3> QED
        BY <3>1, <3>2
    <2>2. tags[a].right # Null => tags[tags[a].right].index = -1
      BY <1>1, <2>1 DEF NoFreePair
    <2>3. tags[a].left # Null => tags[tags[a].left].index = -1
      <3>1. tags[a].left # Null => tags[a].left \in DOMAIN tags /\ tags[tags[a].left].right = a
        BY <1>1 DEF Tiled, LinksOK
      <3> QED
        BY <1>1, <2>1, <3>1 DEF NoFreePair
    <2> QED
      BY <2>2, <2>3, FreeNeighbour
  <1> QED
    BY <1>3, <1>5, <1>6, <1>7

INSTANCE WellFoundedInduction
INSTANCE NaturalsInduction

\* A set of natural numbers has a least element.
LEMMA LeastNat == WellOrdered
  <1> SUFFICES ASSUME NEW S \in SUBSET Nat, S # {}
               PROVE  \E x \in S : \A y \in S : x <= y
    BY DEF WellOrdered
  <1>1. IsWellFoundedOn({ss \in Nat \X Nat : ss[1] < ss[2]}, Nat)
    BY NatLessThanWellFounded DEF OpToRel
  <1>2. PICK x \in S : \A y \in S : ~(<<y, x>> \in {ss \in Nat \X Nat : ss[1] < ss[2]})
    BY <1>1, WFMin
  <1>3. \A y \in S : ~(y < x)
    BY <1>2
  <1> QED
    BY <1>3, SMT

INSTANCE FiniteSetTheorems

\* What adding and removing an element does to a finite set.
LEMMA CountingFacts == SetCounts
  <1>0. IsFiniteSet({}) /\ Cardinality({}) = 0
    BY FS_EmptySet
  <1> SUFFICES ASSUME NEW S, NEW x, IsFiniteSet(S)
               PROVE  /\ Cardinality(S) \in Nat /\ IsFiniteSet(S \union {x}) /\ IsFiniteSet(S \ {x})
                      /\ Cardinality(S \ {x}) \in Nat
                      /\ x \notin S => Cardinality(S \union {x}) = Cardinality(S) + 1
                      /\ x \in S => Cardinality(S \ {x}) = Cardinality(S) - 1
    BY <1>0 DEF SetCounts
  <1>1. IsFiniteSet(S \union {x}) /\ (x \notin S => Cardinality(S \union {x}) = Cardinality(S) + 1)
    BY FS_AddElement
  <1>2. IsFiniteSet(S \ {x}) /\ (x \in S => Cardinality(S \ {x}) = Cardinality(S) - 1)
    BY FS_RemoveElement
  <1> QED
    BY <1>1, <1>2, FS_CardinalityType

\* The invariant implies that l_completePages is exact between two calls.
LEMMA CountsHold == IInv => CompletePagesExact
  <1> SUFFICES ASSUME HeapInv, lock = NoThread, NEW i \in Exps
               PROVE  /\ complete[i] = Cardinality({k \in DOMAIN free[i] : Whole(free[i][k])})
                      /\ complete[i] <= MaxComplete
    BY DEF IInv, CompletePagesExact, AtRest
  <1>1. PICK q, K : q = free[i] /\ K = {k \in DOMAIN free[i] : Whole(free[i][k])}
    OBVIOUS
  <1>2. IsFiniteSet(WholeFree(tags, i)) /\ complete[i] = Cardinality(WholeFree(tags, i)) /\ complete[i] <= MaxComplete
    BY HeapParts DEF CountOK
  <1>3. q \in Seq(Nat) /\ Once(q) /\ \A x \in Nat : Holds(q, x) <=> x \in DOMAIN tags /\ tags[x].index = i
    BY <1>1, HeapParts DEF Sound, Lists
  <1>4. DOMAIN q = 1 .. Len(q) /\ \A k \in 1 .. Len(q) : q[k] \in Nat
    BY <1>3, LenFacts
  <1>5. \A k : k \in K <=> k \in 1 .. Len(q) /\ tags[q[k]].left = Null /\ tags[q[k]].right = Null
    BY <1>1, <1>4 DEF Whole
  <1>6. PICK f : f = [k \in K |-> q[k]]
    OBVIOUS
  <1>7. \A k \in K : q[k] \in WholeFree(tags, i)
    BY <1>3, <1>4, <1>5 DEF WholeFree, Holds
  <1>8. \A a \in WholeFree(tags, i) : \E k \in K : q[k] = a
    <2>1. ASSUME NEW a \in WholeFree(tags, i) PROVE \E k \in K : q[k] = a
      <3>1. a \in DOMAIN tags /\ tags[a].index = i /\ tags[a].left = Null /\ tags[a].right = Null
        BY DEF WholeFree
      <3>2. a \in Nat
        BY <3>1, HeapParts, TiledFacts DEF Sound
      <3>3. Holds(q, a)
        BY <1>3, <3>1, <3>2
      <3> QED
        BY <1>5, <3>1, <3>3 DEF Holds
    <2> QED
      BY <2>1
  <1>9. \A j, k \in K : q[j] = q[k] => j = k
    BY <1>3, <1>5 DEF Once
  <1>10. f \in Bijection(K, WholeFree(tags, i))
    <2>1. f \in [K -> WholeFree(tags, i)] /\ \A k \in K : f[k] = q[k]
      BY <1>6, <1>7, SMT
    <2>2. f \in Injection(K, WholeFree(tags, i))
      BY <1>9, <2>1 DEF Injection, IsInjective
    <2>3. f \in Surjection(K, WholeFree(tags, i))
      BY <1>8, <2>1 DEF Surjection
    <2> QED
      BY <2>2, <2>3 DEF Bijection
  <1>11. IsFiniteSet(K)
    <2>1. Len(q) \in Nat /\ 1 \in Int
      BY <1>3, SMT
    <2>2. IsFiniteSet(1 .. Len(q))
      BY <2>1, FS_Interval, SMT
    <2>3. K \subseteq 1 .. Len(q)
      BY <1>5
    <2> QED
      BY <2>2, <2>3, FS_Subset
  <1>12. Cardinality(WholeFree(tags, i)) = Cardinality(K)
    <2>1. ExistsBijection(K, WholeFree(tags, i))
      BY <1>10 DEF ExistsBijection
    <2> QED
      BY <1>11, <2>1, FS_Bijection
  <1> QED
    BY <1>1, <1>2, <1>12

\* The invariant of the heap holds in every state up to the first overlap of two searches.
LEMMA HeapInvariant == Spec => []IInv
  <1>1. Init => IInv
    BY CountingFacts, InitInv
  <1>2. IInv /\ [Next]_vars => IInv'
    BY LeastNat, CountingFacts, StepInv
  <1> QED
    BY <1>1, <1>2, PTL DEF Spec

\* malloc, free and realloc keep the areas of the heap tiled: whenever alloc_lock is free, the
\* pieces that split_left and split_right join are neighbours, none overlap, all lie in pages
\* of the heap, and a block fits the piece it was taken from.
THEOREM TiledHeap == Spec => []HeapIsTiled
  BY HeapInvariant, TiledHolds, PTL

\* The lists of free pieces that malloc searches are exact whenever alloc_lock is free: every
\* piece is handed out or once in the list of its own class, and free() left no two free
\* neighbours unmelted.
THEOREM ExactFreeLists == Spec => []FreeListsExact
  BY HeapInvariant, ListsHold, PTL

\* l_completePages counts the whole areas in every list, and free() keeps no more of them than
\* MAXCOMPLETE.
THEOREM ExactCompletePages == Spec => []CompletePagesExact
  BY HeapInvariant, CountsHold, PTL
=============================================================================
