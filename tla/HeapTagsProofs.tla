--------------------------- MODULE HeapTagsProofs ---------------------------
(***************************************************************************)
(* What the helpers of liballoc.c do to the boundary tags and to the free  *)
(* lists: a heap whose pieces tile the areas and whose lists are exact is  *)
(* still one when a tag has been inserted, removed, split off, melted or   *)
(* absorbed, and when an area has come or gone. The steps of the threads   *)
(* are in HeapProofs.                                                      *)
(***************************************************************************)
EXTENDS Heap, TLAPS

\* A leaf is proved by Zenon, unless it cites another prover.
USE Zenon

\* An area of g[2] pages from page g[1]: its pages, its first address, and the one behind it.
Span(g) == g[1] .. g[1] + g[2] - 1
From(g) == Address(g[1])
To(g) == Address(g[1] + g[2])

TagType == [size : Nat, real : Nat, index : Exps \union {-1}, left : Nat, right : Nat]

\* The tags T, each with a piece of positive length behind its address.
TagsOK(T) ==
  /\ DOMAIN T \subseteq Nat \ {0} /\ T \in [DOMAIN T -> TagType]
  /\ \A a \in DOMAIN T : T[a].real > 0

\* split_left and split_right join neighbours.
LinksOK(T) ==
  \A a \in DOMAIN T :
    /\ T[a].right # Null => T[a].right \in DOMAIN T /\ T[a].right = a + T[a].real /\ T[T[a].right].left = a
    /\ T[a].left # Null => T[a].left \in DOMAIN T /\ T[T[a].left].right = a

Apart(T) == \A a, b \in DOMAIN T : a < b => a + T[a].real <= b

\* Every piece lies in an area of the pages hp. The links end at the ends of the area.
AreasOK(T, ar, hp) ==
  /\ \A a \in DOMAIN T :
       /\ ar[a][2] >= PageCount /\ Span(ar[a]) \subseteq hp
       /\ From(ar[a]) <= a /\ a + T[a].real <= To(ar[a])
       /\ T[a].left = Null => a = From(ar[a])
       /\ T[a].right = Null => a + T[a].real = To(ar[a])
       /\ T[a].right # Null => ar[T[a].right] = ar[a]
  /\ \A a, b \in DOMAIN T : ar[a] # ar[b] => Span(ar[a]) \cap Span(ar[b]) = {}

Tiled(T, hp) ==
  /\ TagsOK(T) /\ LinksOK(T) /\ Apart(T)
  /\ \E ar \in [DOMAIN T -> Nat \X Nat] : AreasOK(T, ar, hp)

Holds(q, x) == \E k \in 1 .. Len(q) : q[k] = x
Once(q) == \A j, k \in 1 .. Len(q) : q[j] = q[k] => j = k

\* The lists F hold the tags with an index, each once and under its own class.
Lists(T, F) ==
  /\ F \in [Exps -> Seq(Nat)]
  /\ \A i \in Exps : Once(F[i]) /\ \A x \in Nat : Holds(F[i], x) <=> x \in DOMAIN T /\ T[x].index = i
  /\ \A a \in DOMAIN T : T[a].index # -1 => T[a].index = IndexOf(T[a].real)

NoFreePair(T) ==
  \A a \in DOMAIN T : T[a].index # -1 /\ T[a].right # Null => T[T[a].right].index = -1

Sound(T, F, hp) == Tiled(T, hp) /\ Lists(T, F) /\ NoFreePair(T)

WholeFree(T, i) == {a \in DOMAIN T : T[a].index = i /\ T[a].left = Null /\ T[a].right = Null}

CountOK(c, T) ==
  /\ c \in [Exps -> Nat]
  /\ \A i \in Exps :
       IsFiniteSet(WholeFree(T, i)) /\ c[i] = Cardinality(WholeFree(T, i)) /\ c[i] <= MaxComplete

\* The pieces in no list are the blocks B and those in D that a call has in hand.
BlocksOK(T, B, D) ==
  /\ B \subseteq DOMAIN T /\ D \subseteq DOMAIN T /\ B \cap D = {}
  /\ \A a \in DOMAIN T : T[a].index = -1 <=> a \in B \union D
  /\ \A a \in B : HeaderSize + T[a].size <= T[a].real

-----------------------------------------------------------------------------
(* What the helpers of liballoc.c do to the pieces: T before, U afterwards. *)

\* No piece changes its place, its length or its links.
SameShape(T, U) ==
  /\ U \in [DOMAIN T -> TagType]
  /\ \A a \in DOMAIN T : U[a].real = T[a].real /\ U[a].left = T[a].left /\ U[a].right = T[a].right

\* The piece r behind l goes into l.
Joined(T, U, l, r) ==
  /\ U \in [DOMAIN T \ {r} -> TagType]
  /\ U[l].real = T[l].real + T[r].real /\ U[l].left = T[l].left /\ U[l].right = T[r].right
  /\ \A c \in DOMAIN T \ {l, r} :
       /\ U[c].real = T[c].real /\ U[c].right = T[c].right
       /\ U[c].left = IF c = T[r].right THEN l ELSE T[c].left

\* The piece a is cut at the address b.
Cut(T, U, a, b) ==
  /\ b \in Nat /\ a < b /\ b < a + T[a].real
  /\ U \in [DOMAIN T \union {b} -> TagType]
  /\ U[a].real = b - a /\ U[a].left = T[a].left /\ U[a].right = b
  /\ U[b].real = a + T[a].real - b /\ U[b].left = a /\ U[b].right = T[a].right
  /\ \A c \in DOMAIN T \ {a} :
       /\ U[c].real = T[c].real /\ U[c].right = T[c].right
       /\ U[c].left = IF c = T[a].right THEN b ELSE T[c].left

\* The piece r is the one behind l.
Behind(T, l, r) ==
  /\ r \in DOMAIN T /\ r = l + T[l].real /\ T[r].left = l /\ r # l /\ T[r].right # l
  /\ T[r].right # r /\ T[l].left # r /\ T[l].left # l
  /\ T[r].right # Null =>
       /\ T[r].right \in DOMAIN T /\ T[r].right = r + T[r].real /\ T[T[r].right].left = r

\* The piece c is in a list.
Listed(T, c) == c \in DOMAIN T /\ T[c].index # -1

\* Apart from a, the pieces in lists are the same.
SameListed(T, U, a) ==
  /\ \A c : Listed(T, c) /\ c # a => c \in DOMAIN U /\ U[c].index = T[c].index /\ U[c].real = T[c].real
  /\ \A c : Listed(U, c) /\ c # a => Listed(T, c)

\* The list u holds what q holds, once, without a, or with it.
Less(q, u, a) == Once(u) /\ \A x : Holds(u, x) <=> Holds(q, x) /\ x # a
More(q, u, a) == Once(u) /\ \A x : Holds(u, x) <=> Holds(q, x) \/ x = a

\* U has the tags of V at the addresses D.
Agree(V, U, D) == \A c \in D : U[c] = V[c]

\* The piece a, a whole area of n pages from page p, is taken out of the heap with its pages.
GivenBack(T, U, a, p, n, hp) ==
  /\ n >= PageCount /\ a = Address(p) /\ T[a].real = n * PageSize
  /\ Span(<<p, n>>) \subseteq hp /\ Tiled(U, hp \ Span(<<p, n>>))

\* Only the index of a changes.
Reindexed(T, U, a, i) ==
  /\ U \in [DOMAIN T -> TagType] /\ U[a].index = i
  /\ U[a].size = T[a].size /\ U[a].real = T[a].real /\ U[a].left = T[a].left /\ U[a].right = T[a].right
  /\ \A c \in DOMAIN T \ {a} : U[c] = T[c]

\* The pieces outside X stay, with their index, size and length.
Kept(T, U, X) ==
  \A c \in DOMAIN T \ X :
    c \in DOMAIN U /\ U[c].index = T[c].index /\ U[c].size = T[c].size /\ U[c].real = T[c].real

\* The heap R in which malloc has taken n units of the piece a of T.
TakenOK(T, R, a, n, hp) ==
  /\ Sound(R.tags, R.free, hp) /\ Kept(T, R.tags, {a})
  /\ a \in DOMAIN R.tags /\ R.tags[a].index = -1 /\ R.tags[a].size = n /\ HeaderSize + n <= R.tags[a].real
  /\ \A c \in DOMAIN R.tags \ DOMAIN T : R.tags[c].index # -1
  /\ \A i \in Exps : WholeFree(R.tags, i) = WholeFree(T, i)

\* The heap R in which free() has melted the pieces l and r of T.
MeltedOK(T, R, l, r, hp) ==
  /\ Sound(R.tags, R.free, hp) /\ Kept(T, R.tags, {l, r})
  /\ DOMAIN R.tags = DOMAIN T \ {r} /\ R.tags[l].index = -1
  /\ \A i \in Exps : WholeFree(R.tags, i) = WholeFree(T, i)

\* real_size and split_right of l are stored.
Stretched(T, V, l, m, r) ==
  /\ V \in [DOMAIN T -> TagType] /\ \A c \in DOMAIN T \ {l} : V[c] = T[c]
  /\ V[l].real = m /\ V[l].right = r
  /\ V[l].size = T[l].size /\ V[l].index = T[l].index /\ V[l].left = T[l].left

\* split_left of r is stored, where there is an r.
LeftStored(T, W, r, a) ==
  /\ W \in [DOMAIN T -> TagType]
  /\ \A c \in DOMAIN T :
       /\ W[c].size = T[c].size /\ W[c].real = T[c].real /\ W[c].index = T[c].index
       /\ W[c].right = T[c].right /\ W[c].left = IF c = r THEN a ELSE T[c].left

\* Outside X the index and the size of a tag are the same.
SameMarks(T, U, X) == \A c \in DOMAIN T \ X : U[c].index = T[c].index /\ U[c].size = T[c].size

\* U has the tags of W at the addresses D.
Restricted(W, U, D) == U \in [D -> TagType] /\ \A c \in D : U[c] = W[c]

\* Only the size of a changes.
Resized(T, U, a, n) ==
  /\ SameShape(T, U) /\ U[a].size = n /\ \A c \in DOMAIN T : U[c].index = T[c].index
  /\ \A c \in DOMAIN T \ {a} : U[c].size = T[c].size

\* The pieces l and r of T become one in R; x, which was in the list i, leaves it.
Melting(T, F, R, l, r, x, i) ==
  /\ Joined(T, R.tags, l, r) /\ R.tags[l].index = -1 /\ SameMarks(T, R.tags, {l, r})
  /\ R.free = [F EXCEPT ![i] = Unlinked(@, x)]

\* The piece a of T is cut at b in R; the new piece goes into its list.
Splitting(T, F, R, a, b) ==
  /\ Cut(T, R.tags, a, b) /\ SameMarks(T, R.tags, {})
  /\ R.tags[b].index = IndexOf(R.tags[b].real)
  /\ R.free = [F EXCEPT ![IndexOf(R.tags[b].real)] = <<b>> \o @]

\* What a cut leaves of the heap.
SplitOK(T, R, a, b, hp) ==
  /\ Sound(R.tags, R.free, hp) /\ Kept(T, R.tags, {a}) /\ DOMAIN R.tags = DOMAIN T \union {b}
  /\ R.tags[a].index = T[a].index /\ R.tags[a].size = T[a].size /\ R.tags[a].real = b - a
  /\ R.tags[b].index # -1
  /\ \A i \in Exps : WholeFree(R.tags, i) = WholeFree(T, i)

\* malloc takes a out of its list.
FoundOK(T, R, a, hp) ==
  /\ Sound(R.tags, R.free, hp) /\ Reindexed(T, R.tags, a, -1)
  /\ R.tags[a].right # Null => R.tags[R.tags[a].right].index = -1
  /\ \A j \in Exps : WholeFree(R.tags, j) = WholeFree(T, j) \ {a}

\* free() puts a into its list.
InsertOK(T, R, a, i, hp) ==
  /\ Sound(R.tags, R.free, hp) /\ Reindexed(T, R.tags, a, i)
  /\ \A j \in Exps : a \notin WholeFree(T, j)
  /\ \A j \in Exps :
       IF j = i /\ T[a].left = Null /\ T[a].right = Null
       THEN WholeFree(R.tags, j) = WholeFree(T, j) \union {a}
       ELSE WholeFree(R.tags, j) = WholeFree(T, j)

\* U is T with the piece a, a whole area of n pages from page p.
AreaAdded(T, U, a, p, n) ==
  /\ a = Address(p) /\ U \in [DOMAIN T \union {a} -> TagType] /\ Agree(T, U, DOMAIN T \ {a})
  /\ U[a].real = n * PageSize /\ U[a].left = Null /\ U[a].right = Null /\ U[a].index = -1

\* U is T without a.
Dropped(T, U, a) == U = [b \in DOMAIN T \ {a} |-> T[b]]

\* The natural numbers are well ordered. The lemmas that look for a least number have this as
\* a hypothesis; it is LeastNat, at the end.
WellOrdered == \A S \in SUBSET Nat : S # {} => \E x \in S : \A y \in S : x <= y

-----------------------------------------------------------------------------
\* A sequence and its length.
LEMMA LenFacts ==
  ASSUME NEW S, NEW s \in Seq(S)
  PROVE  Len(s) \in Nat /\ DOMAIN s = 1 .. Len(s) /\ \A i \in 1 .. Len(s) : s[i] \in S
  BY SMT

\* A function from 1..n is a sequence of length n.
LEMMA FunctionIsSeq ==
  ASSUME NEW S, NEW n \in Nat, NEW f \in [1 .. n -> S]
  PROVE  f \in Seq(S) /\ Len(f) = n
  BY SMT

\* Min of a set of natural numbers is its least element.
LEMMA MinFacts ==
  ASSUME WellOrdered, NEW S \in SUBSET Nat, S # {}
  PROVE  Min(S) \in S /\ \A y \in S : Min(S) <= y
  <1>1. \E x \in S : \A y \in S : x <= y
    BY DEF WellOrdered
  <1> QED
    BY <1>1 DEF Min

\* Max of two integers.
LEMMA MaxFacts ==
  ASSUME NEW x \in Int, NEW y \in Int
  PROVE  Max({x, y}) \in {x, y} /\ Max({x, y}) >= x /\ Max({x, y}) >= y
  <1>1. \E m \in {x, y} : \A z \in {x, y} : m >= z
    BY SMT
  <1>2. Max({x, y}) \in {x, y} /\ \A z \in {x, y} : Max({x, y}) >= z
    BY <1>1 DEF Max
  <1> QED
    BY <1>2

\* The constants of liballoc.c and paging.cpp, one by one.
LEMMA ConstantFacts ==
  /\ HeaderSize \in Nat /\ HeaderSize > 0 /\ PageSize \in Nat /\ PageSize > 0
  /\ PageCount \in Nat /\ PageCount > 0 /\ TableSize \in Nat /\ TableSize > 0
  /\ Tables \in Nat /\ Tables > 0 /\ MinExp \in Nat /\ MaxExp \in Nat /\ MinExp < MaxExp
  /\ MaxComplete \in Nat
  BY HeapAssumption, SMT

\* getexp returns a class or -1.
LEMMA ExpFacts ==
  ASSUME WellOrdered, NEW n \in Int
  PROVE  GetExp(n) \in Exps \union {-1}
  <1>1. CASE n < 2^MinExp
    BY <1>1 DEF GetExp
  <1>2. CASE ~(n < 2^MinExp)
    <2> DEFINE S == {s \in MinExp .. MaxExp : s < MaxExp => n < 2^s}
    <2>1. \A s : s \in S <=> s \in MinExp .. MaxExp /\ (s < MaxExp => n < 2^s)
      OBVIOUS
    <2>2. GetExp(n) = Min(S) - 1
      BY <1>2 DEF GetExp
    <2> HIDE DEF S
    <2>3. MaxExp \in MinExp .. MaxExp /\ ~(MaxExp < MaxExp) /\ MinExp .. MaxExp \subseteq Nat
      BY ConstantFacts, SMT
    <2>4. MaxExp \in S /\ S \in SUBSET Nat
      BY <2>1, <2>3
    <2>5. Min(S) \in S
      BY <2>4, MinFacts
    <2>6. MinExp \notin S
      <3>1. MinExp < MaxExp
        BY ConstantFacts
      <3> QED
        BY <1>2, <2>1, <3>1
    <2>7. Min(S) \in MinExp .. MaxExp /\ Min(S) # MinExp
      BY <2>1, <2>5, <2>6
    <2>8. Min(S) - 1 \in MinExp .. MaxExp - 1
      BY <2>7, ConstantFacts, SMT
    <2> QED
      BY <2>2, <2>8 DEF Exps
  <1> QED
    BY <1>1, <1>2

\* Every piece has a class.
LEMMA IndexFacts ==
  ASSUME WellOrdered, NEW n \in Int
  PROVE  IndexOf(n) \in Exps
  <1>1. n - HeaderSize \in Int
    BY ConstantFacts, SMT
  <1>2. GetExp(n - HeaderSize) \in Exps \union {-1}
    BY <1>1, ExpFacts
  <1>3. MinExp \in Int /\ GetExp(n - HeaderSize) \in Int /\ MinExp \in Exps
    BY <1>2, ConstantFacts, SMT DEF Exps
  <1>4. IndexOf(n) \in {MinExp, GetExp(n - HeaderSize)} /\ IndexOf(n) >= MinExp
    BY <1>3, MaxFacts DEF IndexOf
  <1>5. -1 < MinExp /\ -1 \in Int
    BY ConstantFacts, SMT
  <1> QED
    BY <1>2, <1>3, <1>4, <1>5, SMT

\* The class malloc starts its search in.
LEMMA SearchIndexFacts ==
  ASSUME WellOrdered, NEW n \in Nat
  PROVE  SearchIndex(n) \in Exps
  <1>1. n \in Int
    BY SMT
  <1>2. GetExp(n) \in Exps \union {-1}
    BY <1>1, ExpFacts
  <1>3. MinExp \in Int /\ GetExp(n) \in Int /\ MinExp \in Exps
    BY <1>2, ConstantFacts, SMT DEF Exps
  <1>4. SearchIndex(n) \in {MinExp, GetExp(n)} /\ SearchIndex(n) >= MinExp
    BY <1>3, MaxFacts DEF SearchIndex
  <1>5. -1 < MinExp /\ -1 \in Int
    BY ConstantFacts, SMT
  <1> QED
    BY <1>2, <1>3, <1>4, <1>5, SMT

\* The exponents of l_freePages are natural numbers, none of them the index of a tag in no list.
LEMMA ExpsFacts == -1 \notin Exps /\ Exps \subseteq Nat
  BY ConstantFacts, SMT DEF Exps

-----------------------------------------------------------------------------
\* A larger multiple of PageSize is larger by at least a page.
LEMMA PageSteps ==
  ASSUME NEW a \in Nat, NEW b \in Nat, a < b
  PROVE  a * PageSize + PageSize <= b * PageSize
  <1>1. PageSize \in Nat /\ PageSize > 0
    BY ConstantFacts
  <1>2. PICK d \in Nat : b = a + 1 + d
    <2>1. b - a - 1 \in Nat /\ b = a + 1 + (b - a - 1)
      BY SMT
    <2> QED
      BY <2>1
  <1>3. b * PageSize = a * PageSize + PageSize + d * PageSize
    BY <1>1, <1>2, SMT
  <1>4. d * PageSize \in Nat /\ a * PageSize \in Nat
    BY <1>1, SMT
  <1> QED
    BY <1>1, <1>3, <1>4, SMT

\* The page of an address between two multiples of PageSize.
LEMMA DivFacts ==
  ASSUME NEW u \in Nat, NEW a \in Nat, NEW b \in Nat, a * PageSize <= u, u < b * PageSize
  PROVE  u \div PageSize \in a .. b - 1
  <1>1. PageSize \in Nat /\ PageSize > 0
    BY ConstantFacts
  <1> DEFINE q == u \div PageSize
  <1>2. q \in Nat /\ u % PageSize \in 0 .. PageSize - 1
    BY <1>1, SMT
  <1>3. u = q * PageSize + (u % PageSize)
    BY <1>1, SMT
  <1> HIDE DEF q
  <1>4. a * PageSize \in Nat /\ b * PageSize \in Nat /\ q * PageSize \in Nat
    BY <1>1, <1>2, SMT
  <1>5. q * PageSize <= u /\ u < q * PageSize + PageSize
    BY <1>1, <1>2, <1>3, <1>4, SMT
  <1>6. ~(q < a)
    BY <1>1, <1>2, <1>4, <1>5, PageSteps, SMT
  <1>7. ~(b < q)
    BY <1>1, <1>2, <1>4, <1>5, PageSteps, SMT
  <1>8. b # q
    BY <1>4, <1>5, SMT
  <1>9. q \in a .. b - 1
    BY <1>2, <1>6, <1>7, <1>8, SMT
  <1> QED
    BY <1>9 DEF q

\* The address of a page is that of no null pointer, is aligned, and leads back to the page.
LEMMA AddressFacts ==
  ASSUME NEW p \in Nat
  PROVE  /\ Address(p) \in Nat /\ Address(p) > 0 /\ Address(p) % PageSize = 0
         /\ Address(p) \div PageSize = p + 1
  <1>1. PageSize \in Nat /\ PageSize > 0
    BY ConstantFacts
  <1> DEFINE u == Address(p)
  <1>2. u \in Nat /\ u = (p + 1) * PageSize /\ u = p * PageSize + PageSize /\ p * PageSize \in Nat
    BY <1>1, SMT DEF Address
  <1>3. (p + 2) * PageSize = u + PageSize
    BY <1>1, SMT DEF Address
  <1> HIDE DEF u
  <1>4. p + 1 \in Nat /\ p + 2 \in Nat /\ u < (p + 2) * PageSize /\ (p + 1) * PageSize <= u
    BY <1>1, <1>2, <1>3, SMT
  <1>5. u \div PageSize \in p + 1 .. (p + 2) - 1
    BY <1>2, <1>4, DivFacts
  <1>6. u \div PageSize = p + 1
    BY <1>5, SMT
  <1>7. u = (u \div PageSize) * PageSize + (u % PageSize) /\ u % PageSize \in Nat
    BY <1>1, <1>2, SMT
  <1>8. u % PageSize = 0
    BY <1>1, <1>2, <1>6, <1>7, SMT
  <1>9. u > 0
    BY <1>1, <1>2, SMT
  <1> QED
    BY <1>2, <1>6, <1>8, <1>9 DEF u

\* Addresses grow with pages.
LEMMA AddressGrows ==
  ASSUME NEW p \in Nat, NEW q \in Nat, p <= q
  PROVE  Address(p) <= Address(q)
  <1>1. CASE p = q
    BY <1>1, AddressFacts, SMT
  <1>2. CASE p # q
    <2>1. p + 1 \in Nat /\ q + 1 \in Nat /\ p + 1 < q + 1
      BY <1>2, SMT
    <2>2. (p + 1) * PageSize + PageSize <= (q + 1) * PageSize
      BY <2>1, PageSteps
    <2>3. Address(p) \in Nat /\ Address(q) \in Nat /\ PageSize \in Nat
      BY AddressFacts, ConstantFacts
    <2>4. Address(p) + PageSize <= Address(q)
      BY <2>2 DEF Address
    <2> QED
      BY <2>3, <2>4, SMT
  <1> QED
    BY <1>1, <1>2

\* The length of an area.
LEMMA AreaLength ==
  ASSUME NEW p \in Nat, NEW n \in Nat
  PROVE  Address(p + n) = Address(p) + n * PageSize /\ n * PageSize \in Nat
  BY ConstantFacts, SMT DEF Address

\* An address in an area is in one of its pages.
LEMMA InSpan ==
  ASSUME NEW p \in Nat, NEW n \in Nat, NEW u \in Nat, Address(p) <= u, u < Address(p + n)
  PROVE  u \div PageSize - 1 \in Span(<<p, n>>)
  <1>1. p + 1 \in Nat /\ p + n + 1 \in Nat
    BY SMT
  <1>2. (p + 1) * PageSize <= u /\ u < (p + n + 1) * PageSize
    BY DEF Address
  <1>3. u \div PageSize \in p + 1 .. (p + n + 1) - 1
    BY <1>1, <1>2, DivFacts
  <1>4. u \div PageSize - 1 \in p .. p + n - 1
    BY <1>3, SMT
  <1> QED
    BY <1>4 DEF Span

\* Areas without a common page are one behind the other.
LEMMA SpansApart ==
  ASSUME NEW g \in Nat \X Nat, NEW h \in Nat \X Nat, g[2] > 0, h[2] > 0, Span(g) \cap Span(h) = {}
  PROVE  To(g) <= From(h) \/ To(h) <= From(g)
  <1>1. PICK p \in Nat, n \in Nat : p = g[1] /\ n = g[2] /\ n > 0
    OBVIOUS
  <1>2. PICK q \in Nat, m \in Nat : q = h[1] /\ m = h[2] /\ m > 0
    OBVIOUS
  <1>3. (p .. p + n - 1) \cap (q .. q + m - 1) = {}
    BY <1>1, <1>2 DEF Span
  <1>4. p + n <= q \/ q + m <= p
    <2>1. p \notin q .. q + m - 1 \/ p \notin p .. p + n - 1
      BY <1>3
    <2>2. q \notin q .. q + m - 1 \/ q \notin p .. p + n - 1
      BY <1>3
    <2> QED
      BY <1>1, <1>2, <2>1, <2>2, SMT
  <1>5. p + n \in Nat /\ q + m \in Nat
    BY <1>1, <1>2, SMT
  <1>6. Address(p + n) <= Address(q) \/ Address(q + m) <= Address(p)
    BY <1>4, <1>5, AddressGrows
  <1> QED
    BY <1>1, <1>2, <1>6 DEF From, To

\* liballoc_free gives back the pages of a whole area, from its real_size.
LEMMA PagesOfArea ==
  ASSUME NEW p \in Nat, NEW n \in Nat, n >= PageCount
  PROVE  PagesAt(Address(p), Max({PageCount, (n * PageSize + PageSize - 1) \div PageSize})) = Span(<<p, n>>)
  <1>1. PageSize \in Nat /\ PageSize > 0 /\ PageCount \in Nat /\ PageCount > 0
    BY ConstantFacts
  <1> DEFINE u == n * PageSize + PageSize - 1
  <1>2. n * PageSize \in Nat /\ (n + 1) * PageSize = n * PageSize + PageSize
    BY <1>1, SMT
  <1>3. u \in Nat /\ n * PageSize <= u /\ u < (n + 1) * PageSize /\ n + 1 \in Nat
    BY <1>1, <1>2, SMT
  <1>4. u \div PageSize \in n .. (n + 1) - 1
    BY <1>3, DivFacts
  <1> HIDE DEF u
  <1>5. u \div PageSize = n /\ n \in Int /\ PageCount \in Int
    BY <1>1, <1>4, SMT
  <1>6. Max({PageCount, n}) \in {PageCount, n} /\ Max({PageCount, n}) >= n
    BY <1>5, MaxFacts
  <1>7. Max({PageCount, n}) = n
    BY <1>1, <1>6, SMT
  <1>8. Max({PageCount, (n * PageSize + PageSize - 1) \div PageSize}) = n
    BY <1>5, <1>7 DEF u
  <1>9. Address(p) \div PageSize = p + 1
    BY AddressFacts
  <1>10. PagesAt(Address(p), n) = (p + 1) - 1 .. (p + 1) - 2 + n
    BY <1>9 DEF PagesAt
  <1>11. (p + 1) - 1 = p /\ (p + 1) - 2 + n = p + n - 1
    BY SMT
  <1>12. Span(<<p, n>>) = p .. p + n - 1
    BY DEF Span
  <1> QED
    BY <1>8, <1>10, <1>11, <1>12

\* A new area has room for its tag and the size asked for.
LEMMA AreaPagesFacts ==
  ASSUME NEW n \in Nat
  PROVE  /\ AreaPages(n) \in Nat /\ AreaPages(n) >= PageCount
         /\ HeaderSize + n <= AreaPages(n) * PageSize
  <1>1. PageSize \in Nat /\ PageSize > 0 /\ PageCount \in Nat /\ PageCount > 0 /\ HeaderSize \in Nat
    BY ConstantFacts
  <1>2. PICK u \in Nat : u = n + HeaderSize + PageSize - 1
    BY <1>1, SMT
  <1>3. PICK q \in Nat : q = u \div PageSize
    BY <1>1, SMT
  <1>4. u = q * PageSize + (u % PageSize) /\ u % PageSize \in 0 .. PageSize - 1 /\ q * PageSize \in Nat
    BY <1>1, <1>3, SMT
  <1>5. n + HeaderSize <= q * PageSize
    BY <1>1, <1>2, <1>4, SMT
  <1>6. AreaPages(n) = Max({PageCount, q})
    BY <1>2, <1>3 DEF AreaPages
  <1>7. PageCount \in Int /\ q \in Int
    BY <1>1, SMT
  <1>8. AreaPages(n) \in {PageCount, q} /\ AreaPages(n) >= PageCount /\ AreaPages(n) >= q
    BY <1>6, <1>7, MaxFacts
  <1>9. AreaPages(n) \in Nat
    BY <1>1, <1>8
  <1>10. q * PageSize <= AreaPages(n) * PageSize
    <2>1. PICK k \in Nat : k = AreaPages(n)
      BY <1>9
    <2>2. CASE k = q
      BY <1>4, <2>1, <2>2, SMT
    <2>3. CASE k # q
      <3>1. q * PageSize + PageSize <= k * PageSize /\ k * PageSize \in Nat
        BY <1>1, <1>8, <2>1, <2>3, PageSteps, SMT
      <3> QED
        BY <1>1, <1>4, <2>1, <3>1, SMT
    <2> QED
      BY <2>2, <2>3
  <1>11. AreaPages(n) * PageSize \in Nat
    BY <1>1, <1>9, SMT
  <1> QED
    BY <1>1, <1>4, <1>5, <1>8, <1>9, <1>10, <1>11, SMT

-----------------------------------------------------------------------------

\* The fields of a tag.
LEMMA TagFacts ==
  ASSUME NEW D \in SUBSET (Nat \ {0}), NEW T \in [D -> TagType]
  PROVE  \A a \in D :
           /\ a \in Nat /\ a # Null /\ T[a].size \in Nat /\ T[a].real \in Nat
           /\ T[a].index \in Exps \union {-1} /\ T[a].left \in Nat /\ T[a].right \in Nat
  <1> TAKE a \in D
  <1>1. T[a] \in TagType
    OBVIOUS
  <1>2. /\ T[a].size \in Nat /\ T[a].real \in Nat
        /\ T[a].index \in Exps \union {-1} /\ T[a].left \in Nat /\ T[a].right \in Nat
    BY <1>1 DEF TagType
  <1> QED
    BY <1>2 DEF Null

\* The fields of a boundary tag.
LEMMA TiledFacts ==
  ASSUME NEW T, NEW hp, Tiled(T, hp)
  PROVE  \A a \in DOMAIN T :
           /\ a \in Nat /\ a # Null /\ T[a].size \in Nat /\ T[a].real \in Nat /\ T[a].real > 0
           /\ T[a].index \in Exps \union {-1} /\ T[a].left \in Nat /\ T[a].right \in Nat
  <1>1. DOMAIN T \in SUBSET (Nat \ {0}) /\ T \in [DOMAIN T -> TagType] /\ \A a \in DOMAIN T : T[a].real > 0
    BY DEF Tiled, TagsOK
  <1> QED
    BY <1>1, TagFacts

\* More pages do not hurt.
LEMMA TiledGrows ==
  ASSUME NEW T, NEW hp, NEW hq, Tiled(T, hp), hp \subseteq hq
  PROVE  Tiled(T, hq)
  BY ZenonT(60) DEF Tiled, AreasOK

\* The pieces tile the areas whatever is stored in size and index.
LEMMA SameShapeTiled ==
  ASSUME NEW T, NEW U, NEW hp, Tiled(T, hp), SameShape(T, U)
  PROVE  Tiled(U, hp)
  <1>1. DOMAIN U = DOMAIN T /\ U \in [DOMAIN U -> TagType]
    BY DEF SameShape
  <1>2. \A a \in DOMAIN T : U[a].real = T[a].real /\ U[a].left = T[a].left /\ U[a].right = T[a].right
    BY DEF SameShape
  <1>3. TagsOK(U)
    BY <1>1, <1>2 DEF Tiled, TagsOK
  <1>4. LinksOK(U)
    <2>1. \A a \in DOMAIN T :
            /\ T[a].right # Null => T[a].right \in DOMAIN T /\ T[a].right = a + T[a].real /\ T[T[a].right].left = a
            /\ T[a].left # Null => T[a].left \in DOMAIN T /\ T[T[a].left].right = a
      BY DEF Tiled, LinksOK
    <2>2. \A a \in DOMAIN T :
            /\ U[a].right # Null => U[a].right \in DOMAIN T /\ U[a].right = a + U[a].real /\ U[U[a].right].left = a
            /\ U[a].left # Null => U[a].left \in DOMAIN T /\ U[U[a].left].right = a
      BY <1>2, <2>1, SMT
    <2> QED
      BY <1>1, <2>2 DEF LinksOK
  <1>5. Apart(U)
    BY <1>1, <1>2 DEF Tiled, Apart
  <1>6. PICK ar \in [DOMAIN T -> Nat \X Nat] : AreasOK(T, ar, hp)
    BY DEF Tiled
  <1>7. AreasOK(U, ar, hp)
    BY <1>1, <1>2, <1>6 DEF AreasOK
  <1> QED
    BY <1>1, <1>3, <1>4, <1>5, <1>6, <1>7 DEF Tiled

\* What the piece r behind l, and the one behind r, have to do with l.
LEMMA JoinFacts ==
  ASSUME NEW T, NEW hp, Tiled(T, hp), NEW l \in DOMAIN T, NEW r, r = T[l].right, r # Null
  PROVE  Behind(T, l, r)
  <1>1. /\ r \in DOMAIN T /\ r = l + T[l].real /\ T[r].left = l
        /\ T[r].right # Null =>
              /\ T[r].right \in DOMAIN T /\ T[r].right = r + T[r].real /\ T[T[r].right].left = r
        /\ T[l].left # Null => T[T[l].left].right = l
    BY DEF Tiled, LinksOK
  <1>2. /\ l \in Nat /\ r \in Nat /\ T[l].real \in Nat /\ T[r].real \in Nat /\ T[l].real > 0 /\ T[r].real > 0
        /\ l # Null /\ r # Null
    BY <1>1, TiledFacts
  <1>3. r # l
    BY <1>1, <1>2, SMT
  <1>4. T[r].right # l /\ T[r].right # r
    BY <1>1, <1>2, SMT
  <1>5. ASSUME T[l].left = r PROVE FALSE
    BY <1>1, <1>2, <1>4, <1>5
  <1>6. ASSUME T[l].left = l PROVE FALSE
    BY <1>1, <1>2, <1>3, <1>6
  <1> QED
    BY <1>1, <1>3, <1>4, <1>5, <1>6 DEF Behind

\* The pieces still tile the areas when one has gone into the piece in front of it, as melt_left and
\* absorb_right do.
LEMMA JoinTiled ==
  ASSUME NEW T, NEW U, NEW hp, Tiled(T, hp), NEW l \in DOMAIN T, NEW r, r = T[l].right, r # Null,
         Joined(T, U, l, r)
  PROVE  Tiled(U, hp)
  <1>1. /\ r \in DOMAIN T /\ r = l + T[l].real /\ T[r].left = l /\ r # l /\ T[r].right # l
        /\ T[r].right # r /\ T[l].left # r /\ T[l].left # l
        /\ T[r].right # Null =>
              /\ T[r].right \in DOMAIN T /\ T[r].right = r + T[r].real /\ T[T[r].right].left = r
    <2>1. Behind(T, l, r)
      BY JoinFacts
    <2> QED
      BY <2>1 DEF Behind
  <1>2. DOMAIN U = DOMAIN T \ {r} /\ U \in [DOMAIN U -> TagType]
    BY DEF Joined
  <1>3. /\ U[l].real = T[l].real + T[r].real /\ U[l].left = T[l].left /\ U[l].right = T[r].right
        /\ \A c \in DOMAIN T \ {l, r} :
             /\ U[c].real = T[c].real /\ U[c].right = T[c].right
             /\ U[c].left = IF c = T[r].right THEN l ELSE T[c].left
    BY DEF Joined
  <1>4. \A a \in DOMAIN T : /\ a \in Nat /\ a # Null /\ T[a].real \in Nat /\ T[a].real > 0
                            /\ T[a].left \in Nat /\ T[a].right \in Nat
    BY TiledFacts
  <1>5. \A a \in DOMAIN T :
          /\ T[a].right # Null => T[a].right \in DOMAIN T /\ T[a].right = a + T[a].real /\ T[T[a].right].left = a
          /\ T[a].left # Null => T[a].left \in DOMAIN T /\ T[T[a].left].right = a
    BY DEF Tiled, LinksOK
  <1>6. TagsOK(U)
    <2>1. DOMAIN T \subseteq Nat \ {0}
      BY DEF Tiled, TagsOK
    <2>3. U[l].real > 0
      BY <1>1, <1>3, <1>4, SMT
    <2>4. \A a \in DOMAIN U : U[a].real > 0
      BY <1>2, <1>3, <1>4, <2>3
    <2> QED
      BY <1>2, <2>1, <2>4 DEF TagsOK
  <1>7. LinksOK(U)
    <2> SUFFICES ASSUME NEW a \in DOMAIN U
                 PROVE  /\ U[a].right # Null =>
                             /\ U[a].right \in DOMAIN U /\ U[a].right = a + U[a].real /\ U[U[a].right].left = a
                        /\ U[a].left # Null => U[a].left \in DOMAIN U /\ U[U[a].left].right = a
      BY DEF LinksOK
    <2>0. a \in DOMAIN T /\ a # r
      BY <1>2
    <2>1. CASE a = l
      <3>1. ASSUME T[r].right # Null
            PROVE  /\ U[a].right \in DOMAIN U /\ U[a].right = a + U[a].real /\ U[U[a].right].left = a
        <4>1. T[r].right \in DOMAIN T \ {l, r}
          BY <1>1, <3>1
        <4>2. U[a].right \in DOMAIN U /\ U[U[a].right].left = a
          BY <1>2, <1>3, <2>1, <4>1
        <4>3. U[a].right = a + U[a].real
          BY <1>1, <1>3, <1>4, <2>1, <3>1, SMT
        <4> QED
          BY <4>2, <4>3
      <3>2. ASSUME T[l].left # Null PROVE U[a].left \in DOMAIN U /\ U[U[a].left].right = a
        <4>1. T[l].left \in DOMAIN T \ {l, r} /\ T[T[l].left].right = l
          BY <1>1, <1>5, <3>2
        <4> QED
          BY <1>2, <1>3, <2>1, <4>1
      <3> QED
        BY <1>3, <2>1, <3>1, <3>2
    <2>2. CASE a # l
      <3>0. /\ U[a].real = T[a].real /\ U[a].right = T[a].right
            /\ U[a].left = IF a = T[r].right THEN l ELSE T[a].left
        BY <1>3, <2>0, <2>2
      <3>1. ASSUME T[a].right # Null
            PROVE  /\ U[a].right \in DOMAIN U /\ U[a].right = a + U[a].real /\ U[U[a].right].left = a
        <4>1. T[a].right \in DOMAIN T /\ T[a].right = a + T[a].real /\ T[T[a].right].left = a
          BY <1>5, <2>0, <3>1
        <4>2. T[a].right # r
          BY <1>1, <2>2, <4>1
        <4>3. T[a].right # T[r].right
          BY <1>1, <2>0, <3>1, <4>1
        <4>4. U[T[a].right].left = a
          BY <1>3, <4>1, <4>2, <4>3
        <4> QED
          BY <1>2, <3>0, <4>1, <4>2, <4>4
      <3>2. ASSUME U[a].left # Null PROVE U[a].left \in DOMAIN U /\ U[U[a].left].right = a
        <4>1. CASE a = T[r].right
          BY <1>1, <1>2, <1>3, <3>0, <4>1
        <4>2. CASE a # T[r].right
          <5>1. T[a].left # Null /\ T[a].left \in DOMAIN T /\ T[T[a].left].right = a
            BY <1>5, <2>0, <3>0, <3>2, <4>2
          <5>2. T[a].left # r /\ T[a].left # l
            BY <2>0, <4>2, <5>1
          <5>3. U[a].left = T[a].left
            BY <3>0, <4>2
          <5>4. U[T[a].left].right = T[T[a].left].right
            BY <1>3, <5>1, <5>2
          <5> QED
            BY <1>2, <5>1, <5>2, <5>3, <5>4
        <4> QED
          BY <4>1, <4>2
      <3> QED
        BY <3>0, <3>1, <3>2
    <2> QED
      BY <2>1, <2>2
  <1>8. Apart(U)
    <2>1. \A a, b \in DOMAIN T : a < b => a + T[a].real <= b
      BY DEF Tiled, Apart
    <2> SUFFICES ASSUME NEW a \in DOMAIN U, NEW b \in DOMAIN U, a < b PROVE a + U[a].real <= b
      BY DEF Apart
    <2>2. a \in DOMAIN T /\ b \in DOMAIN T /\ a # r /\ b # r
      BY <1>2
    <2>3. CASE a = l
      <3>1. l + T[l].real <= b
        BY <2>1, <2>2, <2>3
      <3>2. r < b
        BY <1>1, <1>4, <2>2, <3>1, SMT
      <3>3. r + T[r].real <= b
        BY <1>1, <2>1, <2>2, <3>2
      <3> QED
        BY <1>1, <1>3, <1>4, <2>2, <2>3, <3>3, SMT
    <2>4. CASE a # l
      BY <1>3, <2>1, <2>2, <2>4
    <2> QED
      BY <2>3, <2>4
  <1>9. PICK ar \in [DOMAIN T -> Nat \X Nat] : AreasOK(T, ar, hp)
    BY DEF Tiled
  <1>10. PICK as \in [DOMAIN U -> Nat \X Nat] : \A b \in DOMAIN U : as[b] = ar[b]
    <2> DEFINE f == [b \in DOMAIN U |-> ar[b]]
    <2>1. f \in [DOMAIN U -> Nat \X Nat] /\ \A b \in DOMAIN U : f[b] = ar[b]
      BY <1>2
    <2> HIDE DEF f
    <2> QED
      BY <2>1
  <1>11. AreasOK(U, as, hp)
    <2>1. ASSUME NEW a \in DOMAIN U
          PROVE  /\ as[a][2] >= PageCount /\ Span(as[a]) \subseteq hp
                 /\ From(as[a]) <= a /\ a + U[a].real <= To(as[a])
                 /\ U[a].left = Null => a = From(as[a])
                 /\ U[a].right = Null => a + U[a].real = To(as[a])
                 /\ U[a].right # Null => as[U[a].right] = as[a]
      <3>0. a \in DOMAIN T /\ a # r /\ as[a] = ar[a]
        BY <1>2, <1>10
      <3>1. /\ ar[a][2] >= PageCount /\ Span(ar[a]) \subseteq hp
            /\ From(ar[a]) <= a /\ a + T[a].real <= To(ar[a])
            /\ T[a].left = Null => a = From(ar[a])
            /\ T[a].right = Null => a + T[a].real = To(ar[a])
            /\ T[a].right # Null => ar[T[a].right] = ar[a]
        BY <1>9, <3>0 DEF AreasOK
      <3>2. CASE a = l
        <4>1. /\ r + T[r].real <= To(ar[r]) /\ ar[r] = ar[l]
              /\ T[r].right = Null => r + T[r].real = To(ar[r])
              /\ T[r].right # Null => ar[T[r].right] = ar[r]
          BY <1>1, <1>9 DEF AreasOK
        <4>2. r + T[r].real = a + U[a].real
          BY <1>1, <1>3, <1>4, <3>2, SMT
        <4>3. U[a].right # Null => as[U[a].right] = ar[U[a].right]
          BY <1>1, <1>2, <1>3, <1>10, <3>2
        <4> QED
          BY <1>3, <3>0, <3>1, <3>2, <4>1, <4>2, <4>3, ZenonT(60)
      <3>3. CASE a # l
        <4>1. /\ U[a].real = T[a].real /\ U[a].right = T[a].right
              /\ U[a].left = IF a = T[r].right THEN l ELSE T[a].left
          BY <1>3, <3>0, <3>3
        <4>2. U[a].left = Null => T[a].left = Null
          BY <1>4, <4>1
        <4>3. U[a].right # Null => as[U[a].right] = ar[U[a].right]
          BY <1>7, <1>10 DEF LinksOK
        <4> QED
          BY <3>0, <3>1, <4>1, <4>2, <4>3
      <3> QED
        BY <3>2, <3>3
    <2>2. ASSUME NEW a \in DOMAIN U, NEW b \in DOMAIN U, as[a] # as[b]
          PROVE  Span(as[a]) \cap Span(as[b]) = {}
      BY <1>2, <1>9, <1>10, <2>2 DEF AreasOK
    <2> QED
      BY <2>1, <2>2 DEF AreasOK
  <1> QED
    BY <1>6, <1>7, <1>8, <1>10, <1>11 DEF Tiled

-----------------------------------------------------------------------------
\* The pieces still tile the areas when one has been cut in two, as split_tag does.
LEMMA CutTiled ==
  ASSUME NEW T, NEW U, NEW hp, Tiled(T, hp), NEW a \in DOMAIN T, NEW b, Cut(T, U, a, b)
  PROVE  Tiled(U, hp) /\ b \notin DOMAIN T
  <1>1. /\ b \in Nat /\ a < b /\ b < a + T[a].real
        /\ U \in [DOMAIN T \union {b} -> TagType]
    BY DEF Cut
  <1>2. DOMAIN U = DOMAIN T \union {b} /\ U \in [DOMAIN U -> TagType]
    BY <1>1
  <1>3. /\ U[a].real = b - a /\ U[a].left = T[a].left /\ U[a].right = b
        /\ U[b].real = a + T[a].real - b /\ U[b].left = a /\ U[b].right = T[a].right
        /\ \A c \in DOMAIN T \ {a} :
             /\ U[c].real = T[c].real /\ U[c].right = T[c].right
             /\ U[c].left = IF c = T[a].right THEN b ELSE T[c].left
    BY DEF Cut
  <1>4. \A x \in DOMAIN T : /\ x \in Nat /\ x # Null /\ T[x].real \in Nat /\ T[x].real > 0
                            /\ T[x].left \in Nat /\ T[x].right \in Nat
    BY TiledFacts
  <1>5. \A x \in DOMAIN T :
          /\ T[x].right # Null => T[x].right \in DOMAIN T /\ T[x].right = x + T[x].real /\ T[T[x].right].left = x
          /\ T[x].left # Null => T[x].left \in DOMAIN T /\ T[T[x].left].right = x
    BY DEF Tiled, LinksOK
  <1>6. \A x, y \in DOMAIN T : x < y => x + T[x].real <= y
    BY DEF Tiled, Apart
  <1>7. b \notin DOMAIN T
    BY <1>1, <1>4, <1>6, SMT
  <1>8. T[a].right # a /\ T[a].left # a /\ b # Null /\ b # a
    <2>1. b # Null /\ b # a
      BY <1>1, <1>4, SMT DEF Null
    <2>2. T[a].right # a
      BY <1>4, <1>5, SMT
    <2>3. ASSUME T[a].left = a PROVE FALSE
      BY <1>4, <1>5, <2>2, <2>3
    <2> QED
      BY <2>1, <2>2, <2>3
  <1>9. TagsOK(U)
    <2>1. DOMAIN T \subseteq Nat \ {0}
      BY DEF Tiled, TagsOK
    <2>3. U[a].real > 0 /\ U[b].real > 0
      BY <1>1, <1>3, <1>4, SMT
    <2>4. \A x \in DOMAIN U : U[x].real > 0
      BY <1>2, <1>3, <1>4, <2>3
    <2>5. DOMAIN U \subseteq Nat \ {0}
      BY <1>1, <1>2, <1>8, <2>1 DEF Null
    <2> QED
      BY <1>2, <2>4, <2>5 DEF TagsOK
  <1>10. LinksOK(U)
    <2> SUFFICES ASSUME NEW x \in DOMAIN U
                 PROVE  /\ U[x].right # Null =>
                             /\ U[x].right \in DOMAIN U /\ U[x].right = x + U[x].real /\ U[U[x].right].left = x
                        /\ U[x].left # Null => U[x].left \in DOMAIN U /\ U[U[x].left].right = x
      BY DEF LinksOK
    <2>1. CASE x = a
      <3>1. U[x].right \in DOMAIN U /\ U[U[x].right].left = x
        BY <1>2, <1>3, <2>1
      <3>2. U[x].right = x + U[x].real
        BY <1>1, <1>3, <1>4, <2>1, SMT
      <3>3. ASSUME T[a].left # Null PROVE U[x].left \in DOMAIN U /\ U[U[x].left].right = x
        <4>1. T[a].left \in DOMAIN T \ {a} /\ T[T[a].left].right = a
          BY <1>5, <1>8, <3>3
        <4> QED
          BY <1>2, <1>3, <2>1, <4>1
      <3> QED
        BY <1>3, <2>1, <3>1, <3>2, <3>3
    <2>2. CASE x = b
      <3>1. ASSUME T[a].right # Null
            PROVE  /\ U[x].right \in DOMAIN U /\ U[x].right = x + U[x].real /\ U[U[x].right].left = x
        <4>1. T[a].right \in DOMAIN T \ {a} /\ T[a].right = a + T[a].real
          BY <1>5, <1>8, <3>1
        <4>2. U[x].right \in DOMAIN U /\ U[U[x].right].left = x
          BY <1>2, <1>3, <2>2, <4>1
        <4>3. U[x].right = x + U[x].real
          BY <1>1, <1>3, <1>4, <2>2, <4>1, SMT
        <4> QED
          BY <4>2, <4>3
      <3>2. U[x].left \in DOMAIN U /\ U[U[x].left].right = x
        BY <1>2, <1>3, <2>2
      <3> QED
        BY <1>3, <2>2, <3>1, <3>2
    <2>3. CASE x # a /\ x # b
      <3>0. /\ x \in DOMAIN T \ {a} /\ U[x].real = T[x].real /\ U[x].right = T[x].right
            /\ U[x].left = IF x = T[a].right THEN b ELSE T[x].left
        BY <1>2, <1>3, <2>3
      <3>1. ASSUME T[x].right # Null
            PROVE  /\ U[x].right \in DOMAIN U /\ U[x].right = x + U[x].real /\ U[U[x].right].left = x
        <4>1. T[x].right \in DOMAIN T /\ T[x].right = x + T[x].real /\ T[T[x].right].left = x
          BY <1>5, <3>0, <3>1
        <4>2. U[T[x].right].left = x
          <5>1. CASE T[x].right = a
            BY <1>3, <4>1, <5>1
          <5>2. CASE T[x].right # a
            <6>1. T[x].right # T[a].right
              BY <1>5, <2>3, <3>1, <4>1
            <6> QED
              BY <1>3, <4>1, <5>2, <6>1
          <5> QED
            BY <5>1, <5>2
        <4> QED
          BY <1>2, <3>0, <4>1, <4>2
      <3>2. ASSUME U[x].left # Null PROVE U[x].left \in DOMAIN U /\ U[U[x].left].right = x
        <4>1. CASE x = T[a].right
          BY <1>2, <1>3, <3>0, <4>1
        <4>2. CASE x # T[a].right
          <5>1. T[x].left # Null /\ T[x].left \in DOMAIN T /\ T[T[x].left].right = x /\ U[x].left = T[x].left
            BY <1>5, <3>0, <3>2, <4>2
          <5>2. T[x].left # a
            BY <4>2, <5>1
          <5>3. U[T[x].left].right = T[T[x].left].right
            BY <1>3, <5>1, <5>2
          <5> QED
            BY <1>2, <5>1, <5>3
        <4> QED
          BY <4>1, <4>2
      <3> QED
        BY <3>0, <3>1, <3>2
    <2> QED
      BY <2>1, <2>2, <2>3
  <1>11. Apart(U)
    <2> SUFFICES ASSUME NEW x \in DOMAIN U, NEW y \in DOMAIN U, x < y PROVE x + U[x].real <= y
      BY DEF Apart
    <2>1. CASE x = a
      <3>1. CASE y = b
        BY <1>1, <1>3, <1>4, <2>1, <3>1, SMT
      <3>2. CASE y # b
        <4>1. y \in DOMAIN T
          BY <1>2, <3>2
        <4>2. a + T[a].real <= y
          BY <1>6, <2>1, <4>1
        <4> QED
          BY <1>1, <1>3, <1>4, <2>1, <4>1, <4>2, SMT
      <3> QED
        BY <3>1, <3>2
    <2>2. CASE x = b
      <3>1. y # b /\ y \in Nat
        BY <1>1, <1>2, <1>4, <2>2, SMT
      <3>2. y \in DOMAIN T
        BY <1>2, <3>1
      <3>3. a < y
        BY <1>1, <1>4, <2>2, <3>2, SMT
      <3>4. a + T[a].real <= y
        BY <1>6, <3>2, <3>3
      <3> QED
        BY <1>1, <1>3, <1>4, <2>2, <3>2, <3>4, SMT
    <2>3. CASE x # a /\ x # b
      <3>0. x \in DOMAIN T /\ U[x].real = T[x].real
        BY <1>2, <1>3, <2>3
      <3>1. CASE y = b
        <4>1. ~(a < x)
          BY <1>1, <1>4, <1>6, <3>0, <3>1, SMT
        <4>2. x < a
          BY <1>4, <2>3, <3>0, <4>1, SMT
        <4>3. x + T[x].real <= a
          BY <1>6, <3>0, <4>2
        <4> QED
          BY <1>1, <1>4, <3>0, <3>1, <4>3, SMT
      <3>2. CASE y # b
        BY <1>2, <1>6, <3>0, <3>2
      <3> QED
        BY <3>1, <3>2
    <2> QED
      BY <2>1, <2>2, <2>3
  <1>12. PICK ar \in [DOMAIN T -> Nat \X Nat] : AreasOK(T, ar, hp)
    BY DEF Tiled
  <1>13. PICK as \in [DOMAIN U -> Nat \X Nat] : as[b] = ar[a] /\ \A x \in DOMAIN T : as[x] = ar[x]
    <2> DEFINE f == [x \in DOMAIN U |-> IF x = b THEN ar[a] ELSE ar[x]]
    <2>1. f \in [DOMAIN U -> Nat \X Nat] /\ f[b] = ar[a] /\ \A x \in DOMAIN T : f[x] = ar[x]
      BY <1>2, <1>7
    <2> HIDE DEF f
    <2> QED
      BY <2>1
  <1>14. \A x \in DOMAIN T :
           /\ ar[x][2] >= PageCount /\ Span(ar[x]) \subseteq hp
           /\ From(ar[x]) <= x /\ x + T[x].real <= To(ar[x])
           /\ T[x].left = Null => x = From(ar[x])
           /\ T[x].right = Null => x + T[x].real = To(ar[x])
           /\ T[x].right # Null => ar[T[x].right] = ar[x]
    BY <1>12 DEF AreasOK
  <1>15. \A x \in DOMAIN T : From(ar[x]) \in Nat /\ To(ar[x]) \in Nat
    <2> TAKE x \in DOMAIN T
    <2>1. ar[x][1] \in Nat /\ ar[x][1] + ar[x][2] \in Nat
      BY <1>12, SMT
    <2> QED
      BY <2>1, AddressFacts DEF From, To
  <1>16. AreasOK(U, as, hp)
    <2>1. ASSUME NEW x \in DOMAIN U
          PROVE  /\ as[x][2] >= PageCount /\ Span(as[x]) \subseteq hp
                 /\ From(as[x]) <= x /\ x + U[x].real <= To(as[x])
                 /\ U[x].left = Null => x = From(as[x])
                 /\ U[x].right = Null => x + U[x].real = To(as[x])
                 /\ U[x].right # Null => as[U[x].right] = as[x]
      <3>1. CASE x = a
        <4>1. x + U[x].real <= To(as[x])
          <5>1. as[x] = ar[a] /\ a + T[a].real <= To(ar[a]) /\ To(ar[a]) \in Nat
            BY <1>13, <1>14, <1>15, <3>1
          <5>2. a + U[a].real = b
            BY <1>1, <1>3, <1>4, SMT
          <5>3. b <= To(ar[a])
            BY <1>1, <1>4, <5>1, SMT
          <5> QED
            BY <3>1, <5>1, <5>2, <5>3
        <4> QED
          BY <1>3, <1>8, <1>13, <1>14, <3>1, <4>1
      <3>2. CASE x = b
        <4>1. x + U[x].real = a + T[a].real
          BY <1>1, <1>3, <1>4, <3>2, SMT
        <4>2. From(as[x]) <= x
          BY <1>1, <1>4, <1>13, <1>14, <1>15, <3>2, SMT
        <4>3. T[a].right # Null => as[T[a].right] = ar[a]
          BY <1>5, <1>13, <1>14
        <4>4. a # Null
          BY <1>4
        <4> QED
          BY <1>3, <1>13, <1>14, <3>2, <4>1, <4>2, <4>3, <4>4, ZenonT(60)
      <3>3. CASE x # a /\ x # b
        <4>1. /\ x \in DOMAIN T /\ U[x].real = T[x].real /\ U[x].right = T[x].right
              /\ U[x].left = IF x = T[a].right THEN b ELSE T[x].left
          BY <1>2, <1>3, <3>3
        <4>2. U[x].left = Null => T[x].left = Null
          BY <1>8, <4>1
        <4>3. T[x].right # Null => as[T[x].right] = ar[T[x].right]
          BY <1>5, <1>13, <4>1
        <4> QED
          BY <1>13, <1>14, <4>1, <4>2, <4>3
      <3> QED
        BY <3>1, <3>2, <3>3
    <2>2. ASSUME NEW x \in DOMAIN U, NEW y \in DOMAIN U, as[x] # as[y]
          PROVE  Span(as[x]) \cap Span(as[y]) = {}
      <3>1. \E z \in DOMAIN T : as[x] = ar[z]
        BY <1>2, <1>13
      <3>2. \E z \in DOMAIN T : as[y] = ar[z]
        BY <1>2, <1>13
      <3> QED
        BY <1>12, <2>2, <3>1, <3>2 DEF AreasOK
    <2> QED
      BY <2>1, <2>2 DEF AreasOK
  <1> QED
    BY <1>7, <1>9, <1>10, <1>11, <1>13, <1>16 DEF Tiled

-----------------------------------------------------------------------------
\* An area that is new: allocate_new_tag.
LEMMA NewAreaTiled ==
  ASSUME NEW T, NEW U, NEW hp, Tiled(T, hp), NEW p \in Nat, NEW n \in Nat, n >= PageCount,
         Span(<<p, n>>) \cap hp = {}, NEW a, a = Address(p),
         U \in [DOMAIN T \union {a} -> TagType],
         U[a].real = n * PageSize, U[a].left = Null, U[a].right = Null,
         Agree(T, U, DOMAIN T \ {a})
  PROVE  Tiled(U, hp \union Span(<<p, n>>)) /\ a \notin DOMAIN T
  <1>0. \A c \in DOMAIN T \ {a} : U[c] = T[c]
    BY DEF Agree
  <1> USE <1>0
  <1>1. DOMAIN U = DOMAIN T \union {a} /\ U \in [DOMAIN U -> TagType]
    OBVIOUS
  <1>2. PICK g \in Nat \X Nat : g = <<p, n>> /\ g[1] = p /\ g[2] = n
    BY SMT
  <1>3. a \in Nat /\ a # Null /\ n * PageSize \in Nat /\ From(g) = a /\ To(g) = a + n * PageSize
    <2>1. a \in Nat /\ a > 0
      BY AddressFacts
    <2>2. Address(p + n) = Address(p) + n * PageSize /\ n * PageSize \in Nat
      BY AreaLength
    <2>3. a # Null
      BY <2>1, SMT DEF Null
    <2> QED
      BY <1>2, <2>1, <2>2, <2>3 DEF From, To
  <1>4. n > 0 /\ n * PageSize > 0
    <2>1. n > 0 /\ 0 \in Nat
      BY ConstantFacts, SMT
    <2>2. 0 * PageSize + PageSize <= n * PageSize
      BY <2>1, PageSteps
    <2>3. PageSize \in Nat /\ PageSize > 0
      BY ConstantFacts
    <2> QED
      BY <1>3, <2>1, <2>2, <2>3, SMT
  <1>5. PICK ar \in [DOMAIN T -> Nat \X Nat] : AreasOK(T, ar, hp)
    BY DEF Tiled
  <1>6. \A x \in DOMAIN T :
           /\ ar[x][2] >= PageCount /\ Span(ar[x]) \subseteq hp
           /\ From(ar[x]) <= x /\ x + T[x].real <= To(ar[x])
           /\ T[x].left = Null => x = From(ar[x])
           /\ T[x].right = Null => x + T[x].real = To(ar[x])
           /\ T[x].right # Null => ar[T[x].right] = ar[x]
    BY <1>5 DEF AreasOK
  <1>7. \A x \in DOMAIN T : x \in Nat /\ T[x].real \in Nat /\ T[x].real > 0
    BY TiledFacts
  <1>8. ASSUME NEW x \in DOMAIN T
        PROVE  x + T[x].real <= a \/ a + n * PageSize <= x
    <2>1. ar[x] \in Nat \X Nat /\ ar[x][2] > 0 /\ Span(ar[x]) \cap Span(g) = {}
      <3>1. ar[x] \in Nat \X Nat /\ ar[x][2] \in Nat
        BY <1>5
      <3>2. ar[x][2] > 0
        BY <1>6, <3>1, ConstantFacts, SMT
      <3> QED
        BY <1>2, <1>6, <3>1, <3>2
    <2>2. g[2] > 0
      BY <1>2, <1>4
    <2>3. To(ar[x]) <= From(g) \/ To(g) <= From(ar[x])
      BY <2>1, <2>2, SpansApart
    <2>4. From(ar[x]) \in Nat /\ To(ar[x]) \in Nat
      <3>1. ar[x][1] \in Nat /\ ar[x][1] + ar[x][2] \in Nat
        BY <2>1, SMT
      <3> QED
        BY <3>1, AddressFacts DEF From, To
    <2>5. From(ar[x]) <= x /\ x + T[x].real <= To(ar[x])
      BY <1>6
    <2> QED
      BY <1>3, <1>7, <2>3, <2>4, <2>5, SMT
  <1>9. a \notin DOMAIN T
    BY <1>3, <1>4, <1>7, <1>8, SMT
  <1>10. \A c \in DOMAIN T : U[c] = T[c]
    BY <1>9
  <1>11. TagsOK(U)
    <2>1. DOMAIN T \subseteq Nat \ {0}
      BY DEF Tiled, TagsOK
    <2>3. \A x \in DOMAIN U : U[x].real > 0
      BY <1>1, <1>4, <1>7, <1>10
    <2>4. DOMAIN U \subseteq Nat \ {0}
      BY <1>1, <1>3, <2>1 DEF Null
    <2> QED
      BY <1>1, <2>3, <2>4 DEF TagsOK
  <1>12. LinksOK(U)
    <2>1. \A x \in DOMAIN T :
          /\ T[x].right # Null => T[x].right \in DOMAIN T /\ T[x].right = x + T[x].real /\ T[T[x].right].left = x
          /\ T[x].left # Null => T[x].left \in DOMAIN T /\ T[T[x].left].right = x
      BY DEF Tiled, LinksOK
    <2>2. \A x \in DOMAIN U :
          /\ U[x].right # Null => U[x].right \in DOMAIN U /\ U[x].right = x + U[x].real /\ U[U[x].right].left = x
          /\ U[x].left # Null => U[x].left \in DOMAIN U /\ U[U[x].left].right = x
      <3> TAKE x \in DOMAIN U
      <3>1. CASE x = a
        BY <3>1
      <3>2. CASE x # a
        <4>1. x \in DOMAIN T /\ U[x] = T[x]
          BY <1>1, <1>10, <3>2
        <4>2. /\ T[x].right # Null => U[T[x].right] = T[T[x].right] /\ T[x].right \in DOMAIN U
              /\ T[x].left # Null => U[T[x].left] = T[T[x].left] /\ T[x].left \in DOMAIN U
          BY <1>1, <1>10, <2>1, <4>1
        <4>3. U[x].right = T[x].right /\ U[x].left = T[x].left /\ U[x].real = T[x].real
          BY <4>1
        <4>4. /\ T[x].right # Null => T[x].right = x + T[x].real /\ T[T[x].right].left = x
              /\ T[x].left # Null => T[T[x].left].right = x
          BY <2>1, <4>1
        <4> QED
          BY <4>2, <4>3, <4>4
      <3> QED
        BY <3>1, <3>2
    <2> QED
      BY <2>2 DEF LinksOK
  <1>13. Apart(U)
    <2>1. \A x, y \in DOMAIN T : x < y => x + T[x].real <= y
      BY DEF Tiled, Apart
    <2> SUFFICES ASSUME NEW x \in DOMAIN U, NEW y \in DOMAIN U, x < y PROVE x + U[x].real <= y
      BY DEF Apart
    <2>2. CASE x = a
      <3>1. y # a
        BY <1>3, <2>2, SMT
      <3>2. y \in DOMAIN T
        BY <1>1, <3>1
      <3>3. a + n * PageSize <= y
        BY <1>3, <1>7, <1>8, <2>2, <3>2, SMT
      <3> QED
        BY <2>2, <3>3
    <2>3. CASE x # a
      <3>1. x \in DOMAIN T /\ U[x] = T[x]
        BY <1>1, <1>10, <2>3
      <3>2. CASE y = a
        <4>1. x + T[x].real <= a
          BY <1>3, <1>4, <1>7, <1>8, <3>1, <3>2, SMT
        <4> QED
          BY <3>1, <3>2, <4>1
      <3>3. CASE y # a
        BY <1>1, <2>1, <3>1, <3>3
      <3> QED
        BY <3>2, <3>3
    <2> QED
      BY <2>2, <2>3
  <1>14. PICK as \in [DOMAIN U -> Nat \X Nat] : as[a] = g /\ \A x \in DOMAIN T : as[x] = ar[x]
    <2> DEFINE f == [x \in DOMAIN U |-> IF x = a THEN g ELSE ar[x]]
    <2>1. f \in [DOMAIN U -> Nat \X Nat] /\ f[a] = g /\ \A x \in DOMAIN T : f[x] = ar[x]
      BY <1>1, <1>9
    <2> HIDE DEF f
    <2> QED
      BY <2>1
  <1>15. AreasOK(U, as, hp \union Span(<<p, n>>))
    <2>1. ASSUME NEW x \in DOMAIN U
          PROVE  /\ as[x][2] >= PageCount /\ Span(as[x]) \subseteq hp \union Span(<<p, n>>)
                 /\ From(as[x]) <= x /\ x + U[x].real <= To(as[x])
                 /\ U[x].left = Null => x = From(as[x])
                 /\ U[x].right = Null => x + U[x].real = To(as[x])
                 /\ U[x].right # Null => as[U[x].right] = as[x]
      <3>1. CASE x = a
        <4>1. From(g) <= a /\ a + n * PageSize <= To(g)
          BY <1>3, SMT
        <4> QED
          BY <1>2, <1>3, <1>14, <3>1, <4>1
      <3>2. CASE x # a
        <4>1. x \in DOMAIN T /\ U[x] = T[x] /\ as[x] = ar[x]
          BY <1>1, <1>10, <1>14, <3>2
        <4>2. T[x].right # Null => as[T[x].right] = ar[T[x].right]
          BY <1>14, <4>1 DEF Tiled, LinksOK
        <4> QED
          BY <1>6, <4>1, <4>2
      <3> QED
        BY <3>1, <3>2
    <2>2. ASSUME NEW x \in DOMAIN U, NEW y \in DOMAIN U, as[x] # as[y]
          PROVE  Span(as[x]) \cap Span(as[y]) = {}
      <3>1. \A z \in DOMAIN T : Span(ar[z]) \cap Span(g) = {} /\ Span(g) \cap Span(ar[z]) = {}
        BY <1>2, <1>6
      <3>2. CASE x = a \/ y = a
        BY <1>1, <1>14, <2>2, <3>1, <3>2
      <3>3. CASE x # a /\ y # a
        BY <1>1, <1>5, <1>14, <2>2, <3>3 DEF AreasOK
      <3> QED
        BY <3>2, <3>3
    <2> QED
      BY <2>1, <2>2 DEF AreasOK
  <1> QED
    BY <1>9, <1>11, <1>12, <1>13, <1>14, <1>15 DEF Tiled

\* A whole area goes: liballoc_free.
LEMMA DropAreaTiled ==
  ASSUME NEW T, NEW U, NEW hp, Tiled(T, hp), NEW a \in DOMAIN T, T[a].left = Null, T[a].right = Null,
         DOMAIN U = DOMAIN T \ {a}, U \in [DOMAIN U -> TagType], Agree(T, U, DOMAIN T \ {a})
  PROVE  \E p \in Nat, n \in Nat : GivenBack(T, U, a, p, n, hp)
  <1>0. \A c \in DOMAIN T \ {a} : U[c] = T[c]
    BY DEF Agree
  <1> USE <1>0
  <1>1. PICK ar \in [DOMAIN T -> Nat \X Nat] : AreasOK(T, ar, hp)
    BY DEF Tiled
  <1>2. \A x \in DOMAIN T :
           /\ ar[x][2] >= PageCount /\ Span(ar[x]) \subseteq hp
           /\ From(ar[x]) <= x /\ x + T[x].real <= To(ar[x])
           /\ T[x].left = Null => x = From(ar[x])
           /\ T[x].right = Null => x + T[x].real = To(ar[x])
           /\ T[x].right # Null => ar[T[x].right] = ar[x]
    BY <1>1 DEF AreasOK
  <1>3. \A x \in DOMAIN T : x \in Nat /\ T[x].real \in Nat /\ T[x].real > 0
    BY TiledFacts
  <1>4. PICK p \in Nat, n \in Nat : ar[a] = <<p, n>> /\ ar[a][1] = p /\ ar[a][2] = n
    BY <1>1, SMT
  <1>5. a = Address(p) /\ a + T[a].real = Address(p + n) /\ n >= PageCount
    BY <1>2, <1>4 DEF From, To
  <1>6. T[a].real = n * PageSize
    <2>1. Address(p + n) = a + n * PageSize /\ n * PageSize \in Nat
      BY <1>5, AreaLength
    <2> QED
      BY <1>3, <1>5, <2>1, SMT
  <1>7. \A x, y \in DOMAIN T : x < y => x + T[x].real <= y
    BY DEF Tiled, Apart
  <1>8. \A x \in DOMAIN T : From(ar[x]) \in Nat /\ To(ar[x]) \in Nat
    <2> TAKE x \in DOMAIN T
    <2>1. ar[x][1] \in Nat /\ ar[x][1] + ar[x][2] \in Nat
      BY <1>1, SMT
    <2> QED
      BY <2>1, AddressFacts DEF From, To
  <1>9. ASSUME NEW x \in DOMAIN U PROVE ar[x] # ar[a]
    <2> SUFFICES ASSUME ar[x] = ar[a] PROVE FALSE
      OBVIOUS
    <2>1. x \in DOMAIN T /\ x # a
      OBVIOUS
    <2>2. From(ar[a]) <= x /\ x + T[x].real <= To(ar[a]) /\ a = From(ar[a]) /\ a + T[a].real = To(ar[a])
      BY <1>2, <2>1
    <2>3. a < x
      BY <1>3, <1>8, <2>1, <2>2, SMT
    <2>4. a + T[a].real <= x
      BY <1>7, <2>1, <2>3
    <2> QED
      BY <1>3, <1>8, <2>1, <2>2, <2>4, SMT
  <1>10. \A c \in DOMAIN U : c \in DOMAIN T /\ c # a /\ U[c] = T[c]
    OBVIOUS
  <1>11. TagsOK(U)
    <2>1. DOMAIN T \subseteq Nat \ {0}
      BY DEF Tiled, TagsOK
    <2> QED
      BY <1>3, <1>10, <2>1 DEF TagsOK
  <1>12. \A x \in DOMAIN U :
          /\ T[x].right # Null => T[x].right \in DOMAIN U
          /\ T[x].left # Null => T[x].left \in DOMAIN U
    <2>1. \A x \in DOMAIN T :
          /\ T[x].right # Null => T[x].right \in DOMAIN T /\ T[T[x].right].left = x
          /\ T[x].left # Null => T[x].left \in DOMAIN T /\ T[T[x].left].right = x
      BY DEF Tiled, LinksOK
    <2>2. \A x \in DOMAIN T : x # Null
      BY TiledFacts
    <2> TAKE x \in DOMAIN U
    <2>3. x \in DOMAIN T /\ x # Null
      BY <1>10, <2>2
    <2>4. T[x].right # Null => T[x].right \in DOMAIN T /\ T[x].right # a
      BY <2>1, <2>3
    <2>5. T[x].left # Null => T[x].left \in DOMAIN T /\ T[x].left # a
      BY <2>1, <2>3
    <2> QED
      BY <2>4, <2>5
  <1>13. LinksOK(U)
    <2>1. \A x \in DOMAIN T :
          /\ T[x].right # Null => T[x].right = x + T[x].real /\ T[T[x].right].left = x
          /\ T[x].left # Null => T[T[x].left].right = x
      BY DEF Tiled, LinksOK
    <2> SUFFICES ASSUME NEW x \in DOMAIN U
                 PROVE  /\ U[x].right # Null =>
                             /\ U[x].right \in DOMAIN U /\ U[x].right = x + U[x].real /\ U[U[x].right].left = x
                        /\ U[x].left # Null => U[x].left \in DOMAIN U /\ U[U[x].left].right = x
      BY DEF LinksOK
    <2>2. x \in DOMAIN T /\ U[x] = T[x]
      BY <1>10
    <2>3. /\ T[x].right # Null => U[T[x].right] = T[T[x].right]
          /\ T[x].left # Null => U[T[x].left] = T[T[x].left]
      BY <1>10, <1>12
    <2>4. U[x].right = T[x].right /\ U[x].left = T[x].left /\ U[x].real = T[x].real
      BY <2>2
    <2>5. /\ T[x].right # Null => T[x].right = x + T[x].real /\ T[T[x].right].left = x
          /\ T[x].left # Null => T[T[x].left].right = x
      BY <2>1, <2>2
    <2>6. /\ T[x].right # Null => T[x].right \in DOMAIN U
          /\ T[x].left # Null => T[x].left \in DOMAIN U
      BY <1>12
    <2> QED
      BY <2>3, <2>4, <2>5, <2>6
  <1>14. Apart(U)
    BY <1>7, <1>10 DEF Apart
  <1>15. PICK as \in [DOMAIN U -> Nat \X Nat] : \A x \in DOMAIN U : as[x] = ar[x]
    <2> DEFINE f == [x \in DOMAIN U |-> ar[x]]
    <2>1. f \in [DOMAIN U -> Nat \X Nat] /\ \A x \in DOMAIN U : f[x] = ar[x]
      BY <1>10
    <2> HIDE DEF f
    <2> QED
      BY <2>1
  <1>16. AreasOK(U, as, hp \ Span(<<p, n>>))
    <2>1. \A x, y \in DOMAIN T : ar[x] # ar[y] => Span(ar[x]) \cap Span(ar[y]) = {}
      BY <1>1 DEF AreasOK
    <2>2. \A x \in DOMAIN U : Span(ar[x]) \subseteq hp \ Span(<<p, n>>)
      BY <1>2, <1>4, <1>9, <1>10, <2>1
    <2>3. \A x \in DOMAIN U : U[x].right # Null => as[U[x].right] = ar[U[x].right]
      BY <1>10, <1>12, <1>15
    <2>4. ASSUME NEW x \in DOMAIN U
          PROVE  /\ as[x][2] >= PageCount
                 /\ From(as[x]) <= x /\ x + U[x].real <= To(as[x])
                 /\ U[x].left = Null => x = From(as[x])
                 /\ U[x].right = Null => x + U[x].real = To(as[x])
                 /\ U[x].right # Null => as[U[x].right] = as[x]
      <3>1. x \in DOMAIN T /\ U[x] = T[x] /\ as[x] = ar[x]
        BY <1>10, <1>15
      <3> QED
        BY <1>2, <2>3, <3>1
    <2>5. \A x, y \in DOMAIN U : as[x] # as[y] => Span(as[x]) \cap Span(as[y]) = {}
      BY <1>10, <1>15, <2>1
    <2>6. \A x \in DOMAIN U : Span(as[x]) \subseteq hp \ Span(<<p, n>>)
      BY <1>15, <2>2
    <2> QED
      BY <2>4, <2>5, <2>6 DEF AreasOK
  <1>17. Tiled(U, hp \ Span(<<p, n>>))
    BY <1>11, <1>13, <1>14, <1>15, <1>16 DEF Tiled
  <1>18. Span(<<p, n>>) \subseteq hp
    BY <1>2, <1>4
  <1> QED
    BY <1>5, <1>6, <1>17, <1>18 DEF GivenBack

\* Every address of a piece is in a page of the heap, and an area starts at a page.
LEMMA PiecesInPages ==
  ASSUME NEW T, NEW hp, Tiled(T, hp), NEW a \in DOMAIN T
  PROVE  /\ \A u \in a .. a + T[a].real - 1 : u \div PageSize - 1 \in hp
         /\ T[a].left = Null => a % PageSize = 0
  <1>1. PICK ar \in [DOMAIN T -> Nat \X Nat] : AreasOK(T, ar, hp)
    BY DEF Tiled
  <1>2. PICK p \in Nat, n \in Nat : ar[a] = <<p, n>> /\ ar[a][1] = p /\ ar[a][2] = n
    BY <1>1, SMT
  <1>3. /\ Span(<<p, n>>) \subseteq hp /\ Address(p) <= a /\ a + T[a].real <= Address(p + n)
        /\ T[a].left = Null => a = Address(p)
    BY <1>1, <1>2 DEF AreasOK, From, To
  <1>4. a \in Nat /\ T[a].real \in Nat /\ Address(p) \in Nat /\ Address(p + n) \in Nat
    BY TiledFacts, AddressFacts, SMT
  <1>5. ASSUME NEW u \in a .. a + T[a].real - 1 PROVE u \div PageSize - 1 \in hp
    <2>1. u \in Nat /\ Address(p) <= u /\ u < Address(p + n)
      BY <1>3, <1>4, SMT
    <2>2. u \div PageSize - 1 \in Span(<<p, n>>)
      BY <2>1, InSpan
    <2> QED
      BY <1>3, <2>2
  <1>6. Address(p) % PageSize = 0
    BY AddressFacts
  <1> QED
    BY <1>3, <1>5, <1>6

-----------------------------------------------------------------------------
\* remove_tag takes one tag out of a list.
LEMMA UnlinkFacts ==
  ASSUME NEW S, NEW q \in Seq(S), Once(q), NEW a, Holds(q, a)
  PROVE  Unlinked(q, a) \in Seq(S) /\ Less(q, Unlinked(q, a), a)
  <1>1. Len(q) \in Nat /\ DOMAIN q = 1 .. Len(q) /\ \A i \in 1 .. Len(q) : q[i] \in S
    BY LenFacts
  <1> DEFINE c == CHOOSE i \in DOMAIN q : q[i] = a
  <1>2. \E i \in DOMAIN q : q[i] = a
    BY <1>1 DEF Holds
  <1>3. c \in DOMAIN q /\ q[c] = a
    BY <1>2
  <1>4. Unlinked(q, a) = [i \in 1 .. Len(q) - 1 |-> IF i < c THEN q[i] ELSE q[i + 1]]
    BY DEF Unlinked
  <1> HIDE DEF c
  <1>5. c \in 1 .. Len(q) /\ Len(q) - 1 \in Nat
    BY <1>1, <1>3, SMT
  <1>6. PICK u : u = Unlinked(q, a)
    OBVIOUS
  <1>7. u \in [1 .. Len(q) - 1 -> S] /\ \A i \in 1 .. Len(q) - 1 : u[i] = IF i < c THEN q[i] ELSE q[i + 1]
    BY <1>1, <1>4, <1>5, <1>6, SMT
  <1>8. u \in Seq(S) /\ Len(u) = Len(q) - 1
    BY <1>5, <1>7, FunctionIsSeq
  <1>9. \A i, j \in 1 .. Len(q) : q[i] = q[j] => i = j
    BY DEF Once
  <1>10. Once(u)
    <2> SUFFICES ASSUME NEW i \in 1 .. Len(q) - 1, NEW j \in 1 .. Len(q) - 1, u[i] = u[j] PROVE i = j
      BY <1>8 DEF Once
    <2> QED
      BY <1>1, <1>5, <1>7, <1>9, SMT
  <1>11. ASSUME NEW x, Holds(u, x) PROVE Holds(q, x) /\ x # a
    <2>1. PICK i \in 1 .. Len(q) - 1 : u[i] = x
      BY <1>8, <1>11 DEF Holds
    <2>2. PICK j \in 1 .. Len(q) : j # c /\ q[j] = x
      BY <1>1, <1>5, <1>7, <2>1, SMT
    <2>3. x # a
      BY <1>3, <1>5, <1>9, <2>2
    <2> QED
      BY <2>2, <2>3 DEF Holds
  <1>12. ASSUME NEW x, Holds(q, x), x # a PROVE Holds(u, x)
    <2>1. PICK j \in 1 .. Len(q) : q[j] = x
      BY <1>12 DEF Holds
    <2>2. j # c
      BY <1>3, <1>12, <2>1
    <2>3. \E i \in 1 .. Len(q) - 1 : u[i] = x
      <3>1. CASE j < c
        <4>1. j \in 1 .. Len(q) - 1 /\ u[j] = x
          BY <1>1, <1>5, <1>7, <2>1, <3>1, SMT
        <4> QED
          BY <4>1
      <3>2. CASE ~(j < c)
        <4>1. j - 1 \in 1 .. Len(q) - 1 /\ ~(j - 1 < c) /\ (j - 1) + 1 = j
          BY <1>1, <1>5, <2>2, <3>2, SMT
        <4>2. u[j - 1] = x
          BY <1>7, <2>1, <4>1
        <4> QED
          BY <4>1, <4>2
      <3> QED
        BY <3>1, <3>2
    <2> QED
      BY <1>8, <2>3 DEF Holds
  <1>13. Less(q, u, a)
    BY <1>10, <1>11, <1>12 DEF Less
  <1> QED
    BY <1>6, <1>8, <1>13

\* insert_tag puts a tag in front.
LEMMA PushFacts ==
  ASSUME NEW S, NEW q \in Seq(S), Once(q), NEW a \in S, ~Holds(q, a)
  PROVE  <<a>> \o q \in Seq(S) /\ More(q, <<a>> \o q, a)
  <1>1. Len(q) \in Nat /\ \A i \in 1 .. Len(q) : q[i] \in S
    BY LenFacts
  <1>2. PICK u : u = <<a>> \o q
    OBVIOUS
  <1>3. u \in Seq(S) /\ Len(u) = Len(q) + 1 /\ u[1] = a
    BY <1>1, <1>2, SMT
  <1>4. \A i \in 2 .. Len(q) + 1 : u[i] = q[i - 1]
    BY <1>1, <1>2, SMT
  <1>5. \A i, j \in 1 .. Len(q) : q[i] = q[j] => i = j
    BY DEF Once
  <1>6. \A i \in 1 .. Len(q) : q[i] # a
    BY DEF Holds
  <1>7. Once(u)
    <2> SUFFICES ASSUME NEW i \in 1 .. Len(q) + 1, NEW j \in 1 .. Len(q) + 1, u[i] = u[j] PROVE i = j
      BY <1>3 DEF Once
    <2>1. \A k \in 2 .. Len(q) + 1 : k - 1 \in 1 .. Len(q) /\ u[k] = q[k - 1] /\ u[k] # a
      BY <1>1, <1>4, <1>6, SMT
    <2>2. CASE i = 1 \/ j = 1
      BY <1>1, <1>3, <2>1, <2>2, SMT
    <2>3. CASE i # 1 /\ j # 1
      <3>1. i - 1 \in 1 .. Len(q) /\ j - 1 \in 1 .. Len(q) /\ q[i - 1] = q[j - 1]
        BY <1>1, <2>1, <2>3, SMT
      <3>2. i - 1 = j - 1
        BY <1>5, <3>1
      <3> QED
        BY <1>1, <3>2, SMT
    <2> QED
      BY <2>2, <2>3
  <1>8. ASSUME NEW x, Holds(u, x), x # a PROVE Holds(q, x)
    <2>1. PICK i \in 1 .. Len(q) + 1 : u[i] = x
      BY <1>3, <1>8 DEF Holds
    <2>2. i - 1 \in 1 .. Len(q) /\ q[i - 1] = x
      BY <1>1, <1>3, <1>4, <1>8, <2>1, SMT
    <2> QED
      BY <2>2 DEF Holds
  <1>9. ASSUME NEW x, Holds(q, x) PROVE Holds(u, x)
    <2>1. PICK i \in 1 .. Len(q) : q[i] = x
      BY <1>9 DEF Holds
    <2>2. i + 1 \in 1 .. Len(q) + 1 /\ i + 1 \in 2 .. Len(q) + 1 /\ (i + 1) - 1 = i
      BY <1>1, SMT
    <2>3. u[i + 1] = x
      BY <1>4, <2>1, <2>2
    <2> QED
      BY <1>3, <2>2, <2>3 DEF Holds
  <1>10. Holds(u, a)
    <2>1. 1 \in 1 .. Len(q) + 1
      BY <1>1, SMT
    <2> QED
      BY <1>3, <2>1 DEF Holds
  <1>11. More(q, u, a)
    BY <1>7, <1>8, <1>9, <1>10 DEF More
  <1> QED
    BY <1>2, <1>3, <1>11

\* Changes that are not about a piece in a list.
LEMMA ListsSame ==
  ASSUME NEW T, NEW U, NEW F, Lists(T, F), SameListed(T, U, Null), Null \notin DOMAIN T \union DOMAIN U
  PROVE  Lists(U, F)
  <1>1. /\ F \in [Exps -> Seq(Nat)]
        /\ \A i \in Exps : Once(F[i]) /\ \A x \in Nat : Holds(F[i], x) <=> x \in DOMAIN T /\ T[x].index = i
        /\ \A a \in DOMAIN T : T[a].index # -1 => T[a].index = IndexOf(T[a].real)
    BY DEF Lists
  <1>2. \A c : c \in DOMAIN T /\ T[c].index # -1 =>
                 c \in DOMAIN U /\ U[c].index = T[c].index /\ U[c].real = T[c].real
    BY DEF SameListed, Listed
  <1>3. \A c : c \in DOMAIN U /\ U[c].index # -1 => c \in DOMAIN T /\ T[c].index # -1
    BY DEF SameListed, Listed
  <1>4. \A i \in Exps : i # -1
    BY ExpsFacts
  <1>5. ASSUME NEW i \in Exps, NEW x \in Nat PROVE Holds(F[i], x) <=> x \in DOMAIN U /\ U[x].index = i
    <2>1. x \in DOMAIN T /\ T[x].index = i <=> x \in DOMAIN U /\ U[x].index = i
      BY <1>2, <1>3, <1>4
    <2> QED
      BY <1>1, <2>1
  <1>6. ASSUME NEW a \in DOMAIN U, U[a].index # -1 PROVE U[a].index = IndexOf(U[a].real)
    <2>1. a \in DOMAIN T /\ T[a].index # -1
      BY <1>3, <1>6
    <2>2. U[a].index = T[a].index /\ U[a].real = T[a].real /\ T[a].index = IndexOf(T[a].real)
      BY <1>1, <1>2, <2>1
    <2> QED
      BY <2>2
  <1> QED
    BY <1>1, <1>5, <1>6 DEF Lists

\* The piece a leaves its list.
LEMMA ListsTake ==
  ASSUME NEW T, NEW U, NEW F, Lists(T, F), NEW a \in Nat, NEW i \in Exps, a \in DOMAIN T, T[a].index = i,
         SameListed(T, U, a), ~Listed(U, a)
  PROVE  Lists(U, [F EXCEPT ![i] = Unlinked(@, a)])
  <1>1. /\ F \in [Exps -> Seq(Nat)]
        /\ \A j \in Exps : Once(F[j]) /\ \A x \in Nat : Holds(F[j], x) <=> x \in DOMAIN T /\ T[x].index = j
        /\ \A c \in DOMAIN T : T[c].index # -1 => T[c].index = IndexOf(T[c].real)
    BY DEF Lists
  <1>2. \A c : c \in DOMAIN T /\ T[c].index # -1 /\ c # a =>
                 c \in DOMAIN U /\ U[c].index = T[c].index /\ U[c].real = T[c].real
    BY DEF SameListed, Listed
  <1>3. \A c : c \in DOMAIN U /\ U[c].index # -1 => c \in DOMAIN T /\ T[c].index # -1 /\ c # a
    BY DEF SameListed, Listed
  <1>4. \A j \in Exps : j # -1
    BY ExpsFacts
  <1>5. F[i] \in Seq(Nat) /\ Once(F[i]) /\ Holds(F[i], a)
    BY <1>1
  <1>6. PICK u : u = Unlinked(F[i], a)
    OBVIOUS
  <1>7. u \in Seq(Nat) /\ Once(u) /\ \A x : Holds(u, x) <=> Holds(F[i], x) /\ x # a
    <2>1. u \in Seq(Nat) /\ Less(F[i], u, a)
      BY <1>5, <1>6, UnlinkFacts
    <2> QED
      BY <2>1 DEF Less
  <1>8. PICK G : G = [F EXCEPT ![i] = Unlinked(@, a)]
    OBVIOUS
  <1>9. G \in [Exps -> Seq(Nat)] /\ G[i] = u /\ \A j \in Exps \ {i} : G[j] = F[j]
    BY <1>1, <1>6, <1>7, <1>8, SMT
  <1>10. ASSUME NEW x \in Nat PROVE Holds(G[i], x) <=> x \in DOMAIN U /\ U[x].index = i
    <2>1. (x \in DOMAIN T /\ T[x].index = i) /\ x # a <=> x \in DOMAIN U /\ U[x].index = i
      BY <1>2, <1>3, <1>4
    <2>2. Holds(G[i], x) <=> Holds(F[i], x) /\ x # a
      BY <1>7, <1>9
    <2>3. Holds(F[i], x) <=> x \in DOMAIN T /\ T[x].index = i
      BY <1>1
    <2> QED
      BY <2>1, <2>2, <2>3
  <1>11. ASSUME NEW j \in Exps \ {i}, NEW x \in Nat
         PROVE  Holds(G[j], x) <=> x \in DOMAIN U /\ U[x].index = j
    <2>1. x \in DOMAIN T /\ T[x].index = j <=> x \in DOMAIN U /\ U[x].index = j
      BY <1>2, <1>3, <1>4
    <2>2. Holds(F[j], x) <=> x \in DOMAIN T /\ T[x].index = j
      BY <1>1
    <2> QED
      BY <1>9, <2>1, <2>2
  <1>12. ASSUME NEW c \in DOMAIN U, U[c].index # -1 PROVE U[c].index = IndexOf(U[c].real)
    <2>1. c \in DOMAIN T /\ T[c].index # -1 /\ c # a
      BY <1>3, <1>12
    <2>2. U[c].index = T[c].index /\ U[c].real = T[c].real /\ T[c].index = IndexOf(T[c].real)
      BY <1>1, <1>2, <2>1
    <2> QED
      BY <2>2
  <1>13. \A j \in Exps : Once(G[j])
    BY <1>1, <1>7, <1>9
  <1>14. \A j \in Exps : \A x \in Nat : Holds(G[j], x) <=> x \in DOMAIN U /\ U[x].index = j
    BY <1>10, <1>11
  <1>15. Lists(U, G)
    BY <1>9, <1>12, <1>13, <1>14 DEF Lists
  <1> QED
    BY <1>8, <1>15

\* The piece a goes to the front of the list of its class.
LEMMA ListsPut ==
  ASSUME NEW T, NEW U, NEW F, Lists(T, F), NEW a \in Nat, NEW i \in Exps, a \in DOMAIN U, U[a].index = i,
         i = IndexOf(U[a].real), SameListed(T, U, a), ~Listed(T, a)
  PROVE  Lists(U, [F EXCEPT ![i] = <<a>> \o @])
  <1>1. /\ F \in [Exps -> Seq(Nat)]
        /\ \A j \in Exps : Once(F[j]) /\ \A x \in Nat : Holds(F[j], x) <=> x \in DOMAIN T /\ T[x].index = j
        /\ \A c \in DOMAIN T : T[c].index # -1 => T[c].index = IndexOf(T[c].real)
    BY DEF Lists
  <1>2. \A c : c \in DOMAIN T /\ T[c].index # -1 =>
                 c # a /\ c \in DOMAIN U /\ U[c].index = T[c].index /\ U[c].real = T[c].real
    BY DEF SameListed, Listed
  <1>3. \A c : c \in DOMAIN U /\ U[c].index # -1 /\ c # a => c \in DOMAIN T /\ T[c].index # -1
    BY DEF SameListed, Listed
  <1>4. \A j \in Exps : j # -1
    BY ExpsFacts
  <1>5. F[i] \in Seq(Nat) /\ Once(F[i]) /\ ~Holds(F[i], a)
    <2>1. ~(a \in DOMAIN T /\ T[a].index = i)
      BY <1>2, <1>4
    <2> QED
      BY <1>1, <2>1
  <1>6. PICK u : u = <<a>> \o F[i]
    OBVIOUS
  <1>7. u \in Seq(Nat) /\ Once(u) /\ \A x : Holds(u, x) <=> Holds(F[i], x) \/ x = a
    <2>1. u \in Seq(Nat) /\ More(F[i], u, a)
      BY <1>5, <1>6, PushFacts
    <2> QED
      BY <2>1 DEF More
  <1>8. PICK G : G = [F EXCEPT ![i] = <<a>> \o @]
    OBVIOUS
  <1>9. G \in [Exps -> Seq(Nat)] /\ G[i] = u /\ \A j \in Exps \ {i} : G[j] = F[j]
    BY <1>1, <1>6, <1>7, <1>8, SMT
  <1>10. ASSUME NEW x \in Nat PROVE Holds(G[i], x) <=> x \in DOMAIN U /\ U[x].index = i
    <2>1. (x \in DOMAIN T /\ T[x].index = i) \/ x = a <=> x \in DOMAIN U /\ U[x].index = i
      BY <1>2, <1>3, <1>4
    <2>2. Holds(G[i], x) <=> Holds(F[i], x) \/ x = a
      BY <1>7, <1>9
    <2>3. Holds(F[i], x) <=> x \in DOMAIN T /\ T[x].index = i
      BY <1>1
    <2> QED
      BY <2>1, <2>2, <2>3
  <1>11. ASSUME NEW j \in Exps \ {i}, NEW x \in Nat
         PROVE  Holds(G[j], x) <=> x \in DOMAIN U /\ U[x].index = j
    <2>1. x \in DOMAIN T /\ T[x].index = j <=> x \in DOMAIN U /\ U[x].index = j
      BY <1>2, <1>3, <1>4
    <2>2. Holds(F[j], x) <=> x \in DOMAIN T /\ T[x].index = j
      BY <1>1
    <2> QED
      BY <1>9, <2>1, <2>2
  <1>12. ASSUME NEW c \in DOMAIN U, U[c].index # -1 PROVE U[c].index = IndexOf(U[c].real)
    <2>1. CASE c = a
      BY <2>1
    <2>2. CASE c # a
      <3>1. c \in DOMAIN T /\ T[c].index # -1
        BY <1>3, <1>12, <2>2
      <3>2. U[c].index = T[c].index /\ U[c].real = T[c].real /\ T[c].index = IndexOf(T[c].real)
        BY <1>1, <1>2, <3>1
      <3> QED
        BY <3>2
    <2> QED
      BY <2>1, <2>2
  <1>13. \A j \in Exps : Once(G[j])
    BY <1>1, <1>7, <1>9
  <1>14. \A j \in Exps : \A x \in Nat : Holds(G[j], x) <=> x \in DOMAIN U /\ U[x].index = j
    BY <1>10, <1>11
  <1>15. Lists(U, G)
    BY <1>9, <1>12, <1>13, <1>14 DEF Lists
  <1> QED
    BY <1>8, <1>15

-----------------------------------------------------------------------------
\* A store to the index of a tag changes nothing else.
LEMMA IndexChange ==
  ASSUME NEW T, T \in [DOMAIN T -> TagType], NEW a \in DOMAIN T, NEW i \in Exps \union {-1}
  PROVE  Reindexed(T, [T EXCEPT ![a].index = i], a, i)
  <1>1. T[a] \in TagType
    OBVIOUS
  <1>2. [T[a] EXCEPT !.index = i] \in TagType
    BY <1>1 DEF TagType
  <1>3. PICK U : U = [T EXCEPT ![a].index = i]
    OBVIOUS
  <1>4. U \in [DOMAIN T -> TagType] /\ U[a] = [T[a] EXCEPT !.index = i] /\ \A c \in DOMAIN T \ {a} : U[c] = T[c]
    BY <1>2, <1>3
  <1>5. /\ U[a].index = i /\ U[a].size = T[a].size /\ U[a].real = T[a].real
        /\ U[a].left = T[a].left /\ U[a].right = T[a].right
    BY <1>1, <1>4 DEF TagType
  <1>6. Reindexed(T, U, a, i)
    BY <1>4, <1>5 DEF Reindexed
  <1> QED
    BY <1>3, <1>6

\* Such a store moves no piece.
LEMMA ReindexedShape ==
  ASSUME NEW T, NEW U, NEW a \in DOMAIN T, NEW i, Reindexed(T, U, a, i)
  PROVE  SameShape(T, U) /\ DOMAIN U = DOMAIN T /\ SameMarks(T, U, {a})
  <1>1. U \in [DOMAIN T -> TagType] /\ DOMAIN U = DOMAIN T
    BY DEF Reindexed
  <1>2. \A c \in DOMAIN T : /\ U[c].real = T[c].real /\ U[c].left = T[c].left
                            /\ U[c].right = T[c].right /\ U[c].size = T[c].size
    BY DEF Reindexed
  <1>3. \A c \in DOMAIN T \ {a} : U[c].index = T[c].index
    BY DEF Reindexed
  <1> QED
    BY <1>1, <1>2, <1>3 DEF SameShape, SameMarks

\* The store of a size.
LEMMA SizeChange ==
  ASSUME NEW T, T \in [DOMAIN T -> TagType], NEW a \in DOMAIN T, NEW n \in Nat
  PROVE  Resized(T, [T EXCEPT ![a].size = n], a, n)
  <1>1. T[a] \in TagType
    OBVIOUS
  <1>2. [T[a] EXCEPT !.size = n] \in TagType
    BY <1>1 DEF TagType
  <1>3. PICK U : U = [T EXCEPT ![a].size = n]
    OBVIOUS
  <1>4. U \in [DOMAIN T -> TagType] /\ U[a] = [T[a] EXCEPT !.size = n] /\ \A c \in DOMAIN T \ {a} : U[c] = T[c]
    BY <1>2, <1>3
  <1>5. /\ U[a].size = n /\ U[a].index = T[a].index /\ U[a].real = T[a].real
        /\ U[a].left = T[a].left /\ U[a].right = T[a].right
    BY <1>1, <1>4 DEF TagType
  <1>6. \A c \in DOMAIN T : /\ U[c].real = T[c].real /\ U[c].left = T[c].left
                            /\ U[c].right = T[c].right /\ U[c].index = T[c].index
    BY <1>4, <1>5
  <1>7. SameShape(T, U)
    BY <1>4, <1>6 DEF SameShape
  <1>8. \A c \in DOMAIN T \ {a} : U[c].size = T[c].size
    BY <1>4
  <1>9. Resized(T, U, a, n)
    BY <1>5, <1>6, <1>7, <1>8 DEF Resized
  <1> QED
    BY <1>3, <1>9

\* split_left of the piece behind.
LEMMA RelinkFacts ==
  ASSUME NEW T, T \in [DOMAIN T -> TagType], Null \notin DOMAIN T, NEW r, r = Null \/ r \in DOMAIN T, NEW a \in Nat
  PROVE  LeftStored(T, Relinked(T, r, a), r, a)
  <1>1. CASE r = Null
    <2>1. Relinked(T, r, a) = T /\ \A c \in DOMAIN T : c # r
      BY <1>1 DEF Relinked
    <2>2. LeftStored(T, T, r, a)
      BY <2>1 DEF LeftStored
    <2> QED
      BY <2>1, <2>2
  <1>2. CASE r # Null
    <2>1. T[r] \in TagType /\ r \in DOMAIN T
      BY <1>2
    <2>2. [T[r] EXCEPT !.left = a] \in TagType
      BY <2>1 DEF TagType
    <2>3. PICK W : W = [T EXCEPT ![r].left = a]
      OBVIOUS
    <2>4. Relinked(T, r, a) = W
      BY <1>2, <2>3 DEF Relinked
    <2>5. W \in [DOMAIN T -> TagType] /\ W[r] = [T[r] EXCEPT !.left = a] /\ \A c \in DOMAIN T \ {r} : W[c] = T[c]
      BY <2>1, <2>2, <2>3
    <2>6. /\ W[r].size = T[r].size /\ W[r].index = T[r].index /\ W[r].real = T[r].real
          /\ W[r].left = a /\ W[r].right = T[r].right
      BY <2>1, <2>5 DEF TagType
    <2>7. ASSUME NEW c \in DOMAIN T
          PROVE  /\ W[c].size = T[c].size /\ W[c].real = T[c].real /\ W[c].index = T[c].index
                 /\ W[c].right = T[c].right /\ W[c].left = IF c = r THEN a ELSE T[c].left
      <3>1. CASE c = r
        BY <2>6, <3>1
      <3>2. CASE c # r
        BY <2>5, <3>2
      <3> QED
        BY <3>1, <3>2
    <2>8. LeftStored(T, W, r, a)
      BY <2>5, <2>7 DEF LeftStored
    <2> QED
      BY <2>4, <2>8
  <1> QED
    BY <1>1, <1>2

\* The stores of melt_left.
LEMMA StretchFacts ==
  ASSUME NEW T, T \in [DOMAIN T -> TagType], NEW l \in DOMAIN T, NEW x \in Nat, NEW r \in Nat
  PROVE  Stretched(T, [T EXCEPT ![l].real = @ + x, ![l].right = r], l, T[l].real + x, r)
  <1>1. T[l] \in TagType
    OBVIOUS
  <1>2. PICK m \in Nat : m = T[l].real + x
    BY <1>1, SMT DEF TagType
  <1>3. PICK Q : Q = [T[l] EXCEPT !.real = m]
    OBVIOUS
  <1>4. PICK R : R = [Q EXCEPT !.right = r]
    OBVIOUS
  <1>5. Q \in TagType
    BY <1>1, <1>3 DEF TagType
  <1>6. R \in TagType
    BY <1>4, <1>5 DEF TagType
  <1>7. /\ R.real = m /\ R.right = r /\ R.size = T[l].size /\ R.index = T[l].index /\ R.left = T[l].left
    BY <1>1, <1>3, <1>4, <1>5 DEF TagType
  <1>8. PICK V : V = [T EXCEPT ![l].real = @ + x, ![l].right = r]
    OBVIOUS
  <1>9. V[l] = R
    BY <1>2, <1>3, <1>4, <1>8
  <1>10. \A c \in DOMAIN T \ {l} : V[c] = T[c]
    BY <1>8
  <1>11. PICK P : P = [T EXCEPT ![l].real = @ + x]
    OBVIOUS
  <1>12. V \in [DOMAIN T -> TagType]
    <2>1. P = [T EXCEPT ![l] = Q]
      BY <1>2, <1>3, <1>11
    <2>2. P \in [DOMAIN T -> TagType] /\ P[l] = Q
      BY <1>5, <2>1
    <2>3. V = [P EXCEPT ![l].right = r]
      BY <1>8, <1>11
    <2>4. V = [P EXCEPT ![l] = R]
      BY <1>1, <1>2, <1>3, <1>4, <2>2, <2>3 DEF TagType
    <2> QED
      BY <1>6, <2>2, <2>4
  <1>13. Stretched(T, V, l, m, r)
    BY <1>7, <1>9, <1>10, <1>12 DEF Stretched
  <1> QED
    BY <1>2, <1>8, <1>13

\* The stores of split_tag.
LEMMA ShrinkFacts ==
  ASSUME NEW T, T \in [DOMAIN T -> TagType], NEW l \in DOMAIN T, NEW x \in Nat, x <= T[l].real, NEW r \in Nat
  PROVE  Stretched(T, [T EXCEPT ![l].right = r, ![l].real = @ - x], l, T[l].real - x, r)
  <1>1. T[l] \in TagType
    OBVIOUS
  <1>2. PICK m \in Nat : m = T[l].real - x
    BY <1>1, SMT DEF TagType
  <1>3. PICK Q : Q = [T[l] EXCEPT !.right = r]
    OBVIOUS
  <1>4. PICK R : R = [Q EXCEPT !.real = m]
    OBVIOUS
  <1>5. Q \in TagType
    BY <1>1, <1>3 DEF TagType
  <1>6. R \in TagType
    BY <1>4, <1>5 DEF TagType
  <1>7. /\ R.real = m /\ R.right = r /\ R.size = T[l].size /\ R.index = T[l].index /\ R.left = T[l].left
    BY <1>1, <1>3, <1>4, <1>5 DEF TagType
  <1>8. PICK V : V = [T EXCEPT ![l].right = r, ![l].real = @ - x]
    OBVIOUS
  <1>9. V[l] = R
    BY <1>2, <1>3, <1>4, <1>8
  <1>10. \A c \in DOMAIN T \ {l} : V[c] = T[c]
    BY <1>8
  <1>11. PICK P : P = [T EXCEPT ![l].right = r]
    OBVIOUS
  <1>12. V \in [DOMAIN T -> TagType]
    <2>1. P = [T EXCEPT ![l] = Q]
      BY <1>2, <1>3, <1>11
    <2>2. P \in [DOMAIN T -> TagType] /\ P[l] = Q
      BY <1>5, <2>1
    <2>3. V = [P EXCEPT ![l].real = m]
      BY <1>1, <1>2, <1>8, <1>11 DEF TagType
    <2>4. V = [P EXCEPT ![l] = R]
      BY <1>1, <1>2, <1>3, <1>4, <2>2, <2>3 DEF TagType
    <2> QED
      BY <1>6, <2>2, <2>4
  <1>13. Stretched(T, V, l, m, r)
    BY <1>7, <1>9, <1>10, <1>12 DEF Stretched
  <1> QED
    BY <1>2, <1>8, <1>13

\* The piece behind l goes into it: melt_left, and the loop of free() to the right.
LEMMA MeltIsJoin ==
  ASSUME NEW T, NEW hp, Tiled(T, hp), NEW l \in DOMAIN T, NEW r, r = T[l].right, r # Null, NEW V, NEW W, NEW U,
         Stretched(T, V, l, T[l].real + T[r].real, T[r].right), LeftStored(V, W, T[r].right, l),
         Restricted(W, U, DOMAIN T \ {r})
  PROVE  Joined(T, U, l, r) /\ SameMarks(T, U, {r})
  <1>1. l # r /\ T[r].right # l
    <2>1. Behind(T, l, r)
      BY JoinFacts
    <2> QED
      BY <2>1 DEF Behind
  <1>2. DOMAIN V = DOMAIN T
    BY DEF Stretched
  <1>3. /\ V[l].real = T[l].real + T[r].real /\ V[l].right = T[r].right
        /\ V[l].size = T[l].size /\ V[l].index = T[l].index /\ V[l].left = T[l].left
        /\ \A c \in DOMAIN T \ {l} : V[c] = T[c]
    BY DEF Stretched
  <1>4. \A c \in DOMAIN T \ {r} :
          /\ U[c].size = V[c].size /\ U[c].real = V[c].real /\ U[c].index = V[c].index
          /\ U[c].right = V[c].right /\ U[c].left = IF c = T[r].right THEN l ELSE V[c].left
    <2> TAKE c \in DOMAIN T \ {r}
    <2>1. U[c] = W[c] /\ c \in DOMAIN V
      BY <1>2 DEF Restricted
    <2>2. /\ W[c].size = V[c].size /\ W[c].real = V[c].real /\ W[c].index = V[c].index
          /\ W[c].right = V[c].right /\ W[c].left = IF c = T[r].right THEN l ELSE V[c].left
      BY <2>1 DEF LeftStored
    <2> QED
      BY <2>1, <2>2
  <1>5. U[l].real = T[l].real + T[r].real /\ U[l].left = T[l].left /\ U[l].right = T[r].right
    <2>1. l \in DOMAIN T \ {r}
      BY <1>1
    <2> QED
      BY <1>1, <1>3, <1>4, <2>1
  <1>6. ASSUME NEW c \in DOMAIN T \ {l, r}
        PROVE  /\ U[c].real = T[c].real /\ U[c].right = T[c].right
               /\ U[c].left = IF c = T[r].right THEN l ELSE T[c].left
    <2>1. V[c] = T[c] /\ c \in DOMAIN T \ {r}
      BY <1>3
    <2>2. /\ U[c].real = V[c].real /\ U[c].right = V[c].right
          /\ U[c].left = IF c = T[r].right THEN l ELSE V[c].left
      BY <1>4, <2>1
    <2> QED
      BY <2>1, <2>2
  <1>7. ASSUME NEW c \in DOMAIN T \ {r} PROVE U[c].index = T[c].index /\ U[c].size = T[c].size
    <2>1. U[c].index = V[c].index /\ U[c].size = V[c].size
      BY <1>4
    <2>2. V[c].index = T[c].index /\ V[c].size = T[c].size
      BY <1>3
    <2> QED
      BY <2>1, <2>2
  <1>8. U \in [DOMAIN T \ {r} -> TagType]
    BY DEF Restricted
  <1>9. Joined(T, U, l, r)
    BY <1>5, <1>6, <1>8 DEF Joined
  <1> QED
    BY <1>7, <1>9 DEF SameMarks

\* split_tag cuts a piece behind its size.
LEMMA SplitIsCut ==
  ASSUME NEW T, NEW hp, Tiled(T, hp), NEW a \in DOMAIN T, NEW b \in Nat, a < b, b < a + T[a].real,
         NEW W, NEW V, NEW U, NEW new \in TagType,
         LeftStored(T, W, T[a].right, b), Stretched(W, V, a, b - a, b),
         U \in [DOMAIN T \union {b} -> TagType], U[b] = new, Agree(V, U, DOMAIN T),
         new.real = a + T[a].real - b, new.left = a, new.right = T[a].right
  PROVE  Cut(T, U, a, b) /\ SameMarks(T, U, {})
  <1>0. \A c \in DOMAIN T : U[c] = V[c]
    BY DEF Agree
  <1>1. T[a].right # a
    <2>1. T[a].right # Null => T[a].right = a + T[a].real
      BY DEF Tiled, LinksOK
    <2>2. T[a].real > 0 /\ a # Null /\ a \in Nat /\ T[a].real \in Nat
      BY TiledFacts
    <2> QED
      BY <2>1, <2>2, SMT
  <1>2. DOMAIN W = DOMAIN T
    BY DEF LeftStored
  <1>3. \A c \in DOMAIN T :
             /\ W[c].size = T[c].size /\ W[c].real = T[c].real /\ W[c].index = T[c].index
             /\ W[c].right = T[c].right /\ W[c].left = IF c = T[a].right THEN b ELSE T[c].left
    BY DEF LeftStored
  <1>4. /\ V[a].real = b - a /\ V[a].right = b /\ V[a].size = W[a].size /\ V[a].index = W[a].index
        /\ V[a].left = W[a].left
    BY DEF Stretched
  <1>5. \A c \in DOMAIN T \ {a} : V[c] = W[c]
    BY <1>2 DEF Stretched
  <1>6. U[a].real = b - a /\ U[a].left = T[a].left /\ U[a].right = b
    <2>1. U[a] = V[a] /\ W[a].left = T[a].left
      BY <1>0, <1>1, <1>3
    <2> QED
      BY <1>4, <2>1
  <1>7. U[b].real = a + T[a].real - b /\ U[b].left = a /\ U[b].right = T[a].right
    OBVIOUS
  <1>8. ASSUME NEW c \in DOMAIN T \ {a}
        PROVE  /\ U[c].real = T[c].real /\ U[c].right = T[c].right
               /\ U[c].left = IF c = T[a].right THEN b ELSE T[c].left
    <2>1. U[c] = W[c] /\ c \in DOMAIN T
      BY <1>0, <1>5
    <2>2. /\ W[c].real = T[c].real /\ W[c].right = T[c].right
          /\ W[c].left = IF c = T[a].right THEN b ELSE T[c].left
      BY <1>3, <2>1
    <2> QED
      BY <2>1, <2>2
  <1>9. ASSUME NEW c \in DOMAIN T PROVE U[c].index = T[c].index /\ U[c].size = T[c].size
    <2>1. W[c].index = T[c].index /\ W[c].size = T[c].size /\ U[c] = V[c]
      BY <1>0, <1>3
    <2>2. V[c].index = W[c].index /\ V[c].size = W[c].size
      BY <1>4, <1>5
    <2> QED
      BY <2>1, <2>2
  <1>10. Cut(T, U, a, b)
    BY <1>6, <1>7, <1>8 DEF Cut
  <1>11. SameMarks(T, U, {})
    BY <1>9 DEF SameMarks
  <1> QED
    BY <1>10, <1>11

\* remove_tag and insert_tag, field by field.
LEMMA RemoveTagFields ==
  ASSUME NEW H, NEW a
  PROVE  /\ RemoveTag(H, a).tags = [H.tags EXCEPT ![a].index = -1]
         /\ RemoveTag(H, a).free = [H.free EXCEPT ![H.tags[a].index] = Unlinked(@, a)]
  BY DEF RemoveTag

\* The tags and the lists behind insert_tag.
LEMMA InsertTagFields ==
  ASSUME NEW H, NEW a
  PROVE  /\ InsertTag(H, a).tags = [H.tags EXCEPT ![a].index = IndexOf(H.tags[a].real)]
         /\ InsertTag(H, a).free = [H.free EXCEPT ![IndexOf(H.tags[a].real)] = <<a>> \o @]
  BY DEF InsertTag

\* The two parts of a heap.
LEMMA HeapFields ==
  ASSUME NEW T, NEW F
  PROVE  [tags |-> T, free |-> F].tags = T /\ [tags |-> T, free |-> F].free = F
  OBVIOUS

\* A function with one argument less.
LEMMA RestrictFacts ==
  ASSUME NEW D, NEW S, NEW W, W \in [D -> S], NEW a, NEW U, U = [b \in D \ {a} |-> W[b]]
  PROVE  U \in [D \ {a} -> S] /\ \A c \in D \ {a} : U[c] = W[c]
  OBVIOUS

\* A function with one argument more.
LEMMA AddFacts ==
  ASSUME NEW D, NEW S, NEW V, V \in [D -> S], NEW b, b \notin D, NEW x \in S, NEW U,
         U = [c \in D \union {b} |-> IF c = b THEN x ELSE V[c]]
  PROVE  U \in [D \union {b} -> S] /\ U[b] = x /\ \A c \in D : U[c] = V[c]
  OBVIOUS

-----------------------------------------------------------------------------
\* No piece is at the null pointer.
LEMMA NullFacts ==
  ASSUME NEW T, NEW hp, Tiled(T, hp)
  PROVE  Null \notin DOMAIN T /\ Null \in Nat /\ T \in [DOMAIN T -> TagType] /\ DOMAIN T \subseteq Nat
  <1>1. Null \notin DOMAIN T
    BY TiledFacts
  <1>2. T \in [DOMAIN T -> TagType] /\ DOMAIN T \subseteq Nat \ {0}
    BY DEF Tiled, TagsOK
  <1> QED
    BY <1>1, <1>2 DEF Null

\* Two neighbours, of which x is free and leaves its list, become one piece in no list.
LEMMA JoinSound ==
  ASSUME NEW T, NEW F, NEW hp, Sound(T, F, hp), NEW l \in DOMAIN T, NEW r, r = T[l].right, r # Null,
         NEW x \in {l, r}, NEW y \in {l, r}, NEW i \in Exps, T[x].index = i, T[y].index = -1,
         NEW R, Melting(T, F, R, l, r, x, i)
  PROVE  MeltedOK(T, R, l, r, hp)
  <1>1. Tiled(T, hp) /\ Lists(T, F) /\ NoFreePair(T)
    BY DEF Sound
  <1>2. PICK U : U = R.tags
    OBVIOUS
  <1>3. Joined(T, U, l, r) /\ U[l].index = -1
    BY <1>2 DEF Melting
  <1>4. \A c \in DOMAIN T \ {l, r} : U[c].index = T[c].index /\ U[c].size = T[c].size
    BY <1>2 DEF Melting, SameMarks
  <1>5. Behind(T, l, r)
    BY <1>1, JoinFacts
  <1>6. r \in DOMAIN T /\ r # l /\ T[r].left = l
    BY <1>5 DEF Behind
  <1>7. DOMAIN U = DOMAIN T \ {r}
    BY <1>3 DEF Joined
  <1>8. \A c \in DOMAIN T \ {l, r} :
          /\ U[c].real = T[c].real /\ U[c].right = T[c].right
          /\ U[c].left = IF c = T[r].right THEN l ELSE T[c].left
    BY <1>3 DEF Joined
  <1>9. Tiled(U, hp)
    BY <1>1, <1>3, JoinTiled
  <1>10. i # -1 /\ x # y
    BY ExpsFacts
  <1>11. Lists(U, [F EXCEPT ![i] = Unlinked(@, x)])
    <2>1. x \in DOMAIN T /\ x \in Nat
      BY <1>1, <1>6, NullFacts
    <2>2. ~Listed(U, x)
      BY <1>3, <1>7 DEF Listed
    <2>3. ASSUME NEW c, Listed(T, c), c # x
          PROVE  c \in DOMAIN U /\ U[c].index = T[c].index /\ U[c].real = T[c].real
      <3>1. c \in DOMAIN T \ {l, r}
        BY <1>10, <2>3 DEF Listed
      <3> QED
        BY <1>4, <1>7, <1>8, <3>1
    <2>4. ASSUME NEW c, Listed(U, c), c # x PROVE Listed(T, c)
      <3>1. c \in DOMAIN T \ {l, r}
        BY <1>3, <1>7, <2>4 DEF Listed
      <3> QED
        BY <1>4, <2>4, <3>1 DEF Listed
    <2>5. SameListed(T, U, x)
      BY <2>3, <2>4 DEF SameListed
    <2> QED
      BY <1>1, <2>1, <2>2, <2>5, ListsTake
  <1>12. NoFreePair(U)
    <2> SUFFICES ASSUME NEW c \in DOMAIN U, U[c].index # -1, U[c].right # Null
                 PROVE  U[U[c].right].index = -1
      BY DEF NoFreePair
    <2>1. c \in DOMAIN T \ {l, r}
      BY <1>3, <1>7
    <2>2. U[c].right = T[c].right /\ T[c].index # -1 /\ T[c].right # Null
      BY <1>4, <1>8, <2>1
    <2>3. T[T[c].right].index = -1 /\ T[c].right \in DOMAIN T /\ T[T[c].right].left = c
      BY <1>1, <2>1, <2>2 DEF NoFreePair, Tiled, LinksOK
    <2>4. T[c].right # r
      BY <1>6, <2>1, <2>3
    <2>5. U[T[c].right].index = -1
      BY <1>3, <1>4, <2>3, <2>4
    <2> QED
      BY <2>2, <2>5
  <1>13. ASSUME NEW j \in Exps PROVE WholeFree(U, j) = WholeFree(T, j)
    <2>1. j # -1
      BY ExpsFacts
    <2>2. ASSUME NEW c \in WholeFree(U, j) PROVE c \in WholeFree(T, j)
      <3>1. c \in DOMAIN U /\ U[c].index = j /\ U[c].left = Null /\ U[c].right = Null
        BY <2>2 DEF WholeFree
      <3>2. c \in DOMAIN T \ {l, r}
        BY <1>3, <1>7, <2>1, <3>1
      <3>3. l # Null
        BY <1>1, TiledFacts
      <3>4. T[c].index = j /\ T[c].right = Null
        BY <1>4, <1>8, <3>1, <3>2
      <3>5. T[c].left = Null
        BY <1>8, <3>1, <3>2, <3>3
      <3> QED
        BY <3>2, <3>4, <3>5 DEF WholeFree
    <2>3. ASSUME NEW c \in WholeFree(T, j) PROVE c \in WholeFree(U, j)
      <3>1. c \in DOMAIN T /\ T[c].index = j /\ T[c].left = Null /\ T[c].right = Null
        BY <2>3 DEF WholeFree
      <3>2. l # Null
        BY <1>1, TiledFacts
      <3>3. c # l /\ c # r
        BY <1>6, <3>1, <3>2
      <3>4. c # T[r].right
        <4>1. T[r].right # Null => T[T[r].right].left = r
          BY <1>5 DEF Behind
        <4>2. c # Null
          BY <1>1, <3>1, NullFacts
        <4> QED
          BY <3>1, <3>2, <4>1, <4>2
      <3>5. c \in DOMAIN U /\ U[c].index = j /\ U[c].left = Null /\ U[c].right = Null
        BY <1>4, <1>7, <1>8, <3>1, <3>3, <3>4
      <3> QED
        BY <3>5 DEF WholeFree
    <2> QED
      BY <2>2, <2>3
  <1>14. Kept(T, U, {l, r})
    BY <1>4, <1>7, <1>8 DEF Kept
  <1>15. Sound(R.tags, R.free, hp)
    BY <1>2, <1>9, <1>11, <1>12 DEF Sound, Melting
  <1> QED
    BY <1>2, <1>3, <1>7, <1>13, <1>14, <1>15 DEF MeltedOK

\* The links of joined pieces do not depend on an index.
LEMMA JoinedShape ==
  ASSUME NEW T, NEW U, NEW X, NEW l \in DOMAIN T, NEW r, l # r, Joined(T, U, l, r), SameShape(U, X)
  PROVE  Joined(T, X, l, r)
  <1>1. DOMAIN U = DOMAIN T \ {r}
    BY DEF Joined
  <1>2. X \in [DOMAIN T \ {r} -> TagType]
    BY <1>1 DEF SameShape
  <1>3. \A c \in DOMAIN T \ {r} : X[c].real = U[c].real /\ X[c].left = U[c].left /\ X[c].right = U[c].right
    BY <1>1 DEF SameShape
  <1>4. U[l].real = T[l].real + T[r].real /\ U[l].left = T[l].left /\ U[l].right = T[r].right
    BY DEF Joined
  <1>5. X[l].real = T[l].real + T[r].real /\ X[l].left = T[l].left /\ X[l].right = T[r].right
    BY <1>3, <1>4
  <1>6. ASSUME NEW c \in DOMAIN T \ {l, r}
        PROVE  /\ X[c].real = T[c].real /\ X[c].right = T[c].right
               /\ X[c].left = IF c = T[r].right THEN l ELSE T[c].left
    <2>1. /\ U[c].real = T[c].real /\ U[c].right = T[c].right
          /\ U[c].left = IF c = T[r].right THEN l ELSE T[c].left
      BY DEF Joined
    <2>2. X[c].real = U[c].real /\ X[c].left = U[c].left /\ X[c].right = U[c].right
      BY <1>3
    <2> QED
      BY <2>1, <2>2
  <1> QED
    BY <1>2, <1>5, <1>6 DEF Joined

\* What a store to an index in front of a join does not disturb.
LEMMA ShapeJoined ==
  ASSUME NEW T, NEW X, NEW U, NEW l \in DOMAIN T, NEW r \in DOMAIN T, SameShape(T, X), DOMAIN X = DOMAIN T,
         Joined(X, U, l, r)
  PROVE  Joined(T, U, l, r)
  <1>1. \A c \in DOMAIN T : X[c].real = T[c].real /\ X[c].left = T[c].left /\ X[c].right = T[c].right
    BY DEF SameShape
  <1>2. U \in [DOMAIN T \ {r} -> TagType]
    BY DEF Joined
  <1>3. U[l].real = T[l].real + T[r].real /\ U[l].left = T[l].left /\ U[l].right = T[r].right
    <2>1. U[l].real = X[l].real + X[r].real /\ U[l].left = X[l].left /\ U[l].right = X[r].right
      BY DEF Joined
    <2> QED
      BY <1>1, <2>1
  <1>4. ASSUME NEW c \in DOMAIN T \ {l, r}
        PROVE  /\ U[c].real = T[c].real /\ U[c].right = T[c].right
               /\ U[c].left = IF c = T[r].right THEN l ELSE T[c].left
    <2>1. /\ U[c].real = X[c].real /\ U[c].right = X[c].right
          /\ U[c].left = IF c = X[r].right THEN l ELSE X[c].left
      BY DEF Joined
    <2>2. X[c].real = T[c].real /\ X[c].left = T[c].left /\ X[c].right = T[c].right /\ X[r].right = T[r].right
      BY <1>1
    <2> QED
      BY <2>1, <2>2
  <1> QED
    BY <1>2, <1>3, <1>4 DEF Joined

\* A piece goes into the one in front of it.
LEMMA MergeFacts ==
  ASSUME NEW T, NEW hp, Tiled(T, hp), NEW l \in DOMAIN T, NEW r, r = T[l].right, r # Null
  PROVE  Joined(T, Merged(T, l, r), l, r) /\ SameMarks(T, Merged(T, l, r), {r})
  <1>1. Behind(T, l, r)
    BY JoinFacts
  <1>2. r \in DOMAIN T /\ (T[r].right = Null \/ T[r].right \in DOMAIN T)
    BY <1>1 DEF Behind
  <1>3. Null \notin DOMAIN T /\ T \in [DOMAIN T -> TagType]
    BY NullFacts
  <1>4. T[r].real \in Nat /\ T[r].right \in Nat /\ l \in Nat
    BY <1>2, TiledFacts
  <1>5. PICK V : V = [T EXCEPT ![l].real = @ + T[r].real, ![l].right = T[r].right]
    OBVIOUS
  <1>6. Stretched(T, V, l, T[l].real + T[r].real, T[r].right)
    BY <1>3, <1>4, <1>5, StretchFacts
  <1>7. DOMAIN V = DOMAIN T /\ V \in [DOMAIN V -> TagType]
    BY <1>6 DEF Stretched
  <1>8. PICK W : W = Relinked(V, T[r].right, l)
    OBVIOUS
  <1>9. LeftStored(V, W, T[r].right, l)
    BY <1>2, <1>3, <1>4, <1>7, <1>8, RelinkFacts
  <1>10. PICK U : U = [b \in DOMAIN T \ {r} |-> W[b]]
    OBVIOUS
  <1>11. Merged(T, l, r) = U
    BY <1>5, <1>8, <1>10 DEF Merged
  <1>12. W \in [DOMAIN T -> TagType]
    BY <1>7, <1>9 DEF LeftStored
  <1>13. U \in [DOMAIN T \ {r} -> TagType] /\ \A c \in DOMAIN T \ {r} : U[c] = W[c]
    BY <1>10, <1>12, RestrictFacts
  <1>14. Restricted(W, U, DOMAIN T \ {r})
    BY <1>13 DEF Restricted
  <1> QED
    BY <1>6, <1>9, <1>11, <1>14, MeltIsJoin

\* free() melts a free piece on the left.
LEMMA MeltLeftSound ==
  ASSUME NEW T, NEW F, NEW hp, Sound(T, F, hp), NEW a \in DOMAIN T, T[a].index = -1,
         NEW l, l = T[a].left, l # Null, T[l].index # -1
  PROVE  MeltedOK(T, MeltLeft([tags |-> T, free |-> F], a), l, a, hp)
  <1>1. Tiled(T, hp)
    BY DEF Sound
  <1>2. l \in DOMAIN T /\ T[l].right = a /\ a # Null
    <2>1. l \in DOMAIN T /\ T[l].right = a
      BY <1>1 DEF Tiled, LinksOK
    <2> QED
      BY <1>1, <2>1, TiledFacts
  <1>3. l # a
    <2>1. Behind(T, l, a)
      BY <1>1, <1>2, JoinFacts
    <2> QED
      BY <2>1 DEF Behind
  <1>4. PICK U : U = Merged(T, l, a)
    OBVIOUS
  <1>5. Joined(T, U, l, a) /\ SameMarks(T, U, {a})
    BY <1>1, <1>2, <1>4, MergeFacts
  <1>6. DOMAIN U = DOMAIN T \ {a} /\ U \in [DOMAIN U -> TagType] /\ l \in DOMAIN U
    BY <1>2, <1>3, <1>5 DEF Joined
  <1>7. PICK i \in Exps : i = T[l].index
    BY <1>1, <1>2, TiledFacts
  <1>8. U[l].index = i
    BY <1>2, <1>3, <1>5, <1>7 DEF SameMarks
  <1>9. PICK R : R = MeltLeft([tags |-> T, free |-> F], a)
    OBVIOUS
  <1>10. R.tags = [U EXCEPT ![l].index = -1] /\ R.free = [F EXCEPT ![i] = Unlinked(@, l)]
    <2>1. PICK H : H = [tags |-> T, free |-> F]
      OBVIOUS
    <2>2. H.tags = T /\ H.free = F /\ R = MeltLeft(H, a)
      BY <1>9, <2>1, HeapFields
    <2>3. PICK G : G = [tags |-> U, free |-> F]
      OBVIOUS
    <2>4. G.tags = U /\ G.free = F
      BY <2>3, HeapFields
    <2>5. R = RemoveTag(G, l)
      BY <1>4, <2>2, <2>3 DEF MeltLeft
    <2>6. /\ R.tags = [G.tags EXCEPT ![l].index = -1]
          /\ R.free = [G.free EXCEPT ![G.tags[l].index] = Unlinked(@, l)]
      BY <2>5, RemoveTagFields, ZenonT(60)
    <2> QED
      BY <1>8, <2>4, <2>6
  <1>11. PICK X : X = R.tags
    OBVIOUS
  <1>12. Reindexed(U, X, l, -1)
    <2>1. -1 \in Exps \union {-1}
      OBVIOUS
    <2>2. Reindexed(U, [U EXCEPT ![l].index = -1], l, -1)
      BY <1>6, <2>1, IndexChange
    <2> QED
      BY <1>10, <1>11, <2>2
  <1>13. SameShape(U, X) /\ SameMarks(U, X, {l})
    BY <1>6, <1>12, ReindexedShape
  <1>14. Joined(T, X, l, a)
    BY <1>2, <1>3, <1>5, <1>13, JoinedShape
  <1>15. X[l].index = -1
    BY <1>12 DEF Reindexed
  <1>16. SameMarks(T, X, {l, a})
    <2> SUFFICES ASSUME NEW c \in DOMAIN T \ {l, a} PROVE X[c].index = T[c].index /\ X[c].size = T[c].size
      BY DEF SameMarks
    <2>1. c \in DOMAIN U \ {l} /\ c \in DOMAIN T \ {a}
      BY <1>6
    <2>2. X[c].index = U[c].index /\ X[c].size = U[c].size /\ U[c].index = T[c].index /\ U[c].size = T[c].size
      BY <1>5, <1>13, <2>1 DEF SameMarks
    <2> QED
      BY <2>2
  <1>17. Melting(T, F, R, l, a, l, i)
    BY <1>10, <1>11, <1>14, <1>15, <1>16 DEF Melting
  <1>18. l \in {l, a} /\ a \in {l, a} /\ T[l].index = i
    BY <1>7
  <1>19. MeltedOK(T, R, l, a, hp)
    BY <1>2, <1>17, <1>18, JoinSound
  <1> QED
    BY <1>9, <1>19

\* free() absorbs a free piece on the right.
LEMMA AbsorbRightSound ==
  ASSUME NEW T, NEW F, NEW hp, Sound(T, F, hp), NEW a \in DOMAIN T, T[a].index = -1,
         NEW r, r = T[a].right, r # Null, T[r].index # -1
  PROVE  MeltedOK(T, AbsorbRight([tags |-> T, free |-> F], a), a, r, hp)
  <1>1. Tiled(T, hp)
    BY DEF Sound
  <1>2. r \in DOMAIN T /\ r # a
    <2>1. Behind(T, a, r)
      BY <1>1, JoinFacts
    <2> QED
      BY <2>1 DEF Behind
  <1>3. PICK i \in Exps : i = T[r].index
    BY <1>1, <1>2, TiledFacts
  <1>4. PICK X : X = [T EXCEPT ![r].index = -1]
    OBVIOUS
  <1>5. Reindexed(T, X, r, -1)
    <2>1. -1 \in Exps \union {-1} /\ T \in [DOMAIN T -> TagType]
      BY <1>1, NullFacts
    <2> QED
      BY <1>2, <1>4, <2>1, IndexChange
  <1>6. SameShape(T, X) /\ DOMAIN X = DOMAIN T /\ SameMarks(T, X, {r})
    BY <1>2, <1>5, ReindexedShape
  <1>7. Tiled(X, hp)
    BY <1>1, <1>6, SameShapeTiled
  <1>8. X[a].right = r
    BY <1>6 DEF SameShape
  <1>9. PICK U : U = Merged(X, a, r)
    OBVIOUS
  <1>10. Joined(X, U, a, r) /\ SameMarks(X, U, {r})
    BY <1>6, <1>7, <1>8, <1>9, MergeFacts
  <1>11. Joined(T, U, a, r)
    BY <1>2, <1>6, <1>10, ShapeJoined
  <1>12. SameMarks(T, U, {r})
    <2> SUFFICES ASSUME NEW c \in DOMAIN T \ {r} PROVE U[c].index = T[c].index /\ U[c].size = T[c].size
      BY DEF SameMarks
    <2>1. c \in DOMAIN X \ {r}
      BY <1>6
    <2>2. U[c].index = X[c].index /\ U[c].size = X[c].size /\ X[c].index = T[c].index /\ X[c].size = T[c].size
      BY <1>6, <1>10, <2>1 DEF SameMarks
    <2> QED
      BY <2>2
  <1>13. PICK R : R = AbsorbRight([tags |-> T, free |-> F], a)
    OBVIOUS
  <1>14. R.tags = U /\ R.free = [F EXCEPT ![i] = Unlinked(@, r)]
    <2>1. PICK H : H = [tags |-> T, free |-> F]
      OBVIOUS
    <2>2. H.tags = T /\ H.free = F /\ R = AbsorbRight(H, a)
      BY <1>13, <2>1, HeapFields
    <2>3. PICK G : G = RemoveTag(H, r)
      OBVIOUS
    <2>4. G.tags = X /\ G.free = [F EXCEPT ![i] = Unlinked(@, r)]
      <3>1. /\ G.tags = [H.tags EXCEPT ![r].index = -1]
            /\ G.free = [H.free EXCEPT ![H.tags[r].index] = Unlinked(@, r)]
        BY <2>3, RemoveTagFields, ZenonT(60)
      <3> QED
        BY <1>3, <1>4, <2>2, <3>1
    <2>5. R = [tags |-> Merged(G.tags, a, r), free |-> G.free]
      BY <2>2, <2>3 DEF AbsorbRight
    <2>6. R.tags = Merged(G.tags, a, r) /\ R.free = G.free
      BY <2>5, HeapFields
    <2> QED
      BY <1>9, <2>4, <2>6
  <1>15. SameMarks(T, U, {a, r}) /\ U[a].index = -1
    BY <1>2, <1>12 DEF SameMarks
  <1>16. Melting(T, F, R, a, r, r, i)
    BY <1>11, <1>14, <1>15 DEF Melting
  <1>17. r \in {a, r} /\ a \in {a, r} /\ T[r].index = i
    BY <1>3
  <1>18. MeltedOK(T, R, a, r, hp)
    BY <1>16, <1>17, JoinSound
  <1> QED
    BY <1>13, <1>18

\* Where only sizes change, the heap stays sound.
LEMMA SameIndexSound ==
  ASSUME NEW T, NEW X, NEW F, NEW hp, Sound(T, F, hp), SameShape(T, X),
         \A c \in DOMAIN T : X[c].index = T[c].index
  PROVE  Sound(X, F, hp) /\ \A i \in Exps : WholeFree(X, i) = WholeFree(T, i)
  <1>1. Tiled(T, hp) /\ Lists(T, F) /\ NoFreePair(T)
    BY DEF Sound
  <1>2. Tiled(X, hp)
    BY <1>1, SameShapeTiled
  <1>3. DOMAIN X = DOMAIN T
    BY DEF SameShape
  <1>4. \A c \in DOMAIN T : X[c].real = T[c].real /\ X[c].left = T[c].left /\ X[c].right = T[c].right
    BY DEF SameShape
  <1>5. Lists(X, F)
    <2>1. SameListed(T, X, Null)
      BY <1>3, <1>4 DEF SameListed, Listed
    <2>2. Null \notin DOMAIN T \union DOMAIN X
      BY <1>1, <1>3, NullFacts
    <2> QED
      BY <1>1, <2>1, <2>2, ListsSame
  <1>6. NoFreePair(X)
    <2> SUFFICES ASSUME NEW c \in DOMAIN T, T[c].index # -1, T[c].right # Null PROVE X[T[c].right].index = -1
      BY <1>3, <1>4 DEF NoFreePair
    <2>1. T[T[c].right].index = -1 /\ T[c].right \in DOMAIN T
      BY <1>1 DEF NoFreePair, Tiled, LinksOK
    <2> QED
      BY <2>1
  <1>7. ASSUME NEW i \in Exps PROVE WholeFree(X, i) = WholeFree(T, i)
    BY <1>3, <1>4 DEF WholeFree
  <1> QED
    BY <1>2, <1>5, <1>6, <1>7 DEF Sound

\* The tail of a piece is cut off.
LEMMA HalveFacts ==
  ASSUME NEW T, NEW hp, Tiled(T, hp), NEW a \in DOMAIN T, NEW b \in Nat, a < b, b < a + T[a].real,
         NEW x \in Nat, x = a + T[a].real - b
  PROVE  Cut(T, Halved(T, a, b, x), a, b) /\ SameMarks(T, Halved(T, a, b, x), {})
  <1>1. /\ a \in Nat /\ T[a].real \in Nat /\ T[a].right \in Nat
        /\ (T[a].right = Null \/ T[a].right \in DOMAIN T)
    <2>1. T[a].right = Null \/ T[a].right \in DOMAIN T
      BY DEF Tiled, LinksOK
    <2> QED
      BY <2>1, TiledFacts
  <1>2. Null \notin DOMAIN T /\ T \in [DOMAIN T -> TagType]
    BY NullFacts
  <1>3. PICK W : W = Relinked(T, T[a].right, b)
    OBVIOUS
  <1>4. LeftStored(T, W, T[a].right, b)
    BY <1>1, <1>2, <1>3, RelinkFacts
  <1>5. DOMAIN W = DOMAIN T /\ W \in [DOMAIN W -> TagType]
    BY <1>4 DEF LeftStored
  <1>6. W[a].real = T[a].real
    BY <1>4 DEF LeftStored
  <1>7. x <= W[a].real /\ W[a].real - x = b - a
    BY <1>1, <1>6, SMT
  <1>8. PICK V : V = [W EXCEPT ![a].right = b, ![a].real = @ - x]
    OBVIOUS
  <1>9. Stretched(W, V, a, b - a, b)
    <2>1. Stretched(W, [W EXCEPT ![a].right = b, ![a].real = @ - x], a, W[a].real - x, b)
      BY <1>5, <1>7, ShrinkFacts
    <2> QED
      BY <1>7, <1>8, <2>1
  <1>10. PICK new : new = Tag(0, x, a, T[a].right)
    OBVIOUS
  <1>11. new \in TagType /\ new.real = a + T[a].real - b /\ new.left = a /\ new.right = T[a].right
    BY <1>1, <1>10 DEF Tag, TagType
  <1>12. PICK U : U = [c \in DOMAIN T \union {b} |-> IF c = b THEN new ELSE V[c]]
    OBVIOUS
  <1>13. Halved(T, a, b, x) = U
    BY <1>3, <1>8, <1>10, <1>12, SMT DEF Halved
  <1>14. b \notin DOMAIN T
    <2> SUFFICES ASSUME b \in DOMAIN T PROVE FALSE
      OBVIOUS
    <2>1. a + T[a].real <= b
      BY DEF Tiled, Apart
    <2> QED
      BY <1>1, <2>1, SMT
  <1>15. V \in [DOMAIN T -> TagType]
    BY <1>5, <1>9 DEF Stretched
  <1>16. U \in [DOMAIN T \union {b} -> TagType] /\ U[b] = new /\ \A c \in DOMAIN T : U[c] = V[c]
    BY <1>11, <1>12, <1>14, <1>15, AddFacts
  <1>17. Agree(V, U, DOMAIN T)
    BY <1>16 DEF Agree
  <1> QED
    BY <1>4, <1>9, <1>11, <1>13, <1>16, <1>17, SplitIsCut

\* The links of a cut do not depend on an index.
LEMMA CutShape ==
  ASSUME NEW T, NEW U, NEW X, NEW a \in DOMAIN T, NEW b, Cut(T, U, a, b), SameShape(U, X)
  PROVE  Cut(T, X, a, b)
  <1>1. DOMAIN U = DOMAIN T \union {b}
    BY DEF Cut
  <1>2. X \in [DOMAIN T \union {b} -> TagType]
    BY <1>1 DEF SameShape
  <1>3. \A c \in DOMAIN T \union {b} : X[c].real = U[c].real /\ X[c].left = U[c].left /\ X[c].right = U[c].right
    BY <1>1 DEF SameShape
  <1>4. /\ U[a].real = b - a /\ U[a].left = T[a].left /\ U[a].right = b
        /\ U[b].real = a + T[a].real - b /\ U[b].left = a /\ U[b].right = T[a].right
    BY DEF Cut
  <1>5. /\ X[a].real = b - a /\ X[a].left = T[a].left /\ X[a].right = b
        /\ X[b].real = a + T[a].real - b /\ X[b].left = a /\ X[b].right = T[a].right
    BY <1>3, <1>4
  <1>6. ASSUME NEW c \in DOMAIN T \ {a}
        PROVE  /\ X[c].real = T[c].real /\ X[c].right = T[c].right
               /\ X[c].left = IF c = T[a].right THEN b ELSE T[c].left
    <2>1. /\ U[c].real = T[c].real /\ U[c].right = T[c].right
          /\ U[c].left = IF c = T[a].right THEN b ELSE T[c].left
      BY DEF Cut
    <2>2. X[c].real = U[c].real /\ X[c].left = U[c].left /\ X[c].right = U[c].right
      BY <1>3
    <2> QED
      BY <2>1, <2>2
  <1>7. b \in Nat /\ a < b /\ b < a + T[a].real
    BY DEF Cut
  <1> QED
    BY <1>2, <1>5, <1>6, <1>7 DEF Cut

\* A piece in no list is cut, and the new piece behind it goes into its list.
LEMMA SplitSound ==
  ASSUME WellOrdered, NEW T, NEW F, NEW hp, Sound(T, F, hp), NEW a \in DOMAIN T, T[a].index = -1,
         T[a].right # Null => T[T[a].right].index = -1,
         NEW b, NEW R, Splitting(T, F, R, a, b)
  PROVE  SplitOK(T, R, a, b, hp)
  <1>1. Tiled(T, hp) /\ Lists(T, F) /\ NoFreePair(T)
    BY DEF Sound
  <1>2. PICK U : U = R.tags
    OBVIOUS
  <1>3. Cut(T, U, a, b) /\ SameMarks(T, U, {}) /\ U[b].index = IndexOf(U[b].real)
    BY <1>2 DEF Splitting
  <1>4. Tiled(U, hp) /\ b \notin DOMAIN T
    BY <1>1, <1>3, CutTiled
  <1>5. DOMAIN U = DOMAIN T \union {b} /\ b \in Nat
    BY <1>3 DEF Cut
  <1>6. /\ U[a].real = b - a /\ U[a].left = T[a].left /\ U[a].right = b
        /\ U[b].real = a + T[a].real - b /\ U[b].left = a /\ U[b].right = T[a].right
    BY <1>3 DEF Cut
  <1>7. \A c \in DOMAIN T \ {a} :
          /\ U[c].real = T[c].real /\ U[c].right = T[c].right
          /\ U[c].left = IF c = T[a].right THEN b ELSE T[c].left
    BY <1>3 DEF Cut
  <1>8. \A c \in DOMAIN T : U[c].index = T[c].index /\ U[c].size = T[c].size
    BY <1>3 DEF SameMarks
  <1>9. PICK i \in Exps : i = IndexOf(U[b].real)
    <2>1. U[b].real \in Int
      <3>1. b \in DOMAIN U
        BY <1>5
      <3>2. U[b].real \in Nat
        BY <1>4, <3>1, TiledFacts
      <3> QED
        BY <3>2, SMT
    <2> QED
      BY <2>1, IndexFacts
  <1>10. U[b].index = i /\ i # -1 /\ a # Null /\ b # Null
    <2>1. U[b].index = i /\ i # -1
      BY <1>3, <1>9, ExpsFacts
    <2>2. a # Null
      BY <1>1, TiledFacts
    <2>3. b \in DOMAIN U
      BY <1>5
    <2>4. b # Null
      BY <1>4, <2>3, TiledFacts
    <2> QED
      BY <2>1, <2>2, <2>4
  <1>11. Lists(U, [F EXCEPT ![i] = <<b>> \o @])
    <2>1. ~Listed(T, b)
      BY <1>4 DEF Listed
    <2>2. ASSUME NEW c, Listed(T, c), c # b
          PROVE  c \in DOMAIN U /\ U[c].index = T[c].index /\ U[c].real = T[c].real
      <3>1. c \in DOMAIN T \ {a}
        BY <2>2 DEF Listed
      <3> QED
        BY <1>5, <1>7, <1>8, <3>1
    <2>3. ASSUME NEW c, Listed(U, c), c # b PROVE Listed(T, c)
      <3>1. c \in DOMAIN T /\ U[c].index # -1
        BY <1>5, <2>3 DEF Listed
      <3> QED
        BY <1>8, <3>1 DEF Listed
    <2>4. SameListed(T, U, b)
      BY <2>2, <2>3 DEF SameListed
    <2>5. b \in DOMAIN U
      BY <1>5
    <2> QED
      BY <1>1, <1>5, <1>9, <1>10, <2>1, <2>4, <2>5, ListsPut
  <1>12. NoFreePair(U)
    <2> SUFFICES ASSUME NEW c \in DOMAIN U, U[c].index # -1, U[c].right # Null
                 PROVE  U[U[c].right].index = -1
      BY DEF NoFreePair
    <2>1. CASE c = b
      <3>1. T[a].right # Null /\ U[c].right = T[a].right
        BY <1>6, <2>1
      <3>2. T[T[a].right].index = -1 /\ T[a].right \in DOMAIN T
        BY <1>1, <3>1 DEF Tiled, LinksOK
      <3>3. U[T[a].right].index = -1
        BY <1>8, <3>2
      <3> QED
        BY <3>1, <3>3
    <2>2. CASE c # b
      <3>1. c \in DOMAIN T
        BY <1>5, <2>2
      <3>2. T[c].index # -1 /\ c # a
        BY <1>8, <3>1
      <3>3. U[c].right = T[c].right
        BY <1>7, <3>1, <3>2
      <3>4. T[T[c].right].index = -1 /\ T[c].right \in DOMAIN T
        BY <1>1, <3>1, <3>2, <3>3 DEF NoFreePair, Tiled, LinksOK
      <3>5. U[T[c].right].index = -1
        BY <1>8, <3>4
      <3> QED
        BY <3>3, <3>5
    <2> QED
      BY <2>1, <2>2
  <1>13. ASSUME NEW j \in Exps PROVE WholeFree(U, j) = WholeFree(T, j)
    <2>1. j # -1
      BY ExpsFacts
    <2>2. ASSUME NEW c \in WholeFree(U, j) PROVE c \in WholeFree(T, j)
      <3>1. c \in DOMAIN U /\ U[c].index = j /\ U[c].left = Null /\ U[c].right = Null
        BY <2>2 DEF WholeFree
      <3>2. c # b
        BY <1>6, <1>10, <3>1
      <3>3. c \in DOMAIN T
        BY <1>5, <3>1, <3>2
      <3>4. T[c].index = j /\ c # a
        BY <1>8, <2>1, <3>1, <3>3
      <3>5. T[c].right = Null
        BY <1>7, <3>1, <3>3, <3>4
      <3>6. T[c].left = Null
        BY <1>7, <1>10, <3>1, <3>3, <3>4
      <3> QED
        BY <3>3, <3>4, <3>5, <3>6 DEF WholeFree
    <2>3. ASSUME NEW c \in WholeFree(T, j) PROVE c \in WholeFree(U, j)
      <3>1. c \in DOMAIN T /\ T[c].index = j /\ T[c].left = Null /\ T[c].right = Null
        BY <2>3 DEF WholeFree
      <3>2. c # a /\ U[c].index = j /\ c \in DOMAIN U
        BY <1>5, <1>8, <2>1, <3>1
      <3>3. c # T[a].right
        <4>1. c # Null
          BY <1>1, <3>1, TiledFacts
        <4>2. T[a].right # Null => T[T[a].right].left = a
          BY <1>1 DEF Tiled, LinksOK
        <4> QED
          BY <1>10, <3>1, <4>1, <4>2
      <3>4. U[c].left = Null /\ U[c].right = Null
        BY <1>7, <3>1, <3>2, <3>3
      <3> QED
        BY <3>2, <3>4 DEF WholeFree
    <2> QED
      BY <2>2, <2>3
  <1>14. Kept(T, U, {a})
    BY <1>5, <1>7, <1>8 DEF Kept
  <1>15. R.free = [F EXCEPT ![i] = <<b>> \o @]
    BY <1>2, <1>9 DEF Splitting
  <1>16. Sound(R.tags, R.free, hp)
    BY <1>2, <1>4, <1>11, <1>12, <1>15 DEF Sound
  <1>17. U[a].index = T[a].index /\ U[a].size = T[a].size /\ U[a].real = b - a /\ U[b].index # -1
    BY <1>6, <1>8, <1>10
  <1> QED
    BY <1>2, <1>5, <1>13, <1>14, <1>16, <1>17 DEF SplitOK

\* What makes up a heap that malloc has taken a piece of.
LEMMA TakenParts ==
  ASSUME NEW T, NEW R, NEW a, NEW n, NEW hp,
         Sound(R.tags, R.free, hp), Kept(T, R.tags, {a}), a \in DOMAIN R.tags,
         R.tags[a].index = -1, R.tags[a].size = n, HeaderSize + n <= R.tags[a].real,
         \A c \in DOMAIN R.tags \ DOMAIN T : R.tags[c].index # -1,
         \A i \in Exps : WholeFree(R.tags, i) = WholeFree(T, i)
  PROVE  TakenOK(T, R, a, n, hp)
  BY DEF TakenOK

\* The end of malloc.
LEMMA TakenSound ==
  ASSUME WellOrdered, NEW T, NEW F, NEW hp, Sound(T, F, hp), NEW a \in DOMAIN T, T[a].index = -1,
         T[a].right # Null => T[T[a].right].index = -1,
         NEW n \in Nat, HeaderSize + n <= T[a].real
  PROVE  TakenOK(T, Taken([tags |-> T, free |-> F], a, n), a, n, hp)
  <1>1. Tiled(T, hp)
    BY DEF Sound
  <1>2. a \in Nat /\ T[a].real \in Nat /\ HeaderSize \in Nat /\ HeaderSize > 0
    BY <1>1, TiledFacts, ConstantFacts
  <1>3. PICK X : X = [T EXCEPT ![a].size = n]
    OBVIOUS
  <1>4. Resized(T, X, a, n)
    <2>1. T \in [DOMAIN T -> TagType]
      BY <1>1, NullFacts
    <2> QED
      BY <1>3, <2>1, SizeChange
  <1>5. /\ SameShape(T, X) /\ X[a].size = n /\ \A c \in DOMAIN T : X[c].index = T[c].index
        /\ \A c \in DOMAIN T \ {a} : X[c].size = T[c].size
    BY <1>4 DEF Resized
  <1>6. Sound(X, F, hp) /\ \A i \in Exps : WholeFree(X, i) = WholeFree(T, i)
    BY <1>5, SameIndexSound
  <1>7. DOMAIN X = DOMAIN T
    BY <1>5 DEF SameShape
  <1>8. \A c \in DOMAIN T : X[c].real = T[c].real /\ X[c].left = T[c].left /\ X[c].right = T[c].right
    BY <1>5 DEF SameShape
  <1>9. PICK H : H = [tags |-> T, free |-> F]
    OBVIOUS
  <1>10. PICK G : G = [tags |-> X, free |-> F]
    OBVIOUS
  <1>11. H.tags = T /\ H.free = F /\ G.tags = X /\ G.free = F
    BY <1>9, <1>10, HeapFields
  <1>12. PICK R : R = Taken(H, a, n)
    OBVIOUS
  <1> SUFFICES TakenOK(T, R, a, n, hp)
    BY <1>9, <1>12
  <1>13. R = IF T[a].real - n - 2 * HeaderSize > 0 /\ GetExp(T[a].real - n - 2 * HeaderSize) >= 0
             THEN SplitTag(G, a) ELSE G
    BY <1>3, <1>10, <1>11, <1>12 DEF Taken
  <1>14. CASE ~(T[a].real - n - 2 * HeaderSize > 0 /\ GetExp(T[a].real - n - 2 * HeaderSize) >= 0)
    <2>1. R.tags = X /\ R.free = F
      BY <1>11, <1>13, <1>14
    <2>2. Kept(T, X, {a})
      BY <1>5, <1>7, <1>8 DEF Kept
    <2>3. a \in DOMAIN X /\ X[a].index = -1 /\ X[a].size = n /\ HeaderSize + n <= X[a].real
      BY <1>5, <1>7, <1>8
    <2>4. \A c \in DOMAIN X \ DOMAIN T : X[c].index # -1
      BY <1>7
    <2> QED
      BY <1>6, <2>1, <2>2, <2>3, <2>4, TakenParts
  <1>15. CASE T[a].real - n - 2 * HeaderSize > 0 /\ GetExp(T[a].real - n - 2 * HeaderSize) >= 0
    <2>1. PICK b \in Nat : b = a + HeaderSize + n
      BY <1>2, SMT
    <2>2. PICK x \in Nat : x = T[a].real - HeaderSize - n
      BY <1>2, SMT
    <2>3. a < b /\ b < a + T[a].real /\ x = a + T[a].real - b /\ b - a = HeaderSize + n
      BY <1>2, <1>15, <2>1, <2>2, SMT
    <2>4. PICK U : U = Halved(X, a, b, x)
      OBVIOUS
    <2>5. Tiled(X, hp)
      BY <1>6 DEF Sound
    <2>6. Cut(X, U, a, b) /\ SameMarks(X, U, {})
      BY <1>7, <1>8, <2>3, <2>4, <2>5, HalveFacts
    <2>7. DOMAIN U = DOMAIN X \union {b} /\ U \in [DOMAIN U -> TagType] /\ b \in DOMAIN U
      BY <2>6 DEF Cut
    <2>8. b \notin DOMAIN X
      BY <1>7, <2>5, <2>6, CutTiled
    <2>9. PICK Q : Q = [tags |-> U, free |-> F]
      OBVIOUS
    <2>10. Q.tags = U /\ Q.free = F
      BY <2>9, HeapFields
    <2>11. R = InsertTag(Q, b)
      <3>1. R = SplitTag(G, a)
        BY <1>13, <1>15
      <3>2. G.tags[a].size = n /\ G.tags[a].real = T[a].real
        BY <1>5, <1>8, <1>11
      <3> QED
        BY <1>11, <2>1, <2>2, <2>4, <2>9, <3>1, <3>2 DEF SplitTag
    <2>12. PICK i : i = IndexOf(U[b].real)
      OBVIOUS
    <2>13. R.tags = [U EXCEPT ![b].index = i] /\ R.free = [F EXCEPT ![i] = <<b>> \o @]
      <3>1. /\ R.tags = [Q.tags EXCEPT ![b].index = IndexOf(Q.tags[b].real)]
            /\ R.free = [Q.free EXCEPT ![IndexOf(Q.tags[b].real)] = <<b>> \o @]
        BY <2>11, InsertTagFields
      <3> QED
        BY <2>10, <2>12, <3>1
    <2>14. PICK Z : Z = R.tags
      OBVIOUS
    <2>15. i \in Exps \union {-1}
      <3>1. U[b].real \in Int
        BY <2>7, SMT DEF TagType
      <3> QED
        BY <2>12, <3>1, IndexFacts
    <2>16. Reindexed(U, Z, b, i)
      <3>1. Reindexed(U, [U EXCEPT ![b].index = i], b, i)
        BY <2>7, <2>15, IndexChange
      <3> QED
        BY <2>13, <2>14, <3>1
    <2>17. SameShape(U, Z) /\ SameMarks(U, Z, {b})
      BY <2>7, <2>16, ReindexedShape
    <2>18. Cut(X, Z, a, b)
      BY <1>7, <2>6, <2>17, CutShape
    <2>19. SameMarks(X, Z, {})
      <3> SUFFICES ASSUME NEW c \in DOMAIN X PROVE Z[c].index = X[c].index /\ Z[c].size = X[c].size
        BY DEF SameMarks
      <3>1. c \in DOMAIN U \ {b} /\ c \in DOMAIN X \ {}
        BY <2>7, <2>8
      <3>2. Z[c].index = U[c].index /\ Z[c].size = U[c].size /\ U[c].index = X[c].index /\ U[c].size = X[c].size
        BY <2>6, <2>17, <3>1 DEF SameMarks
      <3> QED
        BY <3>2
    <2>20. Z[b].index = i /\ Z[b].real = U[b].real
      BY <2>16 DEF Reindexed
    <2>21. Splitting(X, F, R, a, b)
      BY <2>12, <2>13, <2>14, <2>18, <2>19, <2>20 DEF Splitting
    <2>22. X[a].index = -1 /\ (X[a].right # Null => X[X[a].right].index = -1)
      <3>1. T[a].right # Null => T[a].right \in DOMAIN T
        BY <1>1 DEF Tiled, LinksOK
      <3> QED
        BY <1>5, <1>8, <3>1
    <2>23. SplitOK(X, R, a, b, hp)
      BY <1>6, <1>7, <2>21, <2>22, SplitSound
    <2>24. /\ Sound(R.tags, R.free, hp) /\ Kept(X, R.tags, {a}) /\ DOMAIN R.tags = DOMAIN X \union {b}
           /\ R.tags[a].index = X[a].index /\ R.tags[a].size = X[a].size /\ R.tags[a].real = b - a
           /\ R.tags[b].index # -1
           /\ \A j \in Exps : WholeFree(R.tags, j) = WholeFree(X, j)
      BY <2>23 DEF SplitOK
    <2>25. Kept(T, R.tags, {a})
      BY <1>5, <1>7, <1>8, <2>24, ZenonT(60) DEF Kept
    <2>26. /\ a \in DOMAIN R.tags /\ R.tags[a].index = -1 /\ R.tags[a].size = n
           /\ HeaderSize + n <= R.tags[a].real
      <3>1. R.tags[a].real = HeaderSize + n
        BY <2>3, <2>24
      <3>2. HeaderSize + n <= R.tags[a].real
        BY <1>2, <3>1, SMT
      <3> QED
        BY <1>5, <1>7, <2>24, <3>2
    <2>27. \A c \in DOMAIN R.tags \ DOMAIN T : R.tags[c].index # -1
      BY <1>7, <2>24
    <2>28. \A j \in Exps : WholeFree(R.tags, j) = WholeFree(T, j)
      BY <1>6, <2>24
    <2> QED
      BY <2>24, <2>25, <2>26, <2>27, <2>28, TakenParts
  <1> QED
    BY <1>14, <1>15

\* malloc takes a piece out of its list.
LEMMA FoundSound ==
  ASSUME NEW T, NEW F, NEW hp, Sound(T, F, hp), NEW a \in DOMAIN T, T[a].index # -1
  PROVE  FoundOK(T, RemoveTag([tags |-> T, free |-> F], a), a, hp)
  <1>1. Tiled(T, hp) /\ Lists(T, F) /\ NoFreePair(T)
    BY DEF Sound
  <1>2. PICK i \in Exps : T[a].index = i
    BY <1>1, TiledFacts
  <1>3. a \in Nat /\ T \in [DOMAIN T -> TagType]
    BY <1>1, NullFacts
  <1>4. PICK R : R = RemoveTag([tags |-> T, free |-> F], a)
    OBVIOUS
  <1> SUFFICES FoundOK(T, R, a, hp)
    BY <1>4
  <1>5. R.tags = [T EXCEPT ![a].index = -1] /\ R.free = [F EXCEPT ![i] = Unlinked(@, a)]
    <2>1. PICK H : H = [tags |-> T, free |-> F]
      OBVIOUS
    <2>2. H.tags = T /\ H.free = F /\ R = RemoveTag(H, a)
      BY <1>4, <2>1, HeapFields
    <2>3. /\ R.tags = [H.tags EXCEPT ![a].index = -1]
          /\ R.free = [H.free EXCEPT ![H.tags[a].index] = Unlinked(@, a)]
      BY <2>2, RemoveTagFields
    <2> QED
      BY <1>2, <2>2, <2>3
  <1>6. PICK U : U = R.tags
    OBVIOUS
  <1>7. Reindexed(T, U, a, -1)
    <2>1. -1 \in Exps \union {-1}
      OBVIOUS
    <2>2. Reindexed(T, [T EXCEPT ![a].index = -1], a, -1)
      BY <1>3, <2>1, IndexChange
    <2> QED
      BY <1>5, <1>6, <2>2
  <1>8. SameShape(T, U) /\ DOMAIN U = DOMAIN T /\ SameMarks(T, U, {a})
    BY <1>7, ReindexedShape
  <1>9. \A c \in DOMAIN T : U[c].real = T[c].real /\ U[c].left = T[c].left /\ U[c].right = T[c].right
    BY <1>8 DEF SameShape
  <1>10. U[a].index = -1 /\ \A c \in DOMAIN T \ {a} : U[c].index = T[c].index
    BY <1>7, <1>8 DEF Reindexed, SameMarks
  <1>11. Tiled(U, hp)
    BY <1>1, <1>8, SameShapeTiled
  <1>12. Lists(U, [F EXCEPT ![i] = Unlinked(@, a)])
    <2>1. ~Listed(U, a)
      BY <1>10 DEF Listed
    <2>2. ASSUME NEW c, Listed(T, c), c # a
          PROVE  c \in DOMAIN U /\ U[c].index = T[c].index /\ U[c].real = T[c].real
      BY <1>8, <1>9, <1>10, <2>2 DEF Listed
    <2>3. ASSUME NEW c, Listed(U, c), c # a PROVE Listed(T, c)
      BY <1>8, <1>10, <2>3 DEF Listed
    <2>4. SameListed(T, U, a)
      BY <2>2, <2>3 DEF SameListed
    <2> QED
      BY <1>1, <1>2, <1>3, <2>1, <2>4, ListsTake
  <1>13. \A c \in DOMAIN T : U[c].index # -1 => T[c].index # -1
    BY <1>10
  <1>14. \A c \in DOMAIN T : T[c].index = -1 => U[c].index = -1
    BY <1>10
  <1>15. \A c \in DOMAIN T : T[c].right # Null => T[c].right \in DOMAIN T
    BY <1>1 DEF Tiled, LinksOK
  <1>16. NoFreePair(U)
    <2> SUFFICES ASSUME NEW c \in DOMAIN T, T[c].index # -1, T[c].right # Null PROVE U[T[c].right].index = -1
      BY <1>8, <1>9, <1>13 DEF NoFreePair
    <2>1. T[T[c].right].index = -1 /\ T[c].right \in DOMAIN T
      BY <1>1, <1>15 DEF NoFreePair
    <2> QED
      BY <1>14, <2>1
  <1>17. U[a].right # Null => U[U[a].right].index = -1
    <2> SUFFICES ASSUME U[a].right # Null PROVE U[U[a].right].index = -1
      OBVIOUS
    <2>1. U[a].right = T[a].right
      BY <1>9
    <2>2. T[T[a].right].index = -1 /\ T[a].right \in DOMAIN T
      BY <1>1, <1>15, <2>1 DEF NoFreePair
    <2> QED
      BY <1>14, <2>1, <2>2
  <1>18. ASSUME NEW j \in Exps PROVE WholeFree(U, j) = WholeFree(T, j) \ {a}
    <2>1. j # -1
      BY ExpsFacts
    <2>2. ASSUME NEW c \in WholeFree(U, j) PROVE c \in WholeFree(T, j) \ {a}
      <3>1. c \in DOMAIN T /\ U[c].index = j /\ U[c].left = Null /\ U[c].right = Null
        BY <1>8, <2>2 DEF WholeFree
      <3>2. c # a
        BY <1>10, <2>1, <3>1
      <3> QED
        BY <1>9, <1>10, <3>1, <3>2 DEF WholeFree
    <2>3. ASSUME NEW c \in WholeFree(T, j) \ {a} PROVE c \in WholeFree(U, j)
      <3>1. c \in DOMAIN T \ {a} /\ T[c].index = j /\ T[c].left = Null /\ T[c].right = Null
        BY <2>3 DEF WholeFree
      <3> QED
        BY <1>8, <1>9, <1>10, <3>1 DEF WholeFree
    <2> QED
      BY <2>2, <2>3
  <1>19. Sound(R.tags, R.free, hp)
    BY <1>5, <1>6, <1>11, <1>12, <1>16 DEF Sound
  <1> QED
    BY <1>6, <1>7, <1>17, <1>18, <1>19 DEF FoundOK

\* free() puts a piece without free neighbours into its list.
LEMMA InsertSound ==
  ASSUME WellOrdered, NEW T, NEW F, NEW hp, Sound(T, F, hp), NEW a \in DOMAIN T, T[a].index = -1,
         T[a].left # Null => T[T[a].left].index = -1, T[a].right # Null => T[T[a].right].index = -1
  PROVE  InsertOK(T, InsertTag([tags |-> T, free |-> F], a), a, IndexOf(T[a].real), hp)
  <1>1. Tiled(T, hp) /\ Lists(T, F) /\ NoFreePair(T)
    BY DEF Sound
  <1>2. PICK i \in Exps : i = IndexOf(T[a].real)
    <2>1. T[a].real \in Nat
      BY <1>1, TiledFacts
    <2>2. T[a].real \in Int
      BY <2>1, SMT
    <2> QED
      BY <2>2, IndexFacts
  <1>3. a \in Nat /\ T \in [DOMAIN T -> TagType] /\ i # -1
    BY <1>1, NullFacts, ExpsFacts
  <1>4. PICK R : R = InsertTag([tags |-> T, free |-> F], a)
    OBVIOUS
  <1> SUFFICES InsertOK(T, R, a, i, hp)
    BY <1>2, <1>4
  <1>5. R.tags = [T EXCEPT ![a].index = i] /\ R.free = [F EXCEPT ![i] = <<a>> \o @]
    <2>1. PICK H : H = [tags |-> T, free |-> F]
      OBVIOUS
    <2>2. H.tags = T /\ H.free = F /\ R = InsertTag(H, a)
      BY <1>4, <2>1, HeapFields
    <2>3. /\ R.tags = [H.tags EXCEPT ![a].index = IndexOf(H.tags[a].real)]
          /\ R.free = [H.free EXCEPT ![IndexOf(H.tags[a].real)] = <<a>> \o @]
      BY <2>2, InsertTagFields
    <2> QED
      BY <1>2, <2>2, <2>3
  <1>6. PICK U : U = R.tags
    OBVIOUS
  <1>7. Reindexed(T, U, a, i)
    <2>1. i \in Exps \union {-1}
      OBVIOUS
    <2>2. Reindexed(T, [T EXCEPT ![a].index = i], a, i)
      BY <1>3, <2>1, IndexChange
    <2> QED
      BY <1>5, <1>6, <2>2
  <1>8. SameShape(T, U) /\ DOMAIN U = DOMAIN T /\ SameMarks(T, U, {a})
    BY <1>7, ReindexedShape
  <1>9. \A c \in DOMAIN T : U[c].real = T[c].real /\ U[c].left = T[c].left /\ U[c].right = T[c].right
    BY <1>8 DEF SameShape
  <1>10. U[a].index = i /\ \A c \in DOMAIN T \ {a} : U[c].index = T[c].index
    BY <1>7, <1>8 DEF Reindexed, SameMarks
  <1>11. Tiled(U, hp)
    BY <1>1, <1>8, SameShapeTiled
  <1>12. Lists(U, [F EXCEPT ![i] = <<a>> \o @])
    <2>1. ~Listed(T, a)
      BY DEF Listed
    <2>2. ASSUME NEW c, Listed(T, c), c # a
          PROVE  c \in DOMAIN U /\ U[c].index = T[c].index /\ U[c].real = T[c].real
      BY <1>8, <1>9, <1>10, <2>2 DEF Listed
    <2>3. ASSUME NEW c, Listed(U, c), c # a PROVE Listed(T, c)
      BY <1>8, <1>10, <2>3 DEF Listed
    <2>4. SameListed(T, U, a)
      BY <2>2, <2>3 DEF SameListed
    <2>5. a \in DOMAIN U /\ U[a].real = T[a].real
      BY <1>8, <1>9
    <2>6. i = IndexOf(U[a].real)
      BY <1>2, <2>5
    <2> QED
      BY <1>1, <1>3, <1>10, <2>1, <2>4, <2>5, <2>6, ListsPut
  <1>13. NoFreePair(U)
    <2> SUFFICES ASSUME NEW c \in DOMAIN T, U[c].index # -1, T[c].right # Null PROVE U[T[c].right].index = -1
      BY <1>8, <1>9 DEF NoFreePair
    <2>1. T[c].right \in DOMAIN T /\ T[T[c].right].left = c /\ c # Null /\ T[c].right = c + T[c].real
      BY <1>1, TiledFacts DEF Tiled, LinksOK
    <2>2. CASE c = a
      <3>1. T[T[a].right].index = -1
        BY <2>2
      <3>2. T[a].right # a
        <4>1. a \in Nat /\ T[a].real \in Nat /\ T[a].real > 0
          BY <1>1, TiledFacts
        <4> QED
          BY <2>1, <2>2, <4>1, SMT
      <3> QED
        BY <1>10, <2>1, <2>2, <3>1, <3>2
    <2>3. CASE c # a
      <3>1. T[c].index # -1
        BY <1>10, <2>3
      <3>2. T[T[c].right].index = -1
        BY <1>1, <3>1 DEF NoFreePair
      <3>3. T[c].right # a
        BY <2>1, <3>1
      <3> QED
        BY <1>10, <2>1, <3>2, <3>3
    <2> QED
      BY <2>2, <2>3
  <1>14. ASSUME NEW j \in Exps PROVE a \notin WholeFree(T, j)
    BY ExpsFacts DEF WholeFree
  <1>15. ASSUME NEW j \in Exps, NEW c \in DOMAIN T \ {a} PROVE c \in WholeFree(U, j) <=> c \in WholeFree(T, j)
    BY <1>8, <1>9, <1>10, <1>15 DEF WholeFree
  <1>16. \A j \in Exps : WholeFree(U, j) \subseteq DOMAIN T /\ WholeFree(T, j) \subseteq DOMAIN T
    BY <1>8 DEF WholeFree
  <1>17. \A j \in Exps : a \in WholeFree(U, j) <=> j = i /\ T[a].left = Null /\ T[a].right = Null
    BY <1>8, <1>9, <1>10 DEF WholeFree
  <1>18. ASSUME NEW j \in Exps
         PROVE  IF j = i /\ T[a].left = Null /\ T[a].right = Null
                THEN WholeFree(U, j) = WholeFree(T, j) \union {a}
                ELSE WholeFree(U, j) = WholeFree(T, j)
    <2>1. CASE j = i /\ T[a].left = Null /\ T[a].right = Null
      <3>1. WholeFree(U, j) = WholeFree(T, j) \union {a}
        BY <1>15, <1>16, <1>17, <2>1
      <3> QED
        BY <2>1, <3>1
    <2>2. CASE ~(j = i /\ T[a].left = Null /\ T[a].right = Null)
      <3>0. a \notin WholeFree(U, j) /\ a \notin WholeFree(T, j)
        BY <1>14, <1>17, <2>2
      <3>1. ASSUME NEW c \in WholeFree(U, j) PROVE c \in WholeFree(T, j)
        BY <1>15, <1>16, <3>0, <3>1
      <3>2. ASSUME NEW c \in WholeFree(T, j) PROVE c \in WholeFree(U, j)
        BY <1>15, <1>16, <3>0, <3>2
      <3>3. WholeFree(U, j) = WholeFree(T, j)
        BY <3>1, <3>2
      <3> QED
        BY <2>2, <3>3
    <2> QED
      BY <2>1, <2>2
  <1>19. Sound(R.tags, R.free, hp)
    BY <1>5, <1>6, <1>11, <1>12, <1>13 DEF Sound
  <1> QED
    BY <1>6, <1>7, <1>14, <1>18, <1>19 DEF InsertOK

\* A new area, one piece that is in no list.
LEMMA NewAreaSound ==
  ASSUME NEW T, NEW U, NEW F, NEW hp, Sound(T, F, hp), NEW p \in Nat, NEW n \in Nat, n >= PageCount,
         Span(<<p, n>>) \cap hp = {}, NEW a, AreaAdded(T, U, a, p, n)
  PROVE  /\ Sound(U, F, hp \union Span(<<p, n>>)) /\ a \notin DOMAIN T
         /\ \A j \in Exps : WholeFree(U, j) = WholeFree(T, j)
  <1>0. /\ a = Address(p) /\ U \in [DOMAIN T \union {a} -> TagType] /\ Agree(T, U, DOMAIN T \ {a})
        /\ U[a].real = n * PageSize /\ U[a].left = Null /\ U[a].right = Null /\ U[a].index = -1
    BY DEF AreaAdded
  <1> USE <1>0
  <1>1. Tiled(T, hp) /\ Lists(T, F) /\ NoFreePair(T)
    BY DEF Sound
  <1>2. \A c \in DOMAIN T \ {a} : U[c] = T[c]
    BY DEF Agree
  <1>3. Tiled(U, hp \union Span(<<p, n>>)) /\ a \notin DOMAIN T
    BY <1>1, NewAreaTiled
  <1>4. DOMAIN U = DOMAIN T \union {a}
    OBVIOUS
  <1>5. \A c \in DOMAIN T : U[c] = T[c] /\ c \in DOMAIN U /\ c # a
    BY <1>2, <1>3, <1>4
  <1>6. Lists(U, F)
    <2>1. ASSUME NEW c, Listed(T, c) PROVE c \in DOMAIN U /\ U[c].index = T[c].index /\ U[c].real = T[c].real
      BY <1>5, <2>1 DEF Listed
    <2>2. ASSUME NEW c, Listed(U, c) PROVE Listed(T, c)
      BY <1>4, <1>5, <2>2 DEF Listed
    <2>3. SameListed(T, U, Null)
      BY <2>1, <2>2 DEF SameListed
    <2>4. Null \notin DOMAIN T /\ Null \notin DOMAIN U
      BY <1>1, <1>3, NullFacts
    <2> QED
      BY <1>1, <2>3, <2>4, ListsSame
  <1>7. NoFreePair(U)
    <2> SUFFICES ASSUME NEW c \in DOMAIN U, U[c].index # -1, U[c].right # Null PROVE U[U[c].right].index = -1
      BY DEF NoFreePair
    <2>1. c \in DOMAIN T /\ U[c] = T[c]
      BY <1>4, <1>5
    <2>2. T[T[c].right].index = -1 /\ T[c].right \in DOMAIN T
      BY <1>1, <2>1 DEF NoFreePair, Tiled, LinksOK
    <2> QED
      BY <1>5, <2>1, <2>2
  <1>8. ASSUME NEW j \in Exps PROVE WholeFree(U, j) = WholeFree(T, j)
    <2>1. j # -1
      BY ExpsFacts
    <2> QED
      BY <1>4, <1>5, <2>1 DEF WholeFree
  <1> QED
    BY <1>3, <1>6, <1>7, <1>8 DEF Sound

\* A whole area that is in no list is given back.
LEMMA DropAreaSound ==
  ASSUME NEW T, NEW U, NEW F, NEW hp, Sound(T, F, hp), NEW a \in DOMAIN T, T[a].index = -1,
         T[a].left = Null, T[a].right = Null, Dropped(T, U, a)
  PROVE  /\ \E p \in Nat, n \in Nat : GivenBack(T, U, a, p, n, hp) /\ Sound(U, F, hp \ Span(<<p, n>>))
         /\ DOMAIN U = DOMAIN T \ {a} /\ Agree(T, U, DOMAIN T \ {a})
         /\ \A j \in Exps : WholeFree(U, j) = WholeFree(T, j)
  <1>1. Tiled(T, hp) /\ Lists(T, F) /\ NoFreePair(T)
    BY DEF Sound
  <1>2. T \in [DOMAIN T -> TagType]
    BY <1>1, NullFacts
  <1>3. U \in [DOMAIN T \ {a} -> TagType] /\ \A c \in DOMAIN T \ {a} : U[c] = T[c]
    BY <1>2, RestrictFacts DEF Dropped
  <1>4. DOMAIN U = DOMAIN T \ {a} /\ U \in [DOMAIN U -> TagType]
    BY <1>3
  <1>10. Agree(T, U, DOMAIN T \ {a})
    BY <1>3 DEF Agree
  <1>5. PICK p \in Nat, n \in Nat : GivenBack(T, U, a, p, n, hp)
    BY <1>1, <1>4, <1>10, DropAreaTiled
  <1>6. Lists(U, F)
    <2>1. ASSUME NEW c, Listed(T, c) PROVE c \in DOMAIN U /\ U[c].index = T[c].index /\ U[c].real = T[c].real
      BY <1>3, <1>4, <2>1 DEF Listed
    <2>2. ASSUME NEW c, Listed(U, c) PROVE Listed(T, c)
      BY <1>3, <1>4, <2>2 DEF Listed
    <2>3. SameListed(T, U, Null)
      BY <2>1, <2>2 DEF SameListed
    <2>4. Null \notin DOMAIN T /\ Null \notin DOMAIN U
      BY <1>1, <1>4, NullFacts
    <2> QED
      BY <1>1, <2>3, <2>4, ListsSame
  <1>7. NoFreePair(U)
    <2> SUFFICES ASSUME NEW c \in DOMAIN U, U[c].index # -1, U[c].right # Null PROVE U[U[c].right].index = -1
      BY DEF NoFreePair
    <2>1. c \in DOMAIN T /\ U[c] = T[c] /\ c # a
      BY <1>3, <1>4
    <2>2. T[T[c].right].index = -1 /\ T[c].right \in DOMAIN T /\ T[T[c].right].left = c /\ c # Null
      BY <1>1, <2>1, TiledFacts DEF NoFreePair, Tiled, LinksOK
    <2>3. T[c].right # a
      BY <2>2
    <2> QED
      BY <1>3, <2>1, <2>2, <2>3
  <1>8. ASSUME NEW j \in Exps PROVE WholeFree(U, j) = WholeFree(T, j)
    <2>1. j # -1
      BY ExpsFacts
    <2>2. \A c \in DOMAIN T \ {a} : c \in DOMAIN U /\ U[c] = T[c]
      BY <1>3, <1>4
    <2>3. ASSUME NEW c \in WholeFree(U, j) PROVE c \in WholeFree(T, j)
      BY <1>3, <1>4, <2>3 DEF WholeFree
    <2>4. ASSUME NEW c \in WholeFree(T, j) PROVE c \in WholeFree(U, j)
      <3>1. c \in DOMAIN T \ {a}
        BY <2>1, <2>4 DEF WholeFree
      <3> QED
        BY <2>2, <2>4, <3>1 DEF WholeFree
    <2> QED
      BY <2>3, <2>4
  <1>9. Sound(U, F, hp \ Span(<<p, n>>))
    BY <1>5, <1>6, <1>7 DEF Sound, GivenBack
  <1> QED
    BY <1>4, <1>5, <1>8, <1>9, <1>10
=============================================================================
