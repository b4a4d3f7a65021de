----------------------------- MODULE FilesProofs -----------------------------
(***************************************************************************)
(* For any number of pipes, pseudo terminals and descriptors, and any      *)
(* sequence of system calls: the handle counts are the numbers of          *)
(* descriptors, positions stay in the file, a pipe end lives exactly as    *)
(* long as its handles, its peer learns of its end, and no call gives a    *)
(* descriptor it does not name another node.                               *)
(***************************************************************************)
EXTENDS Files, FiniteSetTheorems, SequenceTheorems, WellFoundedInduction, TLAPS

\* A leaf is proved by Zenon, unless it cites another prover.
USE Zenon

FdType == [node : Node, pos : Nat] \union {NoFd}
NodesType == [handles : [Node -> Nat], deleted : SUBSET End, widowed : SUBSET End]

\* The descriptors of table t that refer to node n.
RefsOf(t, n) == {d \in DOMAIN t : t[d].node = n}

\* HandlesExact and PosInFile for a table t, a state s of the nodes and the handles
\* l that sys_dup dropped, so that a call may be taken apart.
Exact(t, s, l) == \A n \in Node : s.handles[n] = Cardinality(RefsOf(t, n)) + l[n]
InFile(t) == \A d \in DOMAIN t : t[d].pos <= SizeOf(t[d].node)

\* The ends of the pipes m that were made live as long as they have a handle and
\* know of each other's end; the others were never touched.
EndsInv(s, m) ==
    \A e \in End :
        /\ e[2] \notin m => s.handles[e] = 0 /\ e \notin s.deleted /\ e \notin s.widowed
        /\ e[2] \in m => (e \in s.deleted <=> s.handles[e] = 0)
        /\ e[2] \in m /\ e \notin s.deleted => (e \in s.widowed <=> Peer(e) \in s.deleted)

TableInv(t, s, l) ==
    /\ t \in Seq(FdType)
    /\ s \in NodesType
    /\ Exact(t, s, l)
    /\ InFile(t)

\* The bound of the table leaves room for what a call under way will add, and
\* destroy_all_files leaves nothing behind it.
PhaseInv ==
    /\ Len(fds) <= MaxFds
    /\ phase # "exited" => Len(fds) >= 3
    /\ phase = "grant" => pty \in Pty /\ Len(fds) + 1 <= MaxFds
    /\ phase = "exit" => \A d \in DOMAIN fds : d < at => fds[d] = NoFd

RestOK ==
    /\ bytes \in [Pipe -> 0 .. MaxBytes]
    /\ made \subseteq Pipe \union Pty
    /\ phase \in {"run", "grant", "exit", "exited", "blocked", "panic", "corrupt"}
    /\ at \in 1 .. MaxFds + 1
    /\ lost \in [Node -> 0 .. 1]

IInv == RestOK /\ TableInv(fds, nodes, lost) /\ EndsInv(nodes, made) /\ PhaseInv

-----------------------------------------------------------------------------
(* Nodes                                                                   *)

\* A null entry refers to no node, and the kinds of nodes are apart.
LEMMA NodeFacts ==
  /\ NoFd.node \notin Node /\ NoFd.pos = 0 /\ NoFd \in FdType
  /\ Dev \in Node /\ File \in Node /\ Dev \notin End /\ File \notin End
  /\ End \subseteq Node
  /\ \A e \in End : Peer(e) \in End /\ Peer(e) # e /\ Peer(Peer(e)) = e /\ Peer(e)[2] = e[2]
  /\ \A p \in Pipe : <<"read", p>> \in End /\ <<"write", p>> \in End
  /\ \A e \in End : e[2] \in Pipe /\ e \in {<<"read", e[2]>>, <<"write", e[2]>>}
  /\ \A t \in Pty : /\ <<"worker", t>> \in Node \ End
                    /\ <<"controller", t>> \in Node \ End
  BY SMT DEF NoFd, Fd, FdType, Node, Dev, File, End, Peer

\* fs_node::open adds a handle.
LEMMA OpenedFacts ==
  ASSUME NEW s \in NodesType, NEW n \in Node
  PROVE  /\ Opened(s, n) \in NodesType
         /\ Opened(s, n).handles = [s.handles EXCEPT ![n] = @ + 1]
         /\ Opened(s, n).deleted = s.deleted
         /\ Opened(s, n).widowed = s.widowed
  BY SMT DEF Opened, NodesType

\* node->close() takes a handle away, and the end of a pipe goes with the last.
LEMMA ClosedFacts ==
  ASSUME NEW s \in NodesType, NEW n \in Node, s.handles[n] >= 1
  PROVE  /\ Closed(s, n) \in NodesType
         /\ Closed(s, n).handles = [s.handles EXCEPT ![n] = @ - 1]
         /\ IF n \in End /\ s.handles[n] = 1
              THEN /\ Closed(s, n).deleted = s.deleted \union {n}
                   /\ Closed(s, n).widowed = s.widowed \union {Peer(n)}
              ELSE /\ Closed(s, n).deleted = s.deleted
                   /\ Closed(s, n).widowed = s.widowed
  BY NodeFacts, SMT DEF Closed, NodesType

\* A handle more on a node that has one, or on a node that is no pipe end, changes
\* nothing about the ends.
LEMMA OpenedEnds ==
  ASSUME NEW s \in NodesType, NEW m, NEW n \in Node, EndsInv(s, m),
         n \in End => s.handles[n] >= 1
  PROVE  EndsInv(Opened(s, n), m)
  <1> DEFINE o == Opened(s, n)
  <1>1. o.handles = [s.handles EXCEPT ![n] = @ + 1] /\ o.deleted = s.deleted /\ o.widowed = s.widowed
    BY OpenedFacts
  <1>2. s.handles \in [Node -> Nat] /\ End \subseteq Node
    BY NodeFacts DEF NodesType
  <1>3. \A e \in End : o.handles[e] = 0 <=> s.handles[e] = 0
    BY <1>1, <1>2, SMT
  <1> QED
    BY <1>1, <1>3 DEF EndsInv

\* A handle less keeps the ends right, the last one included.
LEMMA ClosedEnds ==
  ASSUME NEW s \in NodesType, NEW m, NEW n \in Node, EndsInv(s, m), s.handles[n] >= 1
  PROVE  EndsInv(Closed(s, n), m)
  <1> DEFINE o == Closed(s, n)
  <1>1. o.handles = [s.handles EXCEPT ![n] = @ - 1]
    BY ClosedFacts
  <1>2. s.handles \in [Node -> Nat] /\ End \subseteq Node
    BY NodeFacts DEF NodesType
  <1>3. CASE n \in End /\ s.handles[n] = 1
    <2>1. o.deleted = s.deleted \union {n} /\ o.widowed = s.widowed \union {Peer(n)}
      BY <1>3, ClosedFacts
    <2>2. \A e \in End : o.handles[e] = 0 <=> s.handles[e] = 0 \/ e = n
      BY <1>1, <1>2, <1>3, SMT
    <2>3. n[2] \in m /\ Peer(n)[2] \in m
      BY <1>3, NodeFacts, SMT DEF EndsInv
    <2>4. \A e \in End : Peer(e) = n <=> e = Peer(n)
      BY <1>3, NodeFacts
    <2> HIDE DEF o
    <2> SUFFICES ASSUME NEW e \in End
                 PROVE  /\ e[2] \notin m => o.handles[e] = 0 /\ e \notin o.deleted /\ e \notin o.widowed
                        /\ e[2] \in m => (e \in o.deleted <=> o.handles[e] = 0)
                        /\ e[2] \in m /\ e \notin o.deleted =>
                               (e \in o.widowed <=> Peer(e) \in o.deleted)
      BY DEF EndsInv, o
    <2>5. e[2] \notin m => o.handles[e] = 0 /\ e \notin o.deleted /\ e \notin o.widowed
      BY <2>1, <2>2, <2>3 DEF EndsInv
    <2>6. e[2] \in m => (e \in o.deleted <=> o.handles[e] = 0)
      BY <2>1, <2>2 DEF EndsInv
    <2>7. e[2] \in m /\ e \notin o.deleted => (e \in o.widowed <=> Peer(e) \in o.deleted)
      BY <2>1, <2>4 DEF EndsInv
    <2> QED
      BY <2>5, <2>6, <2>7
  <1>4. CASE ~(n \in End /\ s.handles[n] = 1)
    <2>1. o.deleted = s.deleted /\ o.widowed = s.widowed
      BY <1>4, ClosedFacts
    <2>2. \A e \in End : o.handles[e] = 0 <=> s.handles[e] = 0
      BY <1>1, <1>2, <1>4, SMT
    <2> QED
      BY <2>1, <2>2 DEF EndsInv
  <1> QED
    BY <1>3, <1>4

-----------------------------------------------------------------------------
(* Tables                                                                  *)

\* A set of natural numbers has a least element.
LEMMA LeastNat ==
  ASSUME NEW S \in SUBSET Nat, S # {}
  PROVE  \E x \in S : \A y \in S : x <= y
  <1>1. IsWellFoundedOn({ss \in Nat \X Nat : ss[1] < ss[2]}, Nat)
    BY NatLessThanWellFounded DEF OpToRel
  <1>2. PICK x \in S : \A y \in S : ~(<<y, x>> \in {ss \in Nat \X Nat : ss[1] < ss[2]})
    BY <1>1, WFMin
  <1>3. \A y \in S : ~(y < x)
    BY <1>2
  <1> QED
    BY <1>3, SMT

\* The entries of a table.
LEMMA TableFacts ==
  ASSUME NEW t \in Seq(FdType)
  PROVE  /\ Len(t) \in Nat /\ DOMAIN t = 1 .. Len(t)
         /\ \A d \in DOMAIN t : /\ t[d] \in FdType
                                /\ t[d] # NoFd => t[d].node \in Node /\ t[d].pos \in Nat
                                /\ t[d].node \in Node => t[d] # NoFd
         /\ \A n : IsFiniteSet(RefsOf(t, n)) /\ Cardinality(RefsOf(t, n)) \in Nat
         /\ \A d \in DOMAIN t : Cardinality(RefsOf(t, t[d].node)) >= 1
  <1>1. Len(t) \in Nat /\ DOMAIN t = 1 .. Len(t)
    BY LenProperties
  <1>2. \A d \in DOMAIN t : t[d] \in FdType
    BY <1>1, ElementOfSeq
  <1>3. \A d \in DOMAIN t : /\ t[d] # NoFd => t[d].node \in Node /\ t[d].pos \in Nat
                            /\ t[d].node \in Node => t[d] # NoFd
    BY <1>2, NodeFacts DEF FdType
  <1>4. ASSUME NEW n PROVE IsFiniteSet(RefsOf(t, n)) /\ Cardinality(RefsOf(t, n)) \in Nat
    <2>1. IsFiniteSet(1 .. Len(t))
      BY <1>1, FS_Interval, SMT
    <2>2. RefsOf(t, n) \in SUBSET (1 .. Len(t))
      BY <1>1 DEF RefsOf
    <2> QED
      BY <2>1, <2>2, FS_Subset, FS_CardinalityType
  <1>5. ASSUME NEW d \in DOMAIN t PROVE Cardinality(RefsOf(t, t[d].node)) >= 1
    <2>1. RefsOf(t, t[d].node) # {}
      BY DEF RefsOf
    <2> QED
      BY <1>4, <2>1, FS_EmptySet, SMT
  <1> QED
    BY <1>1, <1>2, <1>3, <1>4, <1>5

One(b) == IF b THEN 1 ELSE 0

\* An entry that is replaced: one reference to its old node less, one to its new
\* node more.
LEMMA ReplacedFacts ==
  ASSUME NEW t \in Seq(FdType), NEW d \in DOMAIN t, NEW f \in FdType
  PROVE  LET u == [t EXCEPT ![d] = f]
         IN  /\ u \in Seq(FdType) /\ Len(u) = Len(t) /\ DOMAIN u = DOMAIN t
             /\ \A n : Cardinality(RefsOf(u, n)) =
                           Cardinality(RefsOf(t, n)) - One(t[d].node = n) + One(f.node = n)
  <1> DEFINE u == [t EXCEPT ![d] = f]
  <1>1. u \in Seq(FdType) /\ Len(u) = Len(t) /\ DOMAIN u = DOMAIN t
    BY ExceptSeq, SMT
  <1>2. ASSUME NEW n
        PROVE  Cardinality(RefsOf(u, n)) =
                   Cardinality(RefsOf(t, n)) - One(t[d].node = n) + One(f.node = n)
    <2>1. IsFiniteSet(RefsOf(t, n)) /\ Cardinality(RefsOf(t, n)) \in Nat
      BY TableFacts
    <2>2. d \in RefsOf(t, n) <=> t[d].node = n
      BY DEF RefsOf
    <2>3. CASE f.node = n
      <3>1. RefsOf(u, n) = RefsOf(t, n) \union {d}
        BY <1>1, <2>3 DEF RefsOf
      <3> HIDE DEF u
      <3>2. Cardinality(RefsOf(u, n)) =
                IF d \in RefsOf(t, n) THEN Cardinality(RefsOf(t, n)) ELSE Cardinality(RefsOf(t, n)) + 1
        BY <2>1, <3>1, FS_AddElement
      <3> QED
        BY <2>1, <2>2, <2>3, <3>2, SMT DEF One
    <2>4. CASE f.node # n
      <3>1. RefsOf(u, n) = RefsOf(t, n) \ {d}
        BY <1>1, <2>4 DEF RefsOf
      <3> HIDE DEF u
      <3>2. Cardinality(RefsOf(u, n)) =
                IF d \in RefsOf(t, n) THEN Cardinality(RefsOf(t, n)) - 1 ELSE Cardinality(RefsOf(t, n))
        BY <2>1, <3>1, FS_RemoveElement
      <3> QED
        BY <2>1, <2>2, <2>4, <3>2, SMT DEF One
    <2> QED
      BY <2>3, <2>4
  <1> QED
    BY <1>1, <1>2

\* An entry that is added: one reference to its node more.
LEMMA AppendedFacts ==
  ASSUME NEW t \in Seq(FdType), NEW f \in FdType
  PROVE  LET u == Append(t, f)
         IN  /\ u \in Seq(FdType) /\ Len(u) = Len(t) + 1 /\ DOMAIN u = 1 .. Len(t) + 1
             /\ \A e \in DOMAIN t : u[e] = t[e]
             /\ u[Len(t) + 1] = f
             /\ \A n : Cardinality(RefsOf(u, n)) = Cardinality(RefsOf(t, n)) + One(f.node = n)
  <1> DEFINE u == Append(t, f)
             k == Len(t) + 1
  <1>1. Len(t) \in Nat /\ DOMAIN t = 1 .. Len(t)
    BY TableFacts
  <1>2. /\ u \in Seq(FdType) /\ Len(u) = k
        /\ \A e \in 1 .. Len(t) : u[e] = t[e]
        /\ u[k] = f
    BY AppendProperties, SMT
  <1>3. DOMAIN u = 1 .. k
    BY <1>2, LenProperties
  <1>4. ASSUME NEW n
        PROVE  Cardinality(RefsOf(u, n)) = Cardinality(RefsOf(t, n)) + One(f.node = n)
    <2>1. IsFiniteSet(RefsOf(t, n)) /\ Cardinality(RefsOf(t, n)) \in Nat
      BY TableFacts
    <2>2. k \notin RefsOf(t, n)
      BY <1>1, SMT DEF RefsOf
    <2>3. \A e \in 1 .. k : e \in 1 .. Len(t) \/ e = k
      BY <1>1, SMT
    <2> HIDE DEF u, k
    <2>4. k \in 1 .. k /\ \A e \in 1 .. Len(t) : e \in 1 .. k
      BY <1>1, SMT DEF k
    <2>5. CASE f.node = n
      <3>1. RefsOf(u, n) = RefsOf(t, n) \union {k}
        BY <1>1, <1>2, <1>3, <2>3, <2>4, <2>5 DEF RefsOf
      <3> QED
        BY <2>1, <2>2, <2>5, <3>1, FS_AddElement, ZenonT(60) DEF One
    <2>6. CASE f.node # n
      <3>1. RefsOf(u, n) = RefsOf(t, n)
        BY <1>1, <1>2, <1>3, <2>3, <2>4, <2>6 DEF RefsOf
      <3> QED
        BY <2>1, <2>6, <3>1, SMT DEF One
    <2> QED
      BY <2>5, <2>6
  <1> QED
    BY <1>1, <1>2, <1>3, <1>4

\* allocate_file_desc: the descriptor gets an entry that was free, behind the
\* standard three, or a new one; no other entry changes.
LEMMA AllocateFacts ==
  ASSUME NEW t \in Seq(FdType), NEW f \in FdType
  PROVE  LET u == Allocate(t, f)
         IN  /\ u \in Seq(FdType) /\ Len(u) \in {Len(t), Len(t) + 1}
             /\ DOMAIN t \subseteq DOMAIN u
             /\ \A d \in DOMAIN u : u[d] = f \/ (d \in DOMAIN t /\ u[d] = t[d])
             /\ \A d \in DOMAIN t : u[d] = t[d] \/ (d > 3 /\ t[d] = NoFd)
             /\ \A n \in Node :
                    Cardinality(RefsOf(u, n)) = Cardinality(RefsOf(t, n)) + One(f.node = n)
  <1> DEFINE u == Allocate(t, f)
             free == {d \in DOMAIN t : t[d] = NoFd /\ d > 3}
  <1>1. Len(t) \in Nat /\ DOMAIN t = 1 .. Len(t)
    BY TableFacts
  <1>2. CASE free = {}
    <2>1. u = Append(t, f)
      BY <1>2 DEF Allocate
    <2>2. /\ u \in Seq(FdType) /\ Len(u) = Len(t) + 1 /\ DOMAIN u = 1 .. Len(t) + 1
          /\ \A e \in DOMAIN t : u[e] = t[e]
          /\ u[Len(t) + 1] = f
          /\ \A n : Cardinality(RefsOf(u, n)) = Cardinality(RefsOf(t, n)) + One(f.node = n)
      BY <2>1, AppendedFacts, SMT
    <2>3. \A d \in 1 .. Len(t) + 1 : d \in DOMAIN t \/ d = Len(t) + 1
      BY <1>1, SMT
    <2>4. DOMAIN t \subseteq 1 .. Len(t) + 1
      BY <1>1, SMT
    <2> HIDE DEF u, free
    <2> QED
      BY <2>2, <2>3, <2>4 DEF u
  <1>3. CASE free # {}
    <2> DEFINE k == CHOOSE d \in free : \A e \in free : d <= e
    <2>1. free \in SUBSET Nat
      BY <1>1, SMT
    <2>2. k \in free
      <3>1. \E d \in free : \A e \in free : d <= e
        <4> HIDE DEF free
        <4> QED
          BY <1>3, <2>1, LeastNat
      <3> QED
        BY <3>1
    <2>3. u = [t EXCEPT ![k] = f]
      BY <1>3 DEF Allocate
    <2> HIDE DEF k
    <2>4. k \in DOMAIN t /\ t[k] = NoFd /\ k > 3
      BY <2>2
    <2> DEFINE v == [t EXCEPT ![k] = f]
    <2>5. /\ v \in Seq(FdType) /\ Len(v) = Len(t) /\ DOMAIN v = DOMAIN t
          /\ \A n : Cardinality(RefsOf(v, n)) =
                        Cardinality(RefsOf(t, n)) - One(t[k].node = n) + One(f.node = n)
      BY <2>4, ReplacedFacts, SMT
    <2>6. \A d \in DOMAIN t : u[d] = IF d = k THEN f ELSE t[d]
      BY <2>3
    <2>7. u = v
      BY <2>3
    <2> HIDE DEF u, v
    <2>8. ASSUME NEW n \in Node
          PROVE  Cardinality(RefsOf(u, n)) = Cardinality(RefsOf(t, n)) + One(f.node = n)
      <3>1. One(t[k].node = n) = 0
        BY <2>4, NodeFacts DEF One
      <3>2. Cardinality(RefsOf(t, n)) \in Nat /\ One(f.node = n) \in Nat
        BY TableFacts DEF One
      <3> QED
        BY <2>5, <2>7, <3>1, <3>2, SMT
    <2>9. u \in Seq(FdType) /\ Len(u) = Len(t) /\ DOMAIN u = DOMAIN t
      BY <2>5, <2>7
    <2> QED
      BY <2>4, <2>6, <2>8, <2>9 DEF u
  <1> QED
    BY <1>2, <1>3

-----------------------------------------------------------------------------
(* The operations on the table, with the nodes                             *)

\* A descriptor of node n, whose position is in the file.
FdOf(f, n) == f \in FdType /\ f.node = n /\ f.pos <= SizeOf(n)

\* A descriptor begins at position 0.
LEMMA NewFd == ASSUME NEW n \in Node PROVE Fd(n, 0) \in FdType /\ FdOf(Fd(n, 0), n)
  BY FilesAssumption, SMT DEF FdOf, Fd, FdType, SizeOf

\* A new descriptor and a handle for it.
LEMMA AllocateTable ==
  ASSUME NEW t, NEW s, NEW l \in [Node -> Nat], TableInv(t, s, l),
         NEW n \in Node, NEW f, FdOf(f, n)
  PROVE  TableInv(Allocate(t, f), Opened(s, n), l)
  <1> DEFINE u == Allocate(t, f)
             o == Opened(s, n)
  <1>0. t \in Seq(FdType) /\ s \in NodesType /\ f \in FdType /\ f.node = n
    BY DEF TableInv, FdOf
  <1>1. /\ u \in Seq(FdType)
        /\ \A d \in DOMAIN u : u[d] = f \/ (d \in DOMAIN t /\ u[d] = t[d])
        /\ \A m \in Node : Cardinality(RefsOf(u, m)) = Cardinality(RefsOf(t, m)) + One(n = m)
    BY <1>0, AllocateFacts, SMT
  <1>2. o \in NodesType /\ o.handles = [s.handles EXCEPT ![n] = @ + 1]
    BY <1>0, OpenedFacts
  <1> HIDE DEF u, o
  <1>3. InFile(u)
    BY <1>1 DEF InFile, TableInv, FdOf
  <1>4. ASSUME NEW m \in Node PROVE o.handles[m] = Cardinality(RefsOf(u, m)) + l[m]
    <2>1. s.handles[m] = Cardinality(RefsOf(t, m)) + l[m]
      BY DEF TableInv, Exact
    <2>2. o.handles[m] = s.handles[m] + One(n = m)
      BY <1>0, <1>2, SMT DEF NodesType, One
    <2>3. Cardinality(RefsOf(t, m)) \in Nat /\ l[m] \in Nat /\ One(n = m) \in Nat
      BY <1>0, TableFacts DEF One
    <2> QED
      BY <1>1, <2>1, <2>2, <2>3, SMT
  <1> QED
    BY <1>1, <1>2, <1>3, <1>4 DEF TableInv, Exact, u, o

\* Closing the node of an entry of the table; a null entry has none.
LEMMA ClosedFdFacts ==
  ASSUME NEW s \in NodesType, NEW f \in FdType, f # NoFd => s.handles[f.node] >= 1
  PROVE  /\ ClosedFd(s, f) \in NodesType
         /\ \A m \in Node : ClosedFd(s, f).handles[m] = s.handles[m] - One(f.node = m)
         /\ \A m : EndsInv(s, m) => EndsInv(ClosedFd(s, f), m)
  <1>1. CASE f = NoFd
    <2>1. ClosedFd(s, f) = s
      BY <1>1 DEF ClosedFd
    <2>2. \A m \in Node : One(f.node = m) = 0 /\ s.handles[m] \in Nat
      BY <1>1, NodeFacts DEF One, NodesType
    <2> QED
      BY <2>1, <2>2, SMT
  <1>2. CASE f # NoFd
    <2>1. ClosedFd(s, f) = Closed(s, f.node) /\ f.node \in Node
      BY <1>2 DEF ClosedFd, FdType
    <2>2. /\ Closed(s, f.node) \in NodesType
          /\ Closed(s, f.node).handles = [s.handles EXCEPT ![f.node] = @ - 1]
      BY <1>2, <2>1, ClosedFacts
    <2>3. \A m \in Node : Closed(s, f.node).handles[m] = s.handles[m] - One(f.node = m)
      BY <2>2, SMT DEF One, NodesType
    <2>4. ASSUME NEW m, EndsInv(s, m) PROVE EndsInv(Closed(s, f.node), m)
      BY <1>2, <2>1, <2>4, ClosedEnds
    <2> QED
      BY <2>1, <2>2, <2>3, <2>4
  <1> QED
    BY <1>1, <1>2

\* An entry is replaced: the new node is opened, the old one closed.
LEMMA ReplaceTable ==
  ASSUME NEW t, NEW s, NEW l \in [Node -> Nat], TableInv(t, s, l),
         NEW d \in DOMAIN t, NEW n \in Node, NEW f, FdOf(f, n)
  PROVE  /\ TableInv([t EXCEPT ![d] = f], ClosedFd(Opened(s, n), t[d]), l)
         /\ \A m : EndsInv(Opened(s, n), m) => EndsInv(ClosedFd(Opened(s, n), t[d]), m)
  <1> DEFINE u == [t EXCEPT ![d] = f]
             o == Opened(s, n)
             c == ClosedFd(o, t[d])
  <1>0. t \in Seq(FdType) /\ s \in NodesType /\ f \in FdType /\ f.node = n /\ t[d] \in FdType
    BY TableFacts DEF TableInv, FdOf
  <1>1. /\ u \in Seq(FdType) /\ DOMAIN u = DOMAIN t
        /\ \A m : Cardinality(RefsOf(u, m)) =
                      Cardinality(RefsOf(t, m)) - One(t[d].node = m) + One(n = m)
    BY <1>0, ReplacedFacts, SMT
  <1>2. o \in NodesType /\ o.handles = [s.handles EXCEPT ![n] = @ + 1]
    BY <1>0, OpenedFacts
  <1>3. \A m \in Node : o.handles[m] = s.handles[m] + One(n = m)
    <2> HIDE DEF o
    <2> QED
      BY <1>0, <1>2, SMT DEF NodesType, One
  <1>4. \A m \in Node : /\ s.handles[m] = Cardinality(RefsOf(t, m)) + l[m]
                        /\ Cardinality(RefsOf(t, m)) \in Nat /\ l[m] \in Nat
    BY <1>0, TableFacts DEF TableInv, Exact
  <1>5. t[d] # NoFd => o.handles[t[d].node] >= 1
    <2> SUFFICES ASSUME t[d] # NoFd PROVE o.handles[t[d].node] >= 1
      OBVIOUS
    <2>1. t[d].node \in Node /\ Cardinality(RefsOf(t, t[d].node)) >= 1
      BY <1>0, TableFacts
    <2>2. One(n = t[d].node) \in Nat
      BY DEF One
    <2> HIDE DEF o
    <2> QED
      BY <1>3, <1>4, <2>1, <2>2, SMT
  <1>6. /\ c \in NodesType
        /\ \A m \in Node : c.handles[m] = o.handles[m] - One(t[d].node = m)
        /\ \A m : EndsInv(o, m) => EndsInv(c, m)
    <2> HIDE DEF o
    <2> QED
      BY <1>0, <1>2, <1>5, ClosedFdFacts
  <1>7. InFile(u)
    BY <1>1 DEF InFile, TableInv, FdOf
  <1> HIDE DEF u, o, c
  <1>8. ASSUME NEW m \in Node PROVE c.handles[m] = Cardinality(RefsOf(u, m)) + l[m]
    <2>1. One(n = m) \in Nat /\ One(t[d].node = m) \in Nat
      BY DEF One
    <2> QED
      BY <1>1, <1>3, <1>4, <1>6, <2>1, SMT
  <1> QED
    BY <1>1, <1>6, <1>7, <1>8 DEF TableInv, Exact, u, o, c

\* An entry is cleared, and its node closed.
LEMMA ClearTable ==
  ASSUME NEW t, NEW s, NEW l \in [Node -> Nat], TableInv(t, s, l), NEW d \in DOMAIN t
  PROVE  /\ TableInv([t EXCEPT ![d] = NoFd], ClosedFd(s, t[d]), l)
         /\ \A m : EndsInv(s, m) => EndsInv(ClosedFd(s, t[d]), m)
  <1> DEFINE u == [t EXCEPT ![d] = NoFd]
             c == ClosedFd(s, t[d])
  <1>0. t \in Seq(FdType) /\ s \in NodesType /\ NoFd \in FdType /\ t[d] \in FdType
    BY TableFacts, NodeFacts DEF TableInv
  <1>1. /\ u \in Seq(FdType) /\ DOMAIN u = DOMAIN t
        /\ \A m : Cardinality(RefsOf(u, m)) =
                      Cardinality(RefsOf(t, m)) - One(t[d].node = m) + One(NoFd.node = m)
    BY <1>0, ReplacedFacts, SMT
  <1>2. \A m \in Node : /\ s.handles[m] = Cardinality(RefsOf(t, m)) + l[m]
                        /\ Cardinality(RefsOf(t, m)) \in Nat /\ l[m] \in Nat
    BY <1>0, TableFacts DEF TableInv, Exact
  <1>3. t[d] # NoFd => s.handles[t[d].node] >= 1
    <2> SUFFICES ASSUME t[d] # NoFd PROVE s.handles[t[d].node] >= 1
      OBVIOUS
    <2>1. t[d].node \in Node /\ Cardinality(RefsOf(t, t[d].node)) >= 1
      BY <1>0, TableFacts
    <2> QED
      BY <1>2, <2>1, SMT
  <1>4. /\ c \in NodesType
        /\ \A m \in Node : c.handles[m] = s.handles[m] - One(t[d].node = m)
        /\ \A m : EndsInv(s, m) => EndsInv(c, m)
    BY <1>0, <1>3, ClosedFdFacts
  <1>5. InFile(u)
    BY <1>1, NodeFacts, SMT DEF InFile, TableInv, SizeOf
  <1> HIDE DEF u, c
  <1>6. ASSUME NEW m \in Node PROVE c.handles[m] = Cardinality(RefsOf(u, m)) + l[m]
    <2>1. One(NoFd.node = m) = 0 /\ One(t[d].node = m) \in Nat
      BY NodeFacts DEF One
    <2> QED
      BY <1>1, <1>2, <1>4, <2>1, SMT
  <1> QED
    BY <1>1, <1>4, <1>5, <1>6 DEF TableInv, Exact, u, c

\* The position of a descriptor moves within the file.
LEMMA MoveTable ==
  ASSUME NEW t, NEW s, NEW l \in [Node -> Nat], TableInv(t, s, l),
         NEW d \in DOMAIN t, NEW f, FdOf(f, t[d].node)
  PROVE  TableInv([t EXCEPT ![d] = f], s, l)
  <1> DEFINE u == [t EXCEPT ![d] = f]
  <1>0. t \in Seq(FdType) /\ f \in FdType /\ f.node = t[d].node
    BY DEF TableInv, FdOf
  <1>1. /\ u \in Seq(FdType) /\ DOMAIN u = DOMAIN t
        /\ \A m : Cardinality(RefsOf(u, m)) =
                      Cardinality(RefsOf(t, m)) - One(t[d].node = m) + One(t[d].node = m)
    BY <1>0, ReplacedFacts, SMT
  <1>2. InFile(u)
    BY <1>1 DEF InFile, TableInv, FdOf
  <1> HIDE DEF u
  <1>3. \A m : Cardinality(RefsOf(u, m)) = Cardinality(RefsOf(t, m))
    <2>1. \A m : Cardinality(RefsOf(t, m)) \in Nat /\ One(t[d].node = m) \in Nat
      BY <1>0, TableFacts DEF One
    <2> QED
      BY <1>1, <2>1, SMT
  <1> QED
    BY <1>1, <1>2, <1>3, ZenonT(60) DEF TableInv, Exact, u

-----------------------------------------------------------------------------
(* The system calls                                                        *)

\* What the invariant says of an entry of the table.
LEMMA EntryFacts ==
  ASSUME IInv
  PROVE  /\ fds \in Seq(FdType) /\ nodes \in NodesType /\ lost \in [Node -> Nat]
         /\ Len(fds) \in Nat /\ DOMAIN fds = 1 .. Len(fds)
         /\ \A d \in DOMAIN fds : fds[d] \in FdType
         /\ \A d \in DOMAIN fds : fds[d] # NoFd =>
                /\ fds[d].node \in Node
                /\ FdOf(fds[d], fds[d].node)
                /\ nodes.handles[fds[d].node] >= 1
                /\ EndsInv(Opened(nodes, fds[d].node), made)
  <1>1. /\ fds \in Seq(FdType) /\ nodes \in NodesType /\ lost \in [Node -> Nat]
        /\ Exact(fds, nodes, lost) /\ InFile(fds) /\ EndsInv(nodes, made)
    BY SMT DEF IInv, TableInv, RestOK
  <1>2. Len(fds) \in Nat /\ DOMAIN fds = 1 .. Len(fds)
    BY <1>1, TableFacts
  <1>3. ASSUME NEW d \in DOMAIN fds PROVE fds[d] \in FdType
    BY <1>1, TableFacts
  <1>4. ASSUME NEW d \in DOMAIN fds, fds[d] # NoFd
        PROVE  /\ fds[d].node \in Node
               /\ FdOf(fds[d], fds[d].node)
               /\ nodes.handles[fds[d].node] >= 1
               /\ EndsInv(Opened(nodes, fds[d].node), made)
    <2> DEFINE n == fds[d].node
    <2>1. n \in Node /\ Cardinality(RefsOf(fds, n)) \in Nat /\ Cardinality(RefsOf(fds, n)) >= 1
      BY <1>1, <1>4, TableFacts
    <2>2. FdOf(fds[d], n)
      BY <1>1, <1>3 DEF FdOf, InFile
    <2>3. nodes.handles[n] = Cardinality(RefsOf(fds, n)) + lost[n] /\ lost[n] \in Nat
      BY <1>1, <2>1 DEF Exact
    <2>4. nodes.handles[n] >= 1
      <3> HIDE DEF n
      <3> QED
        BY <2>1, <2>3, SMT
    <2>5. EndsInv(Opened(nodes, n), made)
      BY <1>1, <2>1, <2>4, OpenedEnds
    <2> QED
      BY <2>1, <2>2, <2>4, <2>5
  <1> QED
    BY <1>1, <1>2, <1>3, <1>4

\* A call that adds a descriptor keeps the bound of the table.
LEMMA AllocateLen ==
  ASSUME IInv, phase \in {"run", "grant"}, Len(fds) + 1 <= MaxFds, NEW f \in FdType,
         fds' = Allocate(fds, f), phase' = "run"
  PROVE  PhaseInv'
  <1>1. Len(fds) \in Nat /\ Len(fds') \in {Len(fds), Len(fds) + 1}
    BY EntryFacts, AllocateFacts
  <1>2. Len(fds) >= 3
    BY DEF IInv, PhaseInv
  <1> QED
    BY <1>1, <1>2, FilesAssumption, SMT DEF PhaseInv

\* A process starts with the three standard descriptors.
LEMMA InitIInv == Init => IInv
  <1> SUFFICES ASSUME Init PROVE IInv
    OBVIOUS
  <1>1. PICK in \in {NoFd, Fd(Dev, 0)}, out \in {NoFd, Fd(Dev, 0)} : fds = <<in, out, out>>
    BY SMT DEF Init
  <1>2. Fd(Dev, 0) \in FdType /\ in \in FdType /\ out \in FdType
    BY NodeFacts, SMT DEF FdType, Fd
  <1>3. fds \in Seq(FdType) /\ Len(fds) = 3
    BY <1>1, <1>2, SMT
  <1>4. \A n \in Node : Cardinality(RefsOf(fds, n)) \in Nat /\ Count(n) = Cardinality(RefsOf(fds, n))
    BY <1>3, TableFacts DEF Count, RefsOf
  <1>5. RestOK
    BY FilesAssumption, SMT DEF Init, RestOK
  <1>6. PhaseInv
    BY <1>3, FilesAssumption, SMT DEF Init, PhaseInv
  <1>7. nodes.handles = [n \in Node |-> Count(n)] /\ nodes.deleted = {} /\ nodes.widowed = {}
        /\ nodes \in NodesType
    BY <1>4 DEF Init, NodesType
  <1>8. Exact(fds, nodes, lost)
    BY <1>4, <1>7, SMT DEF Init, Exact
  <1>9. \A d \in 1 .. 3 : fds[d] \in {NoFd, Fd(Dev, 0)}
    BY <1>1, SMT
  <1>10. InFile(fds)
    BY <1>3, <1>9, TableFacts, SMT DEF InFile, NoFd, Fd, SizeOf, Dev, File
  <1>11. EndsInv(nodes, made)
    <2> SUFFICES ASSUME NEW e \in End PROVE Count(e) = 0
      BY <1>7, NodeFacts DEF EndsInv, Init
    <2>1. RefsOf(fds, e) = {}
      BY <1>3, <1>9, NodeFacts, TableFacts, SMT DEF RefsOf, Fd
    <2> QED
      BY <1>4, <2>1, FS_EmptySet, NodeFacts
  <1> QED
    BY <1>3, <1>5, <1>6, <1>7, <1>8, <1>10, <1>11 DEF IInv, TableInv

\* The calls that do not touch the table or the nodes.
LEMMA SameTable ==
  ASSUME IInv, UNCHANGED <<fds, nodes, lost>>, RestOK', EndsInv(nodes, made)', PhaseInv'
  PROVE  IInv'
  BY DEF IInv

\* The calls that add a descriptor.
LEMMA NextAllocate ==
  ASSUME IInv, SysOpen \/ (\E s \in DOMAIN fds : SysDup(s)) \/ GrantController PROVE IInv'
  <1>0. /\ TableInv(fds, nodes, lost) /\ EndsInv(nodes, made) /\ lost \in [Node -> Nat]
        /\ nodes \in NodesType
    BY EntryFacts DEF IInv
  <1>1. CASE SysOpen
    <2>1. PICK n \in {Dev, File}, append \in BOOLEAN :
              /\ phase = "run" /\ HasRoom(1)
              /\ fds' = Allocate(fds, Fd(n, IF append THEN SizeOf(n) ELSE 0))
              /\ nodes' = Opened(nodes, n)
              /\ UNCHANGED <<bytes, made, phase, at, pty, lost>>
      BY <1>1 DEF SysOpen
    <2> DEFINE f == Fd(n, IF append THEN SizeOf(n) ELSE 0)
    <2>2. n \in Node \ End /\ FdOf(f, n) /\ f \in FdType
      BY NodeFacts, FilesAssumption, SMT DEF FdOf, Fd, FdType, SizeOf
    <2> HIDE DEF f
    <2>3. TableInv(fds', nodes', lost')
      BY <1>0, <2>1, <2>2, AllocateTable DEF f
    <2>4. EndsInv(nodes', made')
      BY <1>0, <2>1, <2>2, OpenedEnds
    <2>5. PhaseInv'
      BY <2>1, <2>2, AllocateLen DEF HasRoom, f
    <2> QED
      BY <2>1, <2>3, <2>4, <2>5 DEF IInv, RestOK
  <1>2. ASSUME NEW s \in DOMAIN fds, SysDup(s) PROVE IInv'
    <2>1. fds[s] \in FdType /\ fds[s].node \in Node /\ FdOf(fds[s], fds[s].node)
          /\ EndsInv(Opened(nodes, fds[s].node), made)
      BY <1>2, EntryFacts DEF SysDup, Open
    <2>2. TableInv(fds', nodes', lost')
      BY <1>0, <1>2, <2>1, AllocateTable DEF SysDup
    <2>3. PhaseInv'
      BY <1>2, <2>1, AllocateLen DEF SysDup, HasRoom
    <2> QED
      BY <1>2, <2>1, <2>2, <2>3 DEF SysDup, IInv, RestOK
  <1>3. CASE GrantController
    <2> DEFINE n == <<"controller", pty>>
               f == Fd(n, 0)
    <2>1. n \in Node \ End /\ FdOf(f, n) /\ f \in FdType
      <3>1. pty \in Pty
        BY <1>3 DEF GrantController, IInv, PhaseInv
      <3>2. n \in Node \ End
        BY <3>1, NodeFacts
      <3> QED
        BY <3>2, NewFd
    <2>2. fds' = Allocate(fds, f) /\ nodes' = Opened(nodes, n) /\ lost' = lost /\ made' = made
      BY <1>3 DEF GrantController
    <2> HIDE DEF f, n
    <2>3. TableInv(fds', nodes', lost')
      BY <1>0, <2>1, <2>2, AllocateTable
    <2>4. EndsInv(nodes', made')
      BY <1>0, <2>1, <2>2, OpenedEnds
    <2>5. PhaseInv'
      BY <1>3, <2>1, <2>2, AllocateLen DEF GrantController, IInv, PhaseInv
    <2>6. RestOK'
      BY <1>3, FilesAssumption, SMT DEF GrantController, IInv, RestOK
    <2> QED
      BY <2>3, <2>4, <2>5, <2>6 DEF IInv
  <1> QED
    BY <1>1, <1>2, <1>3

\* A thread that has closed a node goes on, or is in a process that is corrupt.
LEMMA AfterCloseFacts ==
  ASSUME NEW f, NEW next, AfterClose(f, next) PROVE phase' \in {next, "corrupt"}
  BY DEF AfterClose

\* The calls that close or replace an entry.
LEMMA NextReplace ==
  ASSUME IInv,
         (\E d \in DOMAIN fds : SysClose(d)) \/ (\E s, d \in DOMAIN fds : SysDupTo(s, d))
             \/ GrantReplace \/ ExitClose
  PROVE  IInv'
  <1>0. /\ TableInv(fds, nodes, lost) /\ EndsInv(nodes, made) /\ lost \in [Node -> Nat]
        /\ fds \in Seq(FdType) /\ Len(fds) \in Nat /\ DOMAIN fds = 1 .. Len(fds)
        /\ nodes \in NodesType /\ NoFd \in FdType
    BY EntryFacts, NodeFacts DEF IInv
  <1>1. ASSUME NEW d \in DOMAIN fds, NEW f \in FdType, fds' = [fds EXCEPT ![d] = f]
        PROVE  Len(fds') = Len(fds) /\ DOMAIN fds' = DOMAIN fds
    BY <1>0, <1>1, ReplacedFacts, SMT
  <1>2. ASSUME NEW d \in DOMAIN fds, SysClose(d) PROVE IInv'
    <2>1. nodes' = ClosedFd(nodes, fds[d]) /\ fds' = [fds EXCEPT ![d] = NoFd]
      BY <1>2 DEF SysClose, Open, ClosedFd
    <2>2. TableInv(fds', nodes', lost) /\ EndsInv(nodes', made)
      BY <1>0, <2>1, ClearTable
    <2>3. Len(fds') = Len(fds) /\ phase' \in {"run", "corrupt"}
      BY <1>0, <1>1, <1>2, <2>1, AfterCloseFacts DEF SysClose
    <2> QED
      BY <1>2, <2>2, <2>3 DEF SysClose, IInv, RestOK, PhaseInv
  <1>3. ASSUME NEW s \in DOMAIN fds, NEW d \in DOMAIN fds, SysDupTo(s, d) PROVE IInv'
    <2>1. fds[s] \in FdType /\ fds[s].node \in Node /\ FdOf(fds[s], fds[s].node)
          /\ EndsInv(Opened(nodes, fds[s].node), made)
      BY <1>3, EntryFacts DEF SysDupTo, Open
    <2>2. TableInv(fds', nodes', lost) /\ EndsInv(nodes', made)
      BY <1>0, <1>3, <2>1, ReplaceTable DEF SysDupTo
    <2>3. Len(fds') = Len(fds) /\ phase' \in {"run", "corrupt"}
      BY <1>1, <1>3, <2>1, AfterCloseFacts DEF SysDupTo
    <2> QED
      BY <1>3, <2>2, <2>3 DEF SysDupTo, IInv, RestOK, PhaseInv
  <1>4. CASE GrantReplace
    <2> DEFINE n == <<"worker", pty>>
               f == Fd(n, 0)
    <2>1. n \in Node \ End /\ FdOf(f, n) /\ f \in FdType
      <3>1. pty \in Pty
        BY <1>4 DEF GrantReplace, IInv, PhaseInv
      <3>2. n \in Node \ End
        BY <3>1, NodeFacts
      <3> QED
        BY <3>2, NewFd
    <2>2. at \in DOMAIN fds /\ at' = at + 1 /\ at' \in 1 .. MaxFds + 1
      BY <1>0, <1>4, FilesAssumption, SMT DEF GrantReplace, IInv, PhaseInv, RestOK
    <2>3. /\ nodes' = ClosedFd(Opened(nodes, n), fds[at])
          /\ fds' = [fds EXCEPT ![at] = f]
          /\ phase' \in {"grant", "corrupt"}
          /\ UNCHANGED <<bytes, made, pty, lost>>
      BY <1>4, AfterCloseFacts DEF GrantReplace
    <2> HIDE DEF f, n
    <2>4. EndsInv(Opened(nodes, n), made)
      BY <1>0, <2>1, OpenedEnds
    <2>5. TableInv(fds', nodes', lost) /\ EndsInv(nodes', made)
      BY <1>0, <2>1, <2>2, <2>3, <2>4, ReplaceTable
    <2>6. Len(fds') = Len(fds)
      BY <1>1, <2>1, <2>2, <2>3
    <2> QED
      BY <1>4, <2>2, <2>3, <2>5, <2>6 DEF GrantReplace, IInv, RestOK, PhaseInv
  <1>5. CASE ExitClose
    <2>1. at \in DOMAIN fds /\ at' = at + 1 /\ at' \in 1 .. MaxFds + 1
      BY <1>0, <1>5, FilesAssumption, SMT DEF ExitClose, IInv, PhaseInv, RestOK
    <2>2. /\ nodes' = ClosedFd(nodes, fds[at])
          /\ fds' = [fds EXCEPT ![at] = NoFd]
          /\ phase' \in {"exit", "corrupt"}
          /\ UNCHANGED <<bytes, made, pty, lost>>
      BY <1>5, AfterCloseFacts DEF ExitClose
    <2>3. TableInv(fds', nodes', lost) /\ EndsInv(nodes', made)
      BY <1>0, <2>1, <2>2, ClearTable
    <2>4. Len(fds') = Len(fds) /\ DOMAIN fds' = DOMAIN fds
      BY <1>0, <1>1, <2>1, <2>2
    <2>5. \A d \in DOMAIN fds : d < at + 1 => fds'[d] = NoFd
      <3>1. \A d \in DOMAIN fds : d < at => fds[d] = NoFd
        BY <1>5 DEF ExitClose, IInv, PhaseInv
      <3>2. \A d \in DOMAIN fds : d < at + 1 => d < at \/ d = at
        BY <1>0, <2>1, SMT
      <3> QED
        BY <2>1, <2>2, <3>1, <3>2
    <2>6. PhaseInv'
      BY <1>5, <2>1, <2>2, <2>4, <2>5 DEF ExitClose, IInv, PhaseInv
    <2> QED
      BY <2>1, <2>2, <2>3, <2>6 DEF IInv, RestOK
  <1> QED
    BY <1>2, <1>3, <1>4, <1>5

\* sys_pipe: two ends that were never opened get a handle and a descriptor each.
LEMMA NextPipe == ASSUME IInv, NEW p \in Pipe, SysPipe(p) PROVE IInv'
  <1> DEFINE r == <<"read", p>>
             w == <<"write", p>>
             o == Opened(nodes, r)
             u == Allocate(fds, Fd(r, 0))
  <1>0. /\ TableInv(fds, nodes, lost) /\ EndsInv(nodes, made) /\ lost \in [Node -> Nat]
        /\ fds \in Seq(FdType) /\ Len(fds) \in Nat /\ nodes \in NodesType
    BY EntryFacts DEF IInv
  <1>1. r \in End /\ w \in End /\ r \in Node /\ w \in Node /\ r # w
    BY NodeFacts
  <1>2. /\ fds' = Allocate(u, Fd(w, 0)) /\ nodes' = Opened(o, w)
        /\ phase = "run" /\ Len(fds) + 2 <= MaxFds /\ p \notin made /\ made' = made \union {p}
        /\ UNCHANGED <<bytes, phase, at, pty, lost>>
    BY DEF SysPipe, HasRoom
  <1>3. \A e \in End : e[2] = p <=> e \in {r, w}
    BY NodeFacts, SMT
  <1> HIDE DEF r, w
  <1>4. /\ Fd(r, 0) \in FdType /\ FdOf(Fd(r, 0), r)
        /\ Fd(w, 0) \in FdType /\ FdOf(Fd(w, 0), w)
    BY <1>1, NewFd
  <1>5. TableInv(u, o, lost)
    BY <1>0, <1>1, <1>4, AllocateTable
  <1>6. TableInv(fds', nodes', lost)
    <2> HIDE DEF u, o
    <2> QED
      BY <1>0, <1>1, <1>2, <1>4, <1>5, AllocateTable
  <1>7. EndsInv(nodes', made')
    <2>1. /\ o \in NodesType /\ o.handles = [nodes.handles EXCEPT ![r] = @ + 1]
          /\ o.deleted = nodes.deleted /\ o.widowed = nodes.widowed
      BY <1>0, <1>1, OpenedFacts
    <2> HIDE DEF o
    <2>2. /\ nodes'.handles = [o.handles EXCEPT ![w] = @ + 1]
          /\ nodes'.deleted = nodes.deleted /\ nodes'.widowed = nodes.widowed
      BY <1>1, <1>2, <2>1, OpenedFacts
    <2>3. nodes.handles \in [Node -> Nat] /\ End \subseteq Node
      BY <1>0, NodeFacts DEF NodesType
    <2>4. \A e \in End \ {r, w} : nodes'.handles[e] = nodes.handles[e]
      BY <1>1, <2>1, <2>2, <2>3
    <2>5. nodes'.handles[r] # 0 /\ nodes'.handles[w] # 0
      BY <1>1, <2>1, <2>2, <2>3, SMT
    <2>6. \A e \in End : e[2] \in made' <=> e[2] \in made \/ e \in {r, w}
      BY <1>2, <1>3
    <2>7. \A e \in {r, w} : e \notin nodes.deleted /\ e \notin nodes.widowed /\ Peer(e) \notin nodes.deleted
      BY <1>0, <1>1, <1>2, <1>3, NodeFacts, SMT DEF EndsInv
    <2>8. \A e \in End : e[2] \in made => e \notin {r, w}
      BY <1>2, <1>3
    <2> SUFFICES ASSUME NEW e \in End
                 PROVE  /\ e[2] \notin made' => nodes'.handles[e] = 0 /\ e \notin nodes'.deleted
                                                    /\ e \notin nodes'.widowed
                        /\ e[2] \in made' => (e \in nodes'.deleted <=> nodes'.handles[e] = 0)
                        /\ e[2] \in made' /\ e \notin nodes'.deleted =>
                               (e \in nodes'.widowed <=> Peer(e) \in nodes'.deleted)
      BY DEF EndsInv
    <2>9. CASE e \in {r, w}
      BY <2>2, <2>5, <2>6, <2>7, <2>9
    <2>10. CASE e \notin {r, w}
      BY <1>0, <2>2, <2>4, <2>6, <2>8, <2>10 DEF EndsInv
    <2> QED
      BY <2>9, <2>10
  <1>8. PhaseInv'
    <2>1. u \in Seq(FdType) /\ Len(u) \in {Len(fds), Len(fds) + 1}
      BY <1>0, <1>4, AllocateFacts
    <2> HIDE DEF u
    <2>2. Len(fds') \in {Len(u), Len(u) + 1}
      BY <1>2, <1>4, <2>1, AllocateFacts
    <2>3. Len(fds) >= 3
      BY <1>2 DEF IInv, PhaseInv
    <2> QED
      BY <1>0, <1>2, <2>1, <2>2, <2>3, FilesAssumption, SMT DEF PhaseInv
  <1>9. RestOK'
    BY <1>2 DEF IInv, RestOK
  <1> QED
    BY <1>2, <1>6, <1>7, <1>8, <1>9 DEF IInv

\* sys_seek leaves the position in the file.
LEMMA SeekInFile ==
  ASSUME NEW q \in Nat, q <= FileSize, NEW off \in 0 .. Word - 1, NEW whence \in {"set", "cur", "end"}
  PROVE  LET r == SeekResult(q, off, whence, FileSize) IN r \in Nat /\ r <= FileSize
  <1>1. (off + q) % Word \in Nat
    BY FilesAssumption, SMT
  <1> QED
    BY <1>1, FilesAssumption, SMT DEF SeekResult

\* The calls that keep every node and its handles, but for the one that sys_dup
\* drops.
LEMMA NextOther ==
  ASSUME IInv,
         \/ SysCloseBehind \/ ReadPipeReturns \/ SysExit \/ ExitDone
         \/ \E t \in Pty : SysGrantPty(t)
         \/ \E d \in DOMAIN fds : SysDupRefused(d) \/ SysReadFile(d) \/ SysSeek(d)
         \/ \E d \in DOMAIN fds, p \in Pipe : SysWritePipe(d, p) \/ SysReadPipe(d, p)
  PROVE  IInv'
  <1>0. /\ TableInv(fds, nodes, lost) /\ EndsInv(nodes, made) /\ lost \in [Node -> Nat]
        /\ fds \in Seq(FdType) /\ Len(fds) \in Nat /\ DOMAIN fds = 1 .. Len(fds)
        /\ nodes \in NodesType
        /\ \A d \in DOMAIN fds : fds[d] \in FdType
    BY EntryFacts DEF IInv
  <1>1. CASE SysCloseBehind
    BY <1>1, SameTable DEF SysCloseBehind, IInv, RestOK, PhaseInv
  <1>2. CASE ReadPipeReturns
    BY <1>2, SameTable DEF ReadPipeReturns, IInv, RestOK, PhaseInv
  <1>3. CASE SysExit
    <2>1. RestOK' /\ PhaseInv'
      BY <1>0, <1>3, FilesAssumption, SMT DEF SysExit, IInv, RestOK, PhaseInv
    <2> QED
      BY <1>0, <1>3, <2>1, SameTable DEF SysExit
  <1>4. CASE ExitDone
    <2>1. fds' = <<>> /\ fds' \in Seq(FdType) /\ Len(fds') = 0 /\ DOMAIN fds' = {}
      BY <1>4, EmptySeq, LenProperties, SMT DEF ExitDone
    <2>2. \A d \in DOMAIN fds : fds[d] = NoFd
      BY <1>0, <1>4, SMT DEF ExitDone, IInv, PhaseInv, RestOK
    <2>3. \A n \in Node : RefsOf(fds, n) = {} /\ RefsOf(fds', n) = {}
      BY <2>1, <2>2, NodeFacts, SMT DEF RefsOf
    <2>4. TableInv(fds', nodes, lost)
      BY <1>0, <2>1, <2>3 DEF TableInv, Exact, InFile
    <2>5. RestOK' /\ PhaseInv'
      BY <1>4, <2>1, FilesAssumption, SMT DEF ExitDone, IInv, RestOK, PhaseInv
    <2> QED
      BY <1>0, <1>4, <2>4, <2>5 DEF ExitDone, IInv
  <1>5. ASSUME NEW t \in Pty, SysGrantPty(t) PROVE IInv'
    <2>1. RestOK' /\ PhaseInv'
      <3>1. 1 \in 1 .. MaxFds + 1 /\ Len(fds) + 1 <= MaxFds
        BY <1>5, FilesAssumption, SMT DEF SysGrantPty, HasRoom
      <3>2. RestOK'
        BY <1>0, <1>5, <3>1 DEF SysGrantPty, IInv, RestOK
      <3>3. PhaseInv'
        BY <1>0, <1>5, <3>1 DEF SysGrantPty, IInv, PhaseInv
      <3> QED
        BY <3>2, <3>3
    <2>2. \A e \in End : e[2] \in made' <=> e[2] \in made
      BY <1>5, NodeFacts, FilesAssumption, SMT DEF SysGrantPty
    <2>3. EndsInv(nodes, made)'
      BY <1>0, <1>5, <2>2 DEF SysGrantPty, EndsInv
    <2> QED
      BY <1>5, <2>1, <2>3, SameTable DEF SysGrantPty
  <1>6. ASSUME NEW d \in DOMAIN fds, SysDupRefused(d) PROVE IInv'
    <2> DEFINE n == fds[d].node
    <2>1. n \in Node /\ EndsInv(Opened(nodes, n), made)
      BY <1>6, EntryFacts DEF SysDupRefused, Open
    <2>2. /\ nodes' \in NodesType
          /\ nodes'.handles = [nodes.handles EXCEPT ![n] = @ + 1]
      BY <1>0, <1>6, <2>1, OpenedFacts DEF SysDupRefused
    <2>3. /\ lost' = [lost EXCEPT ![n] = @ + 1] /\ lost[n] = 0
          /\ UNCHANGED <<fds, bytes, made, phase, at, pty>>
      BY <1>6 DEF SysDupRefused
    <2>4. EndsInv(nodes', made')
      BY <1>6, <2>1, <2>3 DEF SysDupRefused
    <2> HIDE DEF n
    <2>5. RestOK' /\ PhaseInv'
      BY <2>1, <2>3, SMT DEF IInv, RestOK, PhaseInv
    <2>6. ASSUME NEW m \in Node
          PROVE  nodes'.handles[m] = Cardinality(RefsOf(fds, m)) + lost'[m]
      <3>1. nodes.handles[m] = Cardinality(RefsOf(fds, m)) + lost[m]
        BY <1>0 DEF TableInv, Exact
      <3>2. Cardinality(RefsOf(fds, m)) \in Nat /\ lost[m] \in Nat /\ nodes.handles \in [Node -> Nat]
        BY <1>0, TableFacts DEF NodesType
      <3>3. lost \in [Node -> Nat]
        BY <1>0
      <3>4. CASE m = n
        <4>1. nodes'.handles[m] = nodes.handles[m] + 1
          BY <2>2, <3>2, <3>4
        <4>2. lost'[m] = lost[m] + 1
          BY <2>3, <3>3, <3>4
        <4> QED
          BY <3>1, <3>2, <4>1, <4>2, SMT
      <3>5. CASE m # n
        <4>1. nodes'.handles[m] = nodes.handles[m]
          BY <2>2, <3>2, <3>5
        <4>2. lost'[m] = lost[m]
          BY <2>3, <3>3, <3>5
        <4> QED
          BY <3>1, <4>1, <4>2
      <3> QED
        BY <3>4, <3>5
    <2>7. TableInv(fds', nodes', lost')
      BY <1>0, <2>2, <2>3, <2>6 DEF TableInv, Exact
    <2> QED
      BY <2>4, <2>5, <2>7 DEF IInv
  <1>7. ASSUME NEW d \in DOMAIN fds, NEW f, FdOf(f, fds[d].node), phase = "run",
               fds' = [fds EXCEPT ![d] = f], UNCHANGED <<nodes, bytes, made, phase, at, pty, lost>>
        PROVE  IInv'
    <2>1. TableInv(fds', nodes, lost)
      BY <1>0, <1>7, MoveTable
    <2>2. Len(fds') = Len(fds)
      BY <1>0, <1>7, ReplacedFacts, SMT DEF FdOf
    <2>3. RestOK' /\ PhaseInv'
      BY <1>7, <2>2 DEF IInv, RestOK, PhaseInv
    <2> QED
      BY <1>0, <1>7, <2>1, <2>3 DEF IInv
  <1>8. ASSUME NEW d \in DOMAIN fds, SysReadFile(d) PROVE IInv'
    <2>1. PICK n \in 1 .. FileSize - fds[d].pos : fds' = [fds EXCEPT ![d] = ReadOf(fds[d], n)]
      BY <1>8 DEF SysReadFile
    <2>2. fds[d].node = File /\ fds[d].pos \in Nat
      BY <1>0, <1>8, TableFacts DEF SysReadFile, Open
    <2>3. FdOf(ReadOf(fds[d], n), fds[d].node)
      BY <2>2, NodeFacts, FilesAssumption, SMT DEF FdOf, ReadOf, Fd, FdType, SizeOf
    <2> QED
      BY <1>7, <1>8, <2>1, <2>3 DEF SysReadFile
  <1>9. ASSUME NEW d \in DOMAIN fds, SysSeek(d) PROVE IInv'
    <2>1. PICK off \in 0 .. Word - 1, whence \in {"set", "cur", "end"} :
              fds' = [fds EXCEPT ![d] = Fd(File, SeekResult(fds[d].pos, off, whence, FileSize))]
      BY <1>9 DEF SysSeek
    <2>2. fds[d].node = File /\ fds[d].pos \in Nat /\ fds[d].pos <= FileSize
      BY <1>0, <1>9, TableFacts DEF SysSeek, Open, TableInv, InFile, SizeOf
    <2>3. FdOf(Fd(File, SeekResult(fds[d].pos, off, whence, FileSize)), fds[d].node)
      BY <2>2, NodeFacts, SeekInFile DEF FdOf, Fd, FdType, SizeOf
    <2> QED
      BY <1>7, <1>9, <2>1, <2>3 DEF SysSeek
  <1>10. ASSUME NEW d \in DOMAIN fds, NEW p \in Pipe, SysWritePipe(d, p) PROVE IInv'
    <2>1. RestOK'
      BY <1>10, FilesAssumption, SMT DEF SysWritePipe, WriteOf, IInv, RestOK
    <2>2. PhaseInv'
      BY <1>10 DEF SysWritePipe, IInv, PhaseInv
    <2> QED
      BY <1>0, <1>10, <2>1, <2>2, SameTable, ZenonT(60) DEF SysWritePipe
  <1>11. ASSUME NEW d \in DOMAIN fds, NEW p \in Pipe, SysReadPipe(d, p) PROVE IInv'
    <2>1. RestOK'
      <3>1. MaxBytes \in Nat /\ bytes \in [Pipe -> 0 .. MaxBytes]
        BY FilesAssumption DEF IInv, RestOK
      <3>2. bytes' \in [Pipe -> 0 .. MaxBytes]
        <4>1. CASE bytes' = bytes
          BY <3>1, <4>1
        <4>2. CASE \E n \in 1 .. bytes[p] : bytes' = [bytes EXCEPT ![p] = @ - n]
          <5>1. PICK n \in 1 .. bytes[p] : bytes' = [bytes EXCEPT ![p] = bytes[p] - n]
            BY <4>2
          <5>2. bytes[p] \in 0 .. MaxBytes /\ bytes[p] - n \in 0 .. MaxBytes
            BY <1>11, <3>1, <5>1, SMT
          <5> QED
            BY <3>1, <5>1, <5>2
        <4> QED
          BY <1>11, <4>1, <4>2 DEF SysReadPipe
      <3>3. phase' \in {"run", "blocked"} /\ UNCHANGED <<made, at, lost>>
        BY <1>11 DEF SysReadPipe
      <3> QED
        BY <3>2, <3>3 DEF IInv, RestOK
    <2>2. PhaseInv'
      BY <1>11 DEF SysReadPipe, IInv, PhaseInv
    <2> QED
      BY <1>0, <1>11, <2>1, <2>2, SameTable DEF SysReadPipe
  <1> QED
    BY <1>1, <1>2, <1>3, <1>4, <1>5, <1>6, <1>8, <1>9, <1>10, <1>11

\* Every system call keeps the invariant.
LEMMA NextIInv == IInv /\ [Next]_vars => IInv'
  <1> SUFFICES ASSUME IInv, [Next]_vars PROVE IInv'
    OBVIOUS
  <1>1. CASE UNCHANGED vars
    <2>1. RestOK' /\ EndsInv(nodes, made)' /\ PhaseInv'
      BY <1>1 DEF vars, IInv, RestOK, EndsInv, PhaseInv
    <2> QED
      BY <1>1, <2>1, SameTable DEF vars
  <1>2. CASE \E d \in DOMAIN fds : OnDescriptor(d)
    BY <1>2, NextAllocate, NextReplace, NextOther DEF OnDescriptor
  <1>3. CASE \E p \in Pipe : SysPipe(p)
    BY <1>3, NextPipe
  <1>4. CASE SysOpen \/ GrantController
    BY <1>4, NextAllocate
  <1>5. CASE GrantReplace \/ ExitClose
    BY <1>5, NextReplace
  <1>6. CASE \/ SysCloseBehind \/ ReadPipeReturns \/ SysExit \/ ExitDone
             \/ \E t \in Pty : SysGrantPty(t)
    BY <1>6, NextOther
  <1> QED
    BY <1>1, <1>2, <1>3, <1>4, <1>5, <1>6 DEF Next

-----------------------------------------------------------------------------
(* The theorems                                                            *)

\* The counts of handles, the positions and the ends of the pipes are right after
\* every call, and while a call that takes several steps is under way.
THEOREM IInvHolds == Spec => []IInv
  BY InitIInv, NextIInv, PTL DEF Spec

\* Whatever descriptors a process opens, copies, replaces and closes,
\* _handle_count of every node is the number of its descriptors and of the handles
\* that a refused sys_dup dropped; sys_read and sys_seek keep the positions of the
\* file in the file.
THEOREM ExactDescriptors == Spec => []DescriptorsExact
  <1>1. IInv => DescriptorsExact
    <2> SUFFICES ASSUME IInv PROVE DescriptorsExact
      OBVIOUS
    <2>1. TypeOK
      BY DEF IInv, TypeOK, RestOK, TableInv, FdType, NodesType
    <2>2. HandlesExact
      BY DEF IInv, HandlesExact, TableInv, Exact, Count, RefsOf
    <2>3. PosInFile
      BY DEF IInv, PosInFile, TableInv, InFile
    <2> QED
      BY <2>1, <2>2, <2>3 DEF DescriptorsExact
  <1> QED
    BY <1>1, IInvHolds, PTL

\* unix_pipe::close deletes an end with the last of its handles, and an end that is
\* left has _widowed set exactly when its peer is gone, so that a reader sees the
\* end of the file and a writer does not use _other_end.
THEOREM ExactPipeEnds == Spec => []PipeEndsExact
  <1>1. IInv => PipeEndsExact
    <2> SUFFICES ASSUME IInv PROVE PipeEndsExact
      OBVIOUS
    <2>1. EndsInv(nodes, made) /\ Exact(fds, nodes, lost) /\ fds \in Seq(FdType)
          /\ lost \in [Node -> 0 .. 1]
      BY DEF IInv, TableInv, RestOK
    <2>2. \A n \in Node : nodes.handles[n] = Count(n) + lost[n] /\ Count(n) \in Nat /\ lost[n] \in Nat
      <3>1. \A n \in Node : Count(n) = Cardinality(RefsOf(fds, n)) /\ Cardinality(RefsOf(fds, n)) \in Nat
        BY <2>1, TableFacts DEF Count, RefsOf
      <3> QED
        BY <2>1, <3>1, SMT DEF Exact
    <2>3. \A e \in End : nodes.handles[e] = 0 <=> Count(e) = 0 /\ lost[e] = 0
      BY <2>2, NodeFacts, SMT
    <2>4. PipeEndLifetime
      BY <2>1, <2>3 DEF PipeEndLifetime, EndsInv
    <2>5. WidowedExact
      BY <2>1 DEF WidowedExact, EndsInv
    <2> QED
      BY <2>4, <2>5 DEF PipeEndsExact
  <1> QED
    BY <1>1, IInvHolds, PTL

\* What a step may do to an entry of the table.
StableStep ==
    \A d \in DOMAIN fds \intersect DOMAIN fds' :
        \/ fds'[d].node = fds[d].node
        \/ fds'[d] = NoFd
        \/ phase = "grant" /\ at = d
        \/ d > 3 /\ fds[d] = NoFd
        \/ \E s \in DOMAIN fds : SysDupTo(s, d)

\* allocate_file_desc, replace_file_desc, destroy_file_desc and sys_seek change the
\* entry they are for and no other.
LEMMA NextStable == ASSUME IInv, Next PROVE StableStep
  <1>0. /\ fds \in Seq(FdType) /\ NoFd \in FdType
        /\ \A d \in DOMAIN fds : fds[d] \in FdType
    BY EntryFacts, NodeFacts
  <1>1. ASSUME NEW f \in FdType, fds' = Allocate(fds, f) PROVE StableStep
    BY <1>0, <1>1, AllocateFacts, ZenonT(60) DEF StableStep
  <1>2. CASE fds' = fds
    BY <1>2 DEF StableStep
  <1>3. CASE SysOpen
    <2>1. PICK n \in {Dev, File}, append \in BOOLEAN :
              fds' = Allocate(fds, Fd(n, IF append THEN SizeOf(n) ELSE 0))
      BY <1>3 DEF SysOpen
    <2>2. Fd(n, IF append THEN SizeOf(n) ELSE 0) \in FdType
      BY NodeFacts, FilesAssumption DEF Fd, FdType, SizeOf
    <2> QED
      BY <1>1, <2>1, <2>2
  <1>4. ASSUME NEW p \in Pipe, SysPipe(p) PROVE StableStep
    <2> DEFINE r == Fd(<<"read", p>>, 0)
               w == Fd(<<"write", p>>, 0)
               u == Allocate(fds, r)
    <2>1. r \in FdType /\ w \in FdType /\ fds' = Allocate(u, w)
      BY <1>4, NodeFacts, NewFd DEF SysPipe
    <2> HIDE DEF r, w
    <2>2. /\ u \in Seq(FdType) /\ DOMAIN fds \subseteq DOMAIN u
          /\ \A d \in DOMAIN fds : u[d] = fds[d] \/ (d > 3 /\ fds[d] = NoFd)
      BY <1>0, <2>1, AllocateFacts, ZenonT(60)
    <2> HIDE DEF u
    <2>3. \A d \in DOMAIN u : fds'[d] = u[d] \/ (d > 3 /\ u[d] = NoFd)
      BY <2>1, <2>2, AllocateFacts, SMT
    <2> QED
      BY <2>2, <2>3 DEF StableStep
  <1>5. CASE GrantController
    <2>1. Fd(<<"controller", pty>>, 0) \in FdType
      BY <1>5, NodeFacts, NewFd DEF GrantController, IInv, PhaseInv
    <2> QED
      BY <1>1, <1>5, <2>1 DEF GrantController
  <1>6. CASE GrantReplace
    BY <1>6 DEF GrantReplace, StableStep
  <1>7. CASE ExitClose
    BY <1>7 DEF ExitClose, StableStep
  <1>8. CASE ExitDone
    BY <1>8, SMT DEF ExitDone, StableStep
  <1>9. ASSUME NEW s \in DOMAIN fds, OnDescriptor(s) PROVE StableStep
    <2>1. CASE SysClose(s)
      BY <2>1 DEF SysClose, StableStep
    <2>2. CASE SysDup(s)
      BY <1>0, <1>1, <2>2 DEF SysDup
    <2>3. CASE \E d \in DOMAIN fds : SysDupTo(s, d)
      <3>1. PICK d \in DOMAIN fds : SysDupTo(s, d)
        BY <2>3
      <3>2. fds' = [fds EXCEPT ![d] = fds[s]]
        BY <3>1 DEF SysDupTo
      <3> QED
        BY <3>1, <3>2 DEF StableStep
    <2>4. CASE SysReadFile(s)
      <3>1. PICK n \in 1 .. FileSize - fds[s].pos : fds' = [fds EXCEPT ![s] = ReadOf(fds[s], n)]
        BY <2>4 DEF SysReadFile
      <3> QED
        BY <3>1 DEF StableStep, ReadOf, Fd
    <2>5. CASE SysSeek(s)
      <3>1. PICK q : fds' = [fds EXCEPT ![s] = Fd(File, q)]
        BY <2>5 DEF SysSeek
      <3>2. fds[s].node = File
        BY <2>5 DEF SysSeek
      <3> QED
        BY <3>1, <3>2 DEF StableStep, Fd
    <2>6. CASE SysDupRefused(s) \/ \E p \in Pipe : SysWritePipe(s, p) \/ SysReadPipe(s, p)
      BY <1>2, <2>6 DEF SysDupRefused, SysWritePipe, SysReadPipe
    <2> QED
      BY <1>9, <2>1, <2>2, <2>3, <2>4, <2>5, <2>6, SMT DEF OnDescriptor
  <1>10. CASE \/ SysCloseBehind \/ ReadPipeReturns \/ SysExit
              \/ \E t \in Pty : SysGrantPty(t)
    BY <1>2, <1>10 DEF SysCloseBehind, ReadPipeReturns, SysExit, SysGrantPty
  <1> QED
    BY <1>3, <1>4, <1>5, <1>6, <1>7, <1>8, <1>9, <1>10 DEF Next

\* A descriptor keeps its node until a call that names it closes or replaces it, or
\* sys_grant_pty reaches it; an entry behind the standard three that is free may be
\* given out again.
THEOREM StableDescriptors == Spec => DescriptorsStable
  <1>1. IInv /\ [Next]_vars => [StableStep]_vars
    BY NextStable
  <1> QED
    BY <1>1, IInvHolds, PTL DEF Spec, DescriptorsStable, StableStep
=============================================================================
