-------------------------- MODULE AddressSpaceProofs --------------------------
(***************************************************************************)
(* For any sizes, hints and limits: the regions of an address space stay   *)
(* sorted and disjoint, range_in_region accepts what they cover, and the   *)
(* two search loops over the list answer each request as the abstract      *)
(* first-fit allocation does. The stack pointer that load_elf leaves in a new address     *)
(* space is a multiple of 16.                                              *)
(***************************************************************************)
EXTENDS AddressSpace, ElfStack, SequenceTheorems, TLAPS

\* A leaf is proved by Zenon, unless it cites another prover.
USE Zenon

\* No region is empty, and page 0 is in none.
RegionsProper == \A k \in DOMAIN regions : regions[k].base >= 1 /\ regions[k].size >= 1

\* A request is being served, and the regions before the iterator are below
\* what it asks for.
AtInv ==
    pc = "at" =>
        /\ req \in Request /\ req.base >= 1
        /\ \A k \in DOMAIN regions : k < i => End(regions[k]) <= req.base

\* The request under way has no hint, or one that overlaps a region.
HintTaken ==
    \/ req.base = 0
    \/ \E k \in DOMAIN regions : ~ Abstract!Disjoint(req.base, req.size, regions[k])

\* The request is not fixed and cannot have its hint, the regions before the
\* iterator are below the candidate, and no lower base is free.
FindInv ==
    pc = "find" =>
        /\ req \in Request /\ ~req.fixed /\ HintTaken /\ base >= 1
        /\ \A k \in DOMAIN regions : k < i => End(regions[k]) <= base
        /\ \A c \in 1 .. base - 1 : \E k \in DOMAIN regions :
                ~ Abstract!Disjoint(c, req.size, regions[k])

\* Only a fixed request that cannot have its hint is refused.
FailInv == pc = "fail" => req \in Request /\ req.fixed /\ HintTaken

\* Every region that has been mapped is in the part of the address space that
\* has page tables.
LimitInv ==
    /\ pc \in {"idle", "at", "find", "fail"} =>
            \A k \in DOMAIN regions : End(regions[k]) <= UserLimit
    /\ pc = "map" =>
            /\ req \in Request
            /\ \A k \in DOMAIN regions :
                    End(regions[k]) <= UserLimit \/ End(regions[k]) = result + req.size

\* The locals have their initial values until find_available_region begins.
StartInv ==
    /\ pc \in {"idle", "at"} => base = 1
    /\ pc = "idle" => i = 1

IInv ==
    /\ TypeOK /\ RegionsSorted /\ RegionsProper
    /\ AtInv /\ FindInv /\ FailInv /\ LimitInv /\ StartInv

-----------------------------------------------------------------------------
(* Lemmas about the operators                                              *)

\* The three tests of find_available_region, taken together: a range that does
\* not end before the region is moved behind it.
LEMMA PastIsMax ==
  ASSUME NEW b \in Nat, NEW s \in Nat \ {0}, NEW r \in Region,
         r.size >= 1, r.base < b + s
  PROVE  Past(b, s, r) = IF End(r) > b THEN End(r) ELSE b
  BY SMT DEF Past, End, Region

\* list::insert yields a list with one more element.
LEMMA InsertedType ==
  ASSUME NEW s \in Seq(Region), NEW k \in 1 .. Len(s) + 1, NEW r \in Region
  PROVE  /\ Inserted(s, k, r) \in Seq(Region)
         /\ Len(Inserted(s, k, r)) = Len(s) + 1
         /\ DOMAIN Inserted(s, k, r) = 1 .. Len(s) + 1
  <1> DEFINE f == Inserted(s, k, r)
  <1>1. Len(s) \in Nat /\ \A j \in 1 .. Len(s) : s[j] \in Region
    BY ElementOfSeq, LenProperties
  <1>2. f \in [1 .. Len(s) + 1 -> Region]
    BY <1>1, SMT DEF Inserted
  <1>3. Len(s) + 1 \in Nat
    BY <1>1, SMT
  <1>4. f \in Seq(Region)
    BY <1>2, <1>3, SeqDef
  <1>5. DOMAIN f = 1 .. Len(s) + 1
    BY <1>2
  <1>6. Len(f) = Len(s) + 1
    BY <1>3, <1>4, <1>5, LenProperties, SMT
  <1> QED
    BY <1>4, <1>5, <1>6

\* The elements of the longer list are the old ones and the new one.
LEMMA InsertedSet ==
  ASSUME NEW s \in Seq(Region), NEW k \in 1 .. Len(s) + 1, NEW r \in Region
  PROVE  {Inserted(s, k, r)[j] : j \in DOMAIN Inserted(s, k, r)}
            = {s[j] : j \in DOMAIN s} \union {r}
  <1> DEFINE f == Inserted(s, k, r)
             n == Len(s)
  <1>1. n \in Nat /\ DOMAIN s = 1 .. n
    BY LenProperties
  <1>2. DOMAIN f = 1 .. n + 1
    BY InsertedType
  <1>3. \A j \in 1 .. n + 1 : f[j] = IF j < k THEN s[j] ELSE IF j = k THEN r ELSE s[j - 1]
    BY DEF Inserted
  <1>4. ASSUME NEW j \in 1 .. n + 1 PROVE f[j] \in {s[m] : m \in 1 .. n} \union {r}
    <2>1. CASE j < k
      BY <2>1, <1>1, <1>3, SMT
    <2>2. CASE j = k
      BY <2>2, <1>1, <1>3, SMT
    <2>3. CASE j > k
      <3>1. j - 1 \in 1 .. n
        BY <2>3, <1>1, SMT
      <3> QED
        BY <2>3, <3>1, <1>1, <1>3, SMT
    <2> QED
      BY <2>1, <2>2, <2>3, <1>1, SMT
  <1>5. ASSUME NEW m \in 1 .. n PROVE s[m] \in {f[j] : j \in 1 .. n + 1}
    <2>1. CASE m < k
      <3>1. f[m] = s[m] /\ m \in 1 .. n + 1
        BY <2>1, <1>1, <1>3, SMT
      <3> QED
        BY <3>1
    <2>2. CASE m >= k
      <3>1. m + 1 \in 1 .. n + 1 /\ ~(m + 1 < k) /\ m + 1 # k /\ (m + 1) - 1 = m
        BY <2>2, <1>1, SMT
      <3>2. f[m + 1] = s[m]
        BY <3>1, <1>3
      <3> QED
        BY <3>1, <3>2
    <2> QED
      BY <2>1, <2>2, <1>1, SMT
  <1>6. r \in {f[j] : j \in 1 .. n + 1}
    <2>1. f[k] = r /\ k \in 1 .. n + 1
      BY <1>1, <1>3, SMT
    <2> QED
      BY <2>1
  <1>7. {f[j] : j \in 1 .. n + 1} = {s[m] : m \in 1 .. n} \union {r}
    <2> HIDE DEF f, n
    <2> QED
      BY <1>4, <1>5, <1>6
  <1> QED
    BY <1>1, <1>2, <1>7

\* Inserting a region that is above the ones before it and below the ones
\* after it keeps the list sorted.
LEMMA InsertedSorted ==
  ASSUME TypeOK, RegionsSorted, RegionsProper,
         NEW k \in 1 .. Len(regions) + 1, NEW r \in Region, r.base >= 1, r.size >= 1,
         \A j \in DOMAIN regions : j < k => End(regions[j]) <= r.base,
         \A j \in DOMAIN regions : j >= k => End(r) <= regions[j].base,
         regions' = Inserted(regions, k, r)
  PROVE  RegionsSorted' /\ RegionsProper'
  <1> DEFINE n == Len(regions)
  <1>1. n \in Nat /\ DOMAIN regions = 1 .. n /\ \A j \in 1 .. n : regions[j] \in Region
    BY ElementOfSeq, LenProperties DEF TypeOK
  <1>2. DOMAIN regions' = 1 .. n + 1
    BY InsertedType DEF TypeOK
  <1>3. \A j \in 1 .. n + 1 :
            regions'[j] = IF j < k THEN regions[j] ELSE IF j = k THEN r ELSE regions[j - 1]
    BY DEF Inserted
  <1>4. RegionsProper'
    <2> SUFFICES ASSUME NEW j \in 1 .. n + 1
                 PROVE  regions'[j].base >= 1 /\ regions'[j].size >= 1
      BY <1>2 DEF RegionsProper
    <2>1. CASE j < k
      <3>1. j \in 1 .. n /\ regions'[j] = regions[j]
        BY <2>1, <1>1, <1>3, SMT
      <3> QED
        BY <3>1, <1>1 DEF RegionsProper
    <2>2. CASE j = k
      BY <2>2, <1>3, SMT
    <2>3. CASE j > k
      <3>1. j - 1 \in 1 .. n /\ regions'[j] = regions[j - 1]
        BY <2>3, <1>1, <1>3, SMT
      <3> QED
        BY <3>1, <1>1 DEF RegionsProper
    <2> QED
      BY <2>1, <2>2, <2>3, <1>1, SMT
  <1>5. RegionsSorted'
    <2> SUFFICES ASSUME NEW j \in 1 .. n + 1, NEW m \in 1 .. n + 1, j < m
                 PROVE  End(regions'[j]) <= regions'[m].base
      BY <1>2 DEF RegionsSorted, End
    <2>1. CASE m < k
      <3>1. j \in 1 .. n /\ m \in 1 .. n /\ regions'[j] = regions[j] /\ regions'[m] = regions[m]
        BY <2>1, <1>1, <1>3, SMT
      <3> QED
        BY <3>1, <1>1 DEF RegionsSorted
    <2>2. CASE m = k
      <3>1. j \in 1 .. n /\ j < k /\ regions'[j] = regions[j] /\ regions'[m] = r
        BY <2>2, <1>1, <1>3, SMT
      <3> QED
        BY <3>1, <1>1
    <2>3. CASE m > k /\ j < k
      <3>1. j \in 1 .. n /\ m - 1 \in 1 .. n /\ j < m - 1
        BY <2>3, <1>1, SMT
      <3>2. regions'[j] = regions[j] /\ regions'[m] = regions[m - 1]
        BY <2>3, <1>1, <1>3, SMT
      <3> QED
        BY <3>1, <3>2, <1>1 DEF RegionsSorted
    <2>4. CASE m > k /\ j = k
      <3>1. m - 1 \in 1 .. n /\ m - 1 >= k
        BY <2>4, <1>1, SMT
      <3>2. regions'[j] = r /\ regions'[m] = regions[m - 1]
        BY <2>4, <1>1, <1>3, SMT
      <3> QED
        BY <3>1, <3>2, <1>1
    <2>5. CASE m > k /\ j > k
      <3>1. j - 1 \in 1 .. n /\ m - 1 \in 1 .. n /\ j - 1 < m - 1
        BY <2>5, <1>1, SMT
      <3>2. regions'[j] = regions[j - 1] /\ regions'[m] = regions[m - 1]
        BY <2>5, <1>1, <1>3, SMT
      <3> QED
        BY <3>1, <3>2, <1>1 DEF RegionsSorted
    <2> QED
      BY <2>1, <2>2, <2>3, <2>4, <2>5, <1>1, SMT
  <1> QED
    BY <1>4, <1>5

\* In a sorted list it is enough to compare with the element at the position of
\* the insertion.
LEMMA RestIsAbove ==
  ASSUME TypeOK, RegionsSorted, NEW k \in 1 .. Len(regions) + 1, NEW e \in Nat,
         k <= Len(regions) => e <= regions[k].base
  PROVE  \A j \in DOMAIN regions : j >= k => e <= regions[j].base
  <1>1. Len(regions) \in Nat /\ DOMAIN regions = 1 .. Len(regions)
    BY LenProperties DEF TypeOK
  <1>2. \A j \in 1 .. Len(regions) :
            regions[j] \in Region /\ regions[j].base \in Nat /\ regions[j].size \in Nat
    <2>1. \A j \in 1 .. Len(regions) : regions[j] \in Region
      BY ElementOfSeq DEF TypeOK
    <2> QED
      BY <2>1 DEF Region
  <1> SUFFICES ASSUME NEW j \in 1 .. Len(regions), j >= k PROVE e <= regions[j].base
    BY <1>1
  <1>3. CASE j = k
    BY <1>3, SMT
  <1>4. CASE j > k
    <2>1. k \in 1 .. Len(regions)
      BY <1>1, <1>4, SMT
    <2>2. End(regions[k]) <= regions[j].base
      BY <2>1, <1>1, <1>4 DEF RegionsSorted
    <2> QED
      BY <2>1, <2>2, <1>2, SMT DEF End
  <1> QED
    BY <1>1, <1>3, <1>4, SMT

(***************************************************************************)
(* Both searches end with the insertion of a region that fits: the         *)
(* invariant is kept, and the request is placed in the abstract space.     *)
(***************************************************************************)
LEMMA InsertKeepsInv ==
  ASSUME IInv, req \in Request, NEW k \in 1 .. Len(regions) + 1, NEW b \in Nat, b >= 1,
         \A j \in DOMAIN regions : j < k => End(regions[j]) <= b,
         k <= Len(regions) => b + req.size <= regions[k].base,
         pc \in {"at", "find"},
         Insert(k, b), pc' = "map", req' = req, i' \in 1 .. Len(regions) + 1, base' = base
  PROVE  /\ IInv'
         /\ Abstract!Fits(b, req.size)
         /\ Abstract!Place(b)
  <1> DEFINE r == [base |-> b, size |-> req.size]
  <1>1. req.size \in Nat /\ req.size >= 1 /\ r \in Region
    <2>1. req.size \in Size
      BY DEF Request
    <2>2. req.size \in Nat \ {0}
      BY <2>1, AddressAssumption
    <2> QED
      BY <2>2, SMT DEF Region
  <1>2. regions' = Inserted(regions, k, r) /\ result' = b
    BY DEF Insert
  <1>3. TypeOK
    BY DEF IInv
  <1>4. b + req.size \in Nat /\ End(r) = b + req.size
    BY <1>1, SMT DEF End
  <1>5. \A j \in DOMAIN regions : j >= k => b + req.size <= regions[j].base
    BY <1>3, <1>4, RestIsAbove DEF IInv
  <1>6. Len(regions) \in Nat /\ DOMAIN regions = 1 .. Len(regions)
    BY <1>3, LenProperties DEF TypeOK
  <1>7. /\ regions' \in Seq(Region)
        /\ Len(regions') = Len(regions) + 1
        /\ DOMAIN regions' = 1 .. Len(regions) + 1
    BY <1>1, <1>2, <1>3, InsertedType DEF TypeOK
  <1>8. {regions'[j] : j \in DOMAIN regions'} = {regions[j] : j \in DOMAIN regions} \union {r}
    <2>1. {Inserted(regions, k, r)[j] : j \in DOMAIN Inserted(regions, k, r)}
            = {regions[j] : j \in DOMAIN regions} \union {r}
      <3>1. regions \in Seq(Region) /\ k \in 1 .. Len(regions) + 1 /\ r \in Region
        BY <1>1, <1>3 DEF TypeOK
      <3> HIDE DEF r
      <3> QED
        BY <3>1, InsertedSet, ZenonT(60)
    <2> QED
      BY <2>1, <1>2
  <1>9. RegionsSorted' /\ RegionsProper'
    BY <1>1, <1>2, <1>3, <1>4, <1>5, InsertedSorted DEF IInv
  <1>10. TypeOK'
    BY <1>2, <1>3, <1>6, <1>7, SMT DEF TypeOK
  <1>11. LimitInv'
    <2>1. \A j \in DOMAIN regions' :
              regions'[j] = r \/ \E m \in DOMAIN regions : regions'[j] = regions[m]
      BY <1>8
    <2>2. \A m \in DOMAIN regions : End(regions[m]) <= UserLimit
      BY DEF IInv, LimitInv
    <2> QED
      BY <2>1, <2>2, <1>2, <1>4 DEF LimitInv, End
  <1>12. AtInv' /\ FindInv' /\ FailInv' /\ StartInv'
    BY DEF AtInv, FindInv, FailInv, StartInv
  <1>13. Abstract!Fits(b, req.size)
    <2> SUFFICES ASSUME NEW j \in DOMAIN regions
                 PROVE  Abstract!Disjoint(b, req.size, regions[j])
      BY DEF Abstract!Fits
    <2>1. j < k \/ j >= k
      BY <1>6, SMT
    <2> QED
      BY <2>1, <1>5 DEF Abstract!Disjoint, End
  <1>14. Abstract!Place(b)
    BY <1>2, <1>8 DEF Abstract!Place, Abstract!NoRequest, NoRequest, Asked
  <1> QED
    BY <1>9, <1>10, <1>11, <1>12, <1>13, <1>14 DEF IInv

-----------------------------------------------------------------------------
(* The steps                                                               *)

AbstractStep == [Abstract!SpecNext]_(Abstract!specVars)

\* An address space without regions satisfies the invariant and is empty in
\* the abstract.
LEMMA InitIInv == Init => IInv /\ Abstract!SpecInit
  <1> SUFFICES ASSUME Init PROVE IInv /\ Abstract!SpecInit
    OBVIOUS
  <1>1. regions = <<>> /\ regions \in Seq(Region) /\ Len(regions) = 0 /\ DOMAIN regions = {}
    <2>1. <<>> \in Seq(Region) /\ Len(<<>>) = 0
      BY EmptySeq
    <2> QED
      BY <2>1, LenProperties, SMT DEF Init
  <1>2. TypeOK
    BY <1>1, SMT DEF Init, TypeOK
  <1>3. RegionsSorted /\ RegionsProper /\ AtInv /\ FindInv /\ FailInv /\ LimitInv /\ StartInv
    BY <1>1 DEF Init, RegionsSorted, RegionsProper, AtInv, FindInv, FailInv, LimitInv, StartInv
  <1>4. Abstract!SpecInit
    BY <1>1 DEF Init, Abstract!SpecInit, Abstract!NoRequest, NoRequest, Asked
  <1> QED
    BY <1>2, <1>3, <1>4 DEF IInv

\* A turn of a search that answers nothing is no step of the abstract address
\* space.
LEMMA Stutter ==
  ASSUME UNCHANGED <<regions, result>>, Asked' = Asked, (pc = "assert")' = (pc = "assert")
  PROVE  AbstractStep
  BY DEF AbstractStep, Abstract!specVars

\* What the invariant says of the list at the position of the iterator.
LEMMA ListFacts ==
  ASSUME TypeOK
  PROVE  /\ Len(regions) \in Nat
         /\ DOMAIN regions = 1 .. Len(regions)
         /\ \A j \in DOMAIN regions :
                regions[j] \in Region /\ regions[j].base \in Nat /\ regions[j].size \in Nat
                    /\ End(regions[j]) \in Nat
  <1>1. Len(regions) \in Nat /\ DOMAIN regions = 1 .. Len(regions)
    BY LenProperties DEF TypeOK
  <1>2. \A j \in DOMAIN regions : regions[j] \in Region
    BY <1>1, ElementOfSeq DEF TypeOK
  <1> QED
    BY <1>1, <1>2, SMT DEF Region, End

\* What the invariant says of a request that is under way.
LEMMA RequestFacts ==
  ASSUME NEW r \in Request
  PROVE  r.size \in Size /\ r.size \in Nat \ {0} /\ r.base \in Hint /\ r.base \in Nat
  <1>1. r.size \in Size /\ r.base \in Hint
    BY DEF Request
  <1> QED
    BY <1>1, AddressAssumption

\* A hint that overlaps a region is not free in the abstract address space.
LEMMA HintNotFree == ASSUME HintTaken, Asked = req PROVE ~ Abstract!HintIsFree(Asked)
  BY DEF HintTaken, Abstract!HintIsFree, Abstract!Fits

\* In find_available_region no base below the candidate is free.
LEMMA NoneBelow ==
  ASSUME IInv, pc = "find", NEW c \in 1 .. base - 1
  PROVE  ~ Abstract!Fits(c, req.size)
  <1>1. PICK k \in DOMAIN regions : ~ Abstract!Disjoint(c, req.size, regions[k])
    BY DEF IInv, FindInv
  <1> QED
    BY <1>1 DEF Abstract!Fits

\* The step that ends find_available_region is the abstract first fit.
LEMMA FirstFitStep ==
  ASSUME IInv, pc = "find", base + req.size < KernelBase,
         Abstract!Fits(base, req.size), Abstract!Place(base)
  PROVE  AbstractStep
  <1>1. /\ Asked = req /\ req \in Abstract!Request /\ ~req.fixed /\ HintTaken
        /\ req.size \in Nat \ {0}
    BY RequestFacts DEF IInv, FindInv, Asked, Request, Abstract!Request
  <1>2. base \in Nat /\ base >= 1 /\ base \in 1 .. KernelBase
    BY <1>1, AddressAssumption, SMT DEF IInv, TypeOK, FindInv
  <1>3. Abstract!FirstFit(base, req.size)
    BY <1>2, NoneBelow DEF Abstract!FirstFit
  <1>4. Abstract!AtFirstFit(base)
    BY <1>1, <1>3, HintNotFree DEF Abstract!AtFirstFit
  <1>5. Abstract!SpecNext
    BY <1>2, <1>4
       DEF Abstract!SpecNext, Abstract!AtFirstFit, Abstract!FirstFit, Abstract!Fits, Abstract!Place
  <1> QED
    BY <1>5 DEF AbstractStep

\* The step that ends allocate_region_at is the abstract allocation at the hint.
LEMMA HintStep ==
  ASSUME pc = "at", req \in Request, req.base >= 1,
         Abstract!Fits(req.base, req.size), Abstract!Place(req.base)
  PROVE  AbstractStep
  <1>1. req.base # 0
    BY RequestFacts, SMT
  <1>2. Asked = req /\ req \in Abstract!Request
    BY DEF Asked, Request, Abstract!Request
  <1>3. Abstract!AtHint
    BY <1>1, <1>2 DEF Abstract!AtHint, Abstract!HintIsFree, Abstract!Place
  <1>4. Abstract!SpecNext
    BY <1>3 DEF Abstract!SpecNext
  <1> QED
    BY <1>4 DEF AbstractStep

\* Every turn of a search keeps the invariant and is an abstract step or none.
LEMMA NextIInv == ASSUME IInv, [Next]_vars PROVE IInv' /\ AbstractStep
  <1>0. /\ Len(regions) \in Nat
        /\ DOMAIN regions = 1 .. Len(regions)
        /\ \A j \in DOMAIN regions :
                regions[j] \in Region /\ regions[j].base \in Nat /\ regions[j].size \in Nat
                    /\ End(regions[j]) \in Nat
    BY ListFacts DEF IInv
  <1>1. CASE UNCHANGED vars
    <2>1. IInv'
      BY <1>1 DEF IInv, vars, TypeOK, RegionsSorted, RegionsProper, AtInv, FindInv, FailInv,
              HintTaken, LimitInv, StartInv
    <2> QED
      BY <1>1, <2>1, Stutter DEF vars, Asked
  <1>2. CASE Call
    <2>1. PICK r \in Request :
              /\ req' = r
              /\ pc = "idle"
              /\ pc' = IF r.base # 0 THEN "at" ELSE IF r.fixed THEN "fail" ELSE "find"
              /\ UNCHANGED <<regions, i, base, result>>
      BY <1>2 DEF Call, Goto
    <2>2. r.size \in Nat /\ r.base \in Nat
      BY RequestFacts
    <2>3. i' = 1 /\ base' = 1
      BY <2>1 DEF IInv, StartInv
    <2>4. pc' \in {"at", "find", "fail"} /\ (pc' = "at" => r.base >= 1)
      BY <2>1, <2>2, SMT
    <2>41. /\ pc' = "find" => r.base = 0 /\ ~r.fixed
           /\ pc' = "fail" => r.base = 0 /\ r.fixed
      BY <2>1
    <2>5. TypeOK'
      BY <1>0, <2>1, <2>4 DEF IInv, TypeOK
    <2>6. RegionsSorted' /\ RegionsProper' /\ LimitInv' /\ StartInv'
      BY <2>1, <2>3, <2>4 DEF IInv, RegionsSorted, RegionsProper, LimitInv, StartInv
    <2>7. AtInv' /\ FindInv' /\ FailInv'
      <3>1. \A k \in DOMAIN regions : ~(k < 1)
        BY <1>0, SMT
      <3>2. (1 .. base - 1)' = {}
        BY <2>3, SMT
      <3> QED
        <4>1. base' >= 1
          BY <2>3, SMT
        <4>2. AtInv'
          BY <2>1, <2>3, <2>4, <3>1 DEF AtInv
        <4>3. FindInv'
          BY <2>1, <2>3, <2>41, <3>1, <3>2, <4>1 DEF FindInv, HintTaken
        <4>4. FailInv'
          BY <2>1, <2>41 DEF FailInv, HintTaken
        <4> QED
          BY <4>2, <4>3, <4>4
    <2>8. Abstract!Ask /\ pc # "assert"
      BY <2>1, <2>4
         DEF Abstract!Ask, Abstract!Request, Request, Abstract!NoRequest, NoRequest, Asked
    <2>9. AbstractStep
      BY <2>8 DEF AbstractStep, Abstract!SpecNext
    <2> QED
      BY <2>5, <2>6, <2>7, <2>9 DEF IInv
  <1>3. CASE AtSkip
    <2>1. TypeOK'
      BY <1>0, <1>3, SMT DEF IInv, AtSkip, Goto, TypeOK
    <2>2. RegionsSorted' /\ RegionsProper' /\ LimitInv' /\ FindInv' /\ FailInv' /\ StartInv'
      BY <1>3 DEF IInv, AtSkip, Goto, RegionsSorted, RegionsProper, LimitInv, FindInv, FailInv,
                  StartInv
    <2>3. AtInv'
      BY <1>0, <1>3, SMT DEF IInv, AtSkip, Goto, AtInv, TypeOK
    <2> QED
      BY <1>3, <2>1, <2>2, <2>3, Stutter DEF IInv, AtSkip, Goto, Asked
  <1>4. CASE AtInsert
    <2>1. req \in Request /\ req.base \in Nat /\ req.base >= 1
      BY <1>4, RequestFacts DEF IInv, AtInsert, Goto, AtInv
    <2>2. /\ i \in 1 .. Len(regions) + 1
          /\ \A j \in DOMAIN regions : j < i => End(regions[j]) <= req.base
          /\ req.base + req.size <= regions[i].base
      <3>1. regions[i].base >= req.base + req.size /\ req.size \in Nat /\ regions[i].base \in Nat
        BY <1>0, <1>4, <2>1, RequestFacts, SMT DEF IInv, AtInsert, TypeOK
      <3> QED
        BY <1>4, <2>1, <3>1 DEF IInv, AtInsert, Goto, AtInv, TypeOK
    <2>3. IInv' /\ Abstract!Fits(req.base, req.size) /\ Abstract!Place(req.base)
      BY <1>4, <2>1, <2>2, InsertKeepsInv DEF AtInsert, Goto, Abstract!Place
    <2> QED
      BY <1>4, <2>1, <2>3, HintStep DEF AtInsert, Goto
  <1>5. CASE AtInUse
    <2>1. TypeOK'
      BY <1>0, <1>5, SMT DEF IInv, AtInUse, Goto, TypeOK
    <2>2. RegionsSorted' /\ RegionsProper' /\ LimitInv' /\ AtInv' /\ StartInv'
      BY <1>5 DEF IInv, AtInUse, Goto, RegionsSorted, RegionsProper, LimitInv, AtInv, StartInv
    <2>3. FindInv' /\ FailInv'
      <3>1. \A k \in DOMAIN regions : ~(k < 1)
        BY <1>0, SMT
      <3>2. base' = 1 /\ i' = 1 /\ regions' = regions /\ req' \in Request
        BY <1>5 DEF IInv, AtInUse, Goto, StartInv, AtInv
      <3>3. (1 .. base - 1)' = {}
        BY <3>2, SMT
      <3>4. HintTaken'
        <4>1. i \in DOMAIN regions /\ req.base \in Nat /\ req.size \in Nat
          BY <1>0, <1>5, RequestFacts, SMT DEF IInv, AtInUse, Goto, AtInv, TypeOK
        <4>2. ~ Abstract!Disjoint(req.base, req.size, regions[i])
          BY <1>0, <1>5, <4>1, SMT DEF AtInUse, Abstract!Disjoint, End
        <4>3. req' = req
          BY <1>5 DEF AtInUse
        <4> QED
          BY <3>2, <4>1, <4>2, <4>3 DEF HintTaken
      <3>5. (pc' = "find" => ~req'.fixed) /\ (pc' = "fail" => req'.fixed) /\ base' >= 1
        BY <1>5, <3>2, SMT DEF AtInUse, Goto
      <3> QED
        BY <3>1, <3>2, <3>3, <3>4, <3>5 DEF FindInv, FailInv
    <2>4. Asked' = Asked /\ pc # "assert" /\ pc' # "assert"
      BY <1>5 DEF AtInUse, Goto, Asked
    <2> QED
      BY <1>5, <2>1, <2>2, <2>3, <2>4, Stutter DEF IInv, AtInUse
  <1>6. CASE AtAdd
    <2>1. req \in Request /\ req.base \in Nat /\ req.base >= 1
      BY <1>6, RequestFacts DEF IInv, AtAdd, Goto, AtInv
    <2>2. \A j \in DOMAIN regions : End(regions[j]) <= req.base
      BY <1>0, <1>6, SMT DEF IInv, AtAdd, Goto, AtInv, TypeOK
    <2>3. Len(regions) = 0 \/ End(regions[Len(regions)]) <= req.base
      BY <1>0, <2>2, SMT
    <2>4. /\ pc = "at" /\ pc' = "map" /\ Insert(Len(regions) + 1, req.base)
          /\ i' = 1 /\ req' = req /\ base' = base
      BY <1>6, <2>3 DEF AtAdd, Goto
    <2>5. /\ Len(regions) + 1 \in 1 .. Len(regions) + 1
          /\ 1 \in 1 .. Len(regions) + 1
          /\ ~ (Len(regions) + 1 <= Len(regions))
      BY <1>0, SMT
    <2>6. IInv' /\ Abstract!Fits(req.base, req.size) /\ Abstract!Place(req.base)
      BY <2>1, <2>2, <2>4, <2>5, InsertKeepsInv DEF Abstract!Place
    <2> QED
      BY <2>1, <2>4, <2>6, HintStep
  <1>7. CASE FindInsert
    <2>1. req \in Request /\ base \in Nat /\ base >= 1 /\ req.size \in Nat
      BY <1>7, RequestFacts DEF IInv, FindInsert, Goto, FindInv, TypeOK
    <2>2. /\ i \in DOMAIN regions
          /\ i \in 1 .. Len(regions) + 1
          /\ \A j \in DOMAIN regions : j < i => End(regions[j]) <= base
          /\ base + req.size <= regions[i].base
      <3>1. i \in DOMAIN regions
        BY <1>0, <1>7, SMT DEF IInv, FindInsert, TypeOK
      <3>2. base + req.size <= regions[i].base
        BY <1>0, <1>7, <2>1, <3>1 DEF FindInsert
      <3> QED
        BY <1>7, <3>1, <3>2 DEF IInv, FindInsert, Goto, FindInv, TypeOK
    <2>3. IInv' /\ Abstract!Fits(base, req.size) /\ Abstract!Place(base)
      BY <1>7, <2>1, <2>2, InsertKeepsInv DEF FindInsert, Goto, Abstract!Place
    <2>4. base + req.size < KernelBase
      <3>1. End(regions[i]) <= UserLimit /\ regions[i].size >= 1
        BY <1>7, <2>2 DEF IInv, FindInsert, Goto, LimitInv, RegionsProper
      <3> QED
        BY <1>0, <2>1, <2>2, <3>1, AddressAssumption, SMT DEF End
    <2> QED
      BY <1>7, <2>3, <2>4, FirstFitStep DEF FindInsert, Goto
  <1>8. CASE FindNext
    <2>1. req \in Request /\ base \in Nat /\ base >= 1 /\ req.size \in Nat \ {0}
      BY <1>8, RequestFacts DEF IInv, FindNext, Goto, FindInv, TypeOK
    <2>2. i \in DOMAIN regions /\ i + 1 \in 1 .. Len(regions) + 1
      BY <1>0, <1>8, SMT DEF IInv, FindNext, TypeOK
    <2> DEFINE e == End(regions[i])
    <2>3. base' = IF e > base THEN e ELSE base
      <3>1. regions[i].size >= 1 /\ regions[i].base < base + req.size
        BY <1>8, <2>2 DEF IInv, RegionsProper, FindNext
      <3> QED
        BY <1>0, <1>8, <2>1, <2>2, <3>1, PastIsMax DEF FindNext
    <2>4. e \in Nat /\ base' \in Nat /\ base' >= base /\ base' >= e
      BY <1>0, <2>1, <2>2, <2>3, SMT
    <2>5. TypeOK'
      BY <1>8, <2>2, <2>4 DEF IInv, FindNext, Goto, TypeOK
    <2>6. RegionsSorted' /\ RegionsProper' /\ LimitInv' /\ AtInv' /\ FailInv' /\ StartInv'
      BY <1>8 DEF IInv, FindNext, Goto, RegionsSorted, RegionsProper, LimitInv, AtInv, FailInv,
                  StartInv
    <2>7. \A k \in DOMAIN regions : k < i + 1 => End(regions[k]) <= base'
      <3> SUFFICES ASSUME NEW k \in DOMAIN regions, k < i + 1
                   PROVE  End(regions[k]) <= base'
        OBVIOUS
      <3>1. CASE k = i
        BY <2>4, <3>1
      <3>2. CASE k < i
        <4>1. End(regions[k]) <= base
          BY <1>8, <3>2 DEF IInv, FindNext, Goto, FindInv
        <4> QED
          BY <1>0, <2>1, <2>4, <4>1, SMT
      <3> QED
        BY <1>0, <2>2, <3>1, <3>2, SMT
    <2>8. \A c \in 1 .. base' - 1 : \E k \in DOMAIN regions :
              ~ Abstract!Disjoint(c, req.size, regions[k])
      <3> SUFFICES ASSUME NEW c \in 1 .. base' - 1
                   PROVE  \E k \in DOMAIN regions : ~ Abstract!Disjoint(c, req.size, regions[k])
        OBVIOUS
      <3>1. CASE c \in 1 .. base - 1
        BY <1>8, <3>1 DEF IInv, FindNext, Goto, FindInv
      <3>2. CASE ~(c \in 1 .. base - 1)
        <4>1. base <= c /\ c < e
          BY <2>1, <2>3, <2>4, <3>2, SMT
        <4>2. regions[i].base < base + req.size
          BY <1>8 DEF FindNext
        <4>3. ~ Abstract!Disjoint(c, req.size, regions[i])
          BY <1>0, <2>1, <2>2, <4>1, <4>2, SMT DEF Abstract!Disjoint, End
        <4> QED
          BY <2>2, <4>3
      <3> QED
        BY <3>1, <3>2
    <2>9. FindInv'
      <3>1. base' >= 1 /\ regions' = regions /\ req' = req /\ i' = i + 1
        BY <1>8, <2>1, <2>4, SMT DEF FindNext
      <3>2. ~req.fixed /\ HintTaken'
        BY <1>8, <3>1 DEF IInv, FindNext, Goto, FindInv, HintTaken
      <3> HIDE DEF e
      <3> QED
        BY <2>1, <2>7, <2>8, <3>1, <3>2 DEF FindInv
    <2>10. Asked' = Asked /\ pc # "assert" /\ pc' # "assert"
      BY <1>8 DEF FindNext, Goto, Asked
    <2> QED
      BY <1>8, <2>5, <2>6, <2>9, <2>10, Stutter DEF IInv, FindNext
  <1>9. CASE FindAdd /\ base + req.size < KernelBase
    <2>1. req \in Request /\ base \in Nat /\ base >= 1
      BY <1>9 DEF IInv, FindAdd, Goto, FindInv, TypeOK
    <2>2. /\ pc = "find" /\ pc' = "map" /\ Insert(Len(regions) + 1, base)
          /\ i' = i /\ req' = req /\ base' = base
      BY <1>9 DEF FindAdd, Goto
    <2>3. \A j \in DOMAIN regions : End(regions[j]) <= base
      BY <1>0, <1>9, <2>2, SMT DEF IInv, FindAdd, FindInv, TypeOK
    <2>4. /\ Len(regions) + 1 \in 1 .. Len(regions) + 1
          /\ i' \in 1 .. Len(regions) + 1
          /\ ~ (Len(regions) + 1 <= Len(regions))
      BY <1>0, <2>2, SMT DEF IInv, TypeOK
    <2>5. IInv' /\ Abstract!Fits(base, req.size) /\ Abstract!Place(base)
      BY <2>1, <2>2, <2>3, <2>4, InsertKeepsInv DEF Abstract!Place
    <2> QED
      BY <1>9, <2>2, <2>5, FirstFitStep
  <1>10. CASE FindAdd /\ ~(base + req.size < KernelBase)
    <2>1. pc = "find" /\ pc' = "assert" /\ UNCHANGED <<regions, result, req, i, base>>
      BY <1>10 DEF FindAdd, Goto
    <2>2. IInv'
      BY <2>1
         DEF IInv, TypeOK, RegionsSorted, RegionsProper, AtInv, FindInv, FailInv, LimitInv, StartInv
    <2>3. /\ Asked = req /\ req \in Abstract!Request /\ ~req.fixed /\ HintTaken
          /\ req.size \in Nat \ {0} /\ base \in Nat
      BY <2>1, RequestFacts DEF IInv, FindInv, Asked, Request, Abstract!Request, TypeOK
    <2>4. ASSUME NEW b \in 1 .. KernelBase, b + req.size < KernelBase
          PROVE  ~ Abstract!Fits(b, req.size)
      <3>1. b \in 1 .. base - 1
        BY <1>10, <2>3, <2>4, AddressAssumption, SMT
      <3> QED
        BY <2>1, <3>1, NoneBelow
    <2>5. Asked' = Asked
      BY <2>1 DEF Asked
    <2>6. Abstract!OutOfSpace
      BY <2>1, <2>3, <2>4, <2>5, HintNotFree DEF Abstract!OutOfSpace
    <2>7. AbstractStep
      BY <2>1, <2>6 DEF AbstractStep, Abstract!SpecNext
    <2> QED
      BY <2>2, <2>7
  <1>11. CASE Map
    <2>1. /\ pc = "map" /\ pc' = IF result + req.size <= UserLimit THEN "idle" ELSE "panic"
          /\ req' = NoRequest /\ i' = 1 /\ base' = 1 /\ UNCHANGED <<regions, result>>
      BY <1>11 DEF Map, Goto
    <2>2. TypeOK'
      BY <1>0, <2>1, SMT DEF IInv, TypeOK
    <2>3. RegionsSorted' /\ RegionsProper' /\ AtInv' /\ FindInv' /\ FailInv' /\ StartInv'
      BY <2>1 DEF IInv, RegionsSorted, RegionsProper, AtInv, FindInv, FailInv, StartInv
    <2>4. LimitInv'
      BY <2>1 DEF IInv, LimitInv
    <2>5. Asked' = Asked /\ pc # "assert" /\ pc' # "assert"
      BY <2>1 DEF Asked
    <2> QED
      BY <2>1, <2>2, <2>3, <2>4, <2>5, Stutter DEF IInv
  <1>12. CASE ReturnNull
    <2>1. /\ pc = "fail" /\ pc' = "idle" /\ result' = 0
          /\ req' = NoRequest /\ i' = 1 /\ base' = 1 /\ UNCHANGED regions
      BY <1>12 DEF ReturnNull, Goto
    <2>2. TypeOK'
      BY <1>0, <2>1, SMT DEF IInv, TypeOK
    <2>3. RegionsSorted' /\ RegionsProper' /\ AtInv' /\ FindInv' /\ FailInv' /\ StartInv' /\ LimitInv'
      BY <2>1
         DEF IInv, RegionsSorted, RegionsProper, AtInv, FindInv, FailInv, StartInv, LimitInv
    <2>4. Asked = req /\ req \in Abstract!Request /\ req.fixed /\ HintTaken
      BY <2>1 DEF IInv, FailInv, Asked, Request, Abstract!Request
    <2>5. Abstract!Refuse
      BY <2>1, <2>4, HintNotFree DEF Abstract!Refuse, Abstract!NoRequest, NoRequest, Asked
    <2>6. AbstractStep
      BY <2>1, <2>5 DEF AbstractStep, Abstract!SpecNext
    <2> QED
      BY <2>2, <2>3, <2>6 DEF IInv
  <1> QED
    BY <1>1, <1>2, <1>3, <1>4, <1>5, <1>6, <1>7, <1>8, <1>9, <1>10, <1>11, <1>12 DEF Next

-----------------------------------------------------------------------------
(* The theorems                                                            *)

\* The inductive invariant of the two searches of address_space holds.
THEOREM IInvHolds == Spec => []IInv
  BY InitIInv, NextIInv, PTL DEF Spec

\* The searches of allocate_region_at and find_available_region insert every
\* region where the list stays in ascending order without overlap.
THEOREM SortedRegions == Spec => []RegionsSorted
  <1>1. IInv => RegionsSorted
    BY DEF IInv
  <1> QED
    BY <1>1, IInvHolds, PTL

\* range_in_region gives its answer at the first region, and still accepts every
\* address of every region: the list it walks has the types, the order and the
\* first element that make this right.
THEOREM ExactRegions == Spec => []RegionsExact
  <1>1. ASSUME IInv PROVE CoveredIsAccepted
    <2> SUFFICES ASSUME NEW k \in DOMAIN regions, NEW b \in 1 .. UserLimit,
                        regions[k].base <= b
                 PROVE  RangeInRegion(b)
      BY DEF CoveredIsAccepted
    <2>1. /\ Len(regions) \in Nat
          /\ DOMAIN regions = 1 .. Len(regions)
          /\ \A j \in DOMAIN regions :
                  regions[j] \in Region /\ regions[j].base \in Nat /\ regions[j].size \in Nat
                      /\ End(regions[j]) \in Nat
      BY <1>1, ListFacts DEF IInv
    <2>2. 1 \in DOMAIN regions /\ Len(regions) > 0
      BY <2>1, SMT
    <2>3. regions[1].base <= regions[k].base
      <3>1. CASE k = 1
        BY <2>1, <3>1, SMT
      <3>2. CASE k > 1
        <4>1. End(regions[1]) <= regions[k].base
          BY <1>1, <2>1, <2>2, <3>2 DEF IInv, RegionsSorted
        <4> QED
          BY <2>1, <2>2, <4>1, SMT DEF End
      <3> QED
        BY <2>1, <3>1, <3>2, SMT
    <2> QED
      BY <2>1, <2>2, <2>3, AddressAssumption, SMT DEF RangeInRegion
  <1>2. IInv => RegionsExact
    BY <1>1 DEF IInv, RegionsExact
  <1> QED
    BY <1>2, IInvHolds, PTL

\* map_vmo and allocate_anonymous_vmo, over the list and loop by loop, implement
\* the abstract address space: a request gets its size at its hint if that is
\* free; if not, it is refused when it is fixed, gets the lowest free range when
\* it is not, and trips the assert only when no range is free.
THEOREM FirstFitRefinement == Spec => ImplementsAddressSpaceSpec
  <1>1. Init => Abstract!SpecInit
    BY InitIInv
  <1>2. IInv /\ [Next]_vars => [Abstract!SpecNext]_(Abstract!specVars)
    BY NextIInv DEF AbstractStep
  <1> QED
    BY <1>1, <1>2, IInvHolds, PTL DEF Spec, ImplementsAddressSpaceSpec, Abstract!Spec

-----------------------------------------------------------------------------
(* The first stack of a process                                            *)

\* The padding load_elf inserts makes the number of words below the strings even.
LEMMA WordsAreEven ==
    ASSUME NEW argc \in Nat, NEW envc \in Nat, NEW exec_path \in BOOLEAN
    PROVE  \E h \in Nat : StackWords(argc, envc, exec_path) = 2 * h
<1> DEFINE a == AuxEntries(exec_path)
<1>0. a \in Nat
  BY SMT DEF AuxEntries
<1>1. \/ (argc + envc) % 2 = 0 /\ \E k \in Nat : argc + envc = 2 * k
      \/ (argc + envc) % 2 = 1 /\ \E k \in Nat : argc + envc = 2 * k + 1
  <2>1. \E k \in Nat : argc + envc = 2 * k + ((argc + envc) % 2)
    <3>1. argc + envc = 2 * ((argc + envc) \div 2) + ((argc + envc) % 2)
      BY SMT
    <3>2. (argc + envc) \div 2 \in Nat
      BY SMT
    <3> QED BY <3>1, <3>2
  <2>2. (argc + envc) % 2 \in {0, 1}
    BY SMT
  <2> QED BY <2>1, <2>2, SMT
<1>2. CASE (argc + envc) % 2 = 0 /\ \E k \in Nat : argc + envc = 2 * k
  <2>1. PICK k \in Nat : argc + envc = 2 * k
    BY <1>2
  <2>2. StackWords(argc, envc, exec_path) = 2 * (k + a + 2) /\ k + a + 2 \in Nat
    BY <1>0, <1>2, <2>1, SMT DEF StackWords, Padding
  <2> QED BY <2>2
<1>3. CASE (argc + envc) % 2 = 1 /\ \E k \in Nat : argc + envc = 2 * k + 1
  <2>1. PICK k \in Nat : argc + envc = 2 * k + 1
    BY <1>3
  <2>2. StackWords(argc, envc, exec_path) = 2 * (k + a + 3) /\ k + a + 3 \in Nat
    BY <1>0, <1>3, <2>1, SMT DEF StackWords, Padding
  <2> QED BY <2>2
<1> QED BY <1>1, <1>2, <1>3

\* create_elf_process asserts that rsp is a multiple of 16 after load_elf: it is,
\* for every stack, any strings and any number of arguments and variables, with an
\* AT_EXECPATH entry and without.
THEOREM StackIsAligned ==
    ASSUME NEW top \in Int, NEW strings \in Int, NEW argc \in Nat, NEW envc \in Nat,
           NEW exec_path \in BOOLEAN
    PROVE  StackPointer(top, strings, argc, envc, exec_path) % 16 = 0
<1>1. PICK h \in Nat : StackWords(argc, envc, exec_path) = 2 * h
  BY WordsAreEven
<1>2. \E q \in Int : AlignedStrings(top, strings) = 16 * q
  <2>1. top - strings = 16 * ((top - strings) \div 16) + ((top - strings) % 16)
    BY SMT
  <2>2. (top - strings) \div 16 \in Int
    BY SMT
  <2>3. AlignedStrings(top, strings) = 16 * ((top - strings) \div 16)
    BY <2>1, SMT DEF AlignedStrings
  <2> QED BY <2>2, <2>3
<1>3. PICK q \in Int : AlignedStrings(top, strings) = 16 * q
  BY <1>2
<1>4. StackPointer(top, strings, argc, envc, exec_path) = 16 * (q - h)
  BY <1>1, <1>3, SMT DEF StackPointer
<1> QED BY <1>4, SMT
=============================================================================
