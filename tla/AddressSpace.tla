----------------------------- MODULE AddressSpace -----------------------------
(***************************************************************************)
(* The regions of an mm::address_space (mm/address_space.cpp): map_vmo and *)
(* allocate_anonymous_vmo with the searches allocate_region_at and         *)
(* find_available_region, each turn of a search loop one action, over the  *)
(* kernel's list (klist.hpp) as a sequence.  Every process has one thread, *)
(* so one request runs at a time.  Addresses and sizes are in pages.       *)
(***************************************************************************)
EXTENDS Naturals, Sequences

CONSTANTS
    Size,       \* the sizes that are requested
    Hint,       \* the bases that are requested; 0 asks for any
    KernelBase, \* memory::KERNEL_VIRTUAL_BASE
    UserLimit,  \* the first page that map_virtual_memory_4k refuses (512 GB)
    MaxRegions  \* bound: how many regions are made

\* sys_mmap refuses a size of 0, and ELF segments of size 0 are skipped.
ASSUME AddressAssumption ==
    /\ Size \subseteq Nat \ {0}
    /\ Hint \subseteq Nat
    /\ KernelBase \in Nat
    /\ UserLimit \in Nat
    /\ UserLimit <= KernelBase
    /\ MaxRegions \in Nat

VARIABLES
    regions,    \* _regions
    pc,         \* where the request is
    req,        \* its parameters: size, base and fixed
    i,          \* the position of the list iterator
    base,       \* the local `base` of find_available_region
    result      \* the base of the region that the request returned; 0 is null

vars == <<regions, pc, req, i, base, result>>

Region == [base : Nat, size : Nat]
Request == [size : Size, base : Hint, fixed : BOOLEAN]
NoRequest == [size |-> 0, base |-> 0, fixed |-> FALSE]
End(r) == r.base + r.size

Goto(from, to) == pc = from /\ pc' = to

Init ==
    /\ regions = <<>>
    /\ pc = "idle"
    /\ req = NoRequest
    /\ i = 1
    /\ base = 1
    /\ result = 0

-----------------------------------------------------------------------------
(* map_vmo and allocate_anonymous_vmo                                      *)

\* A request starts; `base &&` decides whether allocate_region_at is tried.
\* A fixed request without a base fails at once.
Call ==
    \E r \in Request :
        /\ Len(regions) < MaxRegions
        /\ Goto("idle", IF r.base # 0 THEN "at" ELSE IF r.fixed THEN "fail" ELSE "find")
        /\ req' = r
        /\ UNCHANGED <<regions, i, base, result>>

\* list::insert: the elements from position k on move up by one.
Inserted(s, k, r) ==
    [j \in 1 .. Len(s) + 1 |-> IF j < k THEN s[j] ELSE IF j = k THEN r ELSE s[j - 1]]

Insert(k, b) ==
    /\ regions' = Inserted(regions, k, [base |-> b, size |-> req.size])
    /\ result' = b

-----------------------------------------------------------------------------
(* allocate_region_at                                                      *)

AtSkip ==
    /\ i <= Len(regions)
    /\ End(regions[i]) <= req.base
    /\ Goto("at", "at")
    /\ i' = i + 1
    /\ UNCHANGED <<regions, req, base, result>>

AtInsert ==
    /\ i <= Len(regions)
    /\ End(regions[i]) > req.base
    /\ regions[i].base >= req.base + req.size
    /\ Goto("at", "map")
    /\ Insert(i, req.base)
    /\ UNCHANGED <<req, i, base>>

\* The range is in use: null is returned, and the caller gives up if the base
\* is fixed.
AtInUse ==
    /\ i <= Len(regions)
    /\ End(regions[i]) > req.base
    /\ regions[i].base < req.base + req.size
    /\ Goto("at", IF req.fixed THEN "fail" ELSE "find")
    /\ i' = 1
    /\ UNCHANGED <<regions, req, base, result>>

AtAdd ==
    /\ i > Len(regions)
    /\ IF Len(regions) = 0 \/ End(regions[Len(regions)]) <= req.base
         THEN /\ Goto("at", "map")
              /\ Insert(Len(regions) + 1, req.base)
         ELSE /\ Goto("at", IF req.fixed THEN "fail" ELSE "find")
              /\ UNCHANGED <<regions, result>>
    /\ i' = 1
    /\ UNCHANGED <<req, base>>

-----------------------------------------------------------------------------
(* find_available_region                                                   *)

FindInsert ==
    /\ i <= Len(regions)
    /\ regions[i].base >= base + req.size
    /\ Goto("find", "map")
    /\ Insert(i, base)
    /\ UNCHANGED <<req, i, base>>

\* Mutant: a candidate range that covers a whole region is not noticed.
PastNoCover(b, s, r) ==
    LET b1 == IF b >= r.base /\ b < End(r) THEN End(r) ELSE b
        b2 == IF b1 + s > r.base /\ b1 + s <= End(r) THEN End(r) ELSE b1
    IN  b2

\* Mutant: the candidate base moves one page too far.
PastOneMore(b, s, r) == IF b < End(r) THEN End(r) + 1 ELSE b

\* The three tests that move the candidate base behind a region: the range
\* begins in the region, ends in it, or covers it.
Past(b, s, r) ==
    LET b1 == IF b >= r.base /\ b < End(r) THEN End(r) ELSE b
        b2 == IF b1 + s > r.base /\ b1 + s <= End(r) THEN End(r) ELSE b1
        b3 == IF b2 < r.base /\ b2 + s > End(r) THEN End(r) ELSE b2
    IN  b3

\* Mutant: a region that has been passed is looked at again.
FindNextAgain ==
    /\ i <= Len(regions)
    /\ regions[i].base < base + req.size
    /\ Goto("find", "find")
    /\ base' = Past(base, req.size, regions[i])
    /\ UNCHANGED <<regions, req, i, result>>

FindNext ==
    /\ i <= Len(regions)
    /\ regions[i].base < base + req.size
    /\ Goto("find", "find")
    /\ base' = Past(base, req.size, regions[i])
    /\ i' = i + 1
    /\ UNCHANGED <<regions, req, result>>

\* Behind the last region.  A null result trips the caller's assert.
FindAdd ==
    /\ i > Len(regions)
    /\ IF base + req.size < KernelBase
         THEN Goto("find", "map") /\ Insert(Len(regions) + 1, base)
         ELSE Goto("find", "assert") /\ UNCHANGED <<regions, result>>
    /\ UNCHANGED <<req, i, base>>

-----------------------------------------------------------------------------
\* The caller maps the pages of the region; map_virtual_memory_4k panics on a
\* page beyond 512 GB.
Map ==
    /\ Goto("map", IF result + req.size <= UserLimit THEN "idle" ELSE "panic")
    /\ req' = NoRequest
    /\ i' = 1
    /\ base' = 1
    /\ UNCHANGED <<regions, result>>

ReturnNull ==
    /\ Goto("fail", "idle")
    /\ req' = NoRequest
    /\ i' = 1
    /\ base' = 1
    /\ result' = 0
    /\ UNCHANGED regions

-----------------------------------------------------------------------------
(* range_in_region                                                         *)

\* The loop returns at the first region: FALSE if the range begins before it,
\* and otherwise TRUE, because the base is then moved to the region's end or is
\* already behind it.
RangeInRegion(b) == Len(regions) > 0 /\ b >= regions[1].base

-----------------------------------------------------------------------------
Next ==
    \/ Call
    \/ AtSkip \/ AtInsert \/ AtInUse \/ AtAdd
    \/ FindInsert \/ FindNext \/ FindAdd
    \/ Map \/ ReturnNull

Spec == Init /\ [][Next]_vars

\* The thread that makes the request is scheduled.
FairSpec ==
    Spec /\ WF_vars(AtSkip \/ AtInsert \/ AtInUse \/ AtAdd \/ FindInsert
                        \/ FindNext \/ FindAdd \/ Map \/ ReturnNull)

-----------------------------------------------------------------------------
(* Properties                                                              *)

\* The list holds regions, the iterator stays at most one past its end.
TypeOK ==
    /\ regions \in Seq(Region)
    /\ pc \in {"idle", "at", "find", "map", "fail", "assert", "panic"}
    /\ req \in Request \union {NoRequest}
    /\ i \in 1 .. Len(regions) + 1
    /\ base \in Nat
    /\ result \in Nat

\* The regions are in ascending order and disjoint, which both searches rely
\* on and every insertion by either of them must keep.
RegionsSorted ==
    \A j, k \in DOMAIN regions : j < k => End(regions[j]) <= regions[k].base

\* range_in_region, the check of a system call's buffer, refuses no range that
\* lies inside a region.
CoveredIsAccepted ==
    \A k \in DOMAIN regions, b \in 1 .. UserLimit :
        regions[k].base <= b /\ b < End(regions[k]) => RangeInRegion(b)

\* Until a request is answered, or the assert on it has stopped the kernel.
Asked == IF pc \in {"at", "find", "fail", "assert"} THEN req ELSE NoRequest

\* The two searches answer every request as the abstract address space does: its
\* size at its hint if that is free, else null if it is fixed, else the lowest
\* free range, and the assert stops the kernel only if there is none.
Abstract ==
    INSTANCE AddressSpaceSpec
        WITH used <- {regions[k] : k \in DOMAIN regions},
             asked <- Asked,
             full <- pc = "assert"
ImplementsAddressSpaceSpec == Abstract!Spec

\* Every request is answered or stops the kernel: the searches end.
RequestEnds == (pc \in {"at", "find", "map", "fail"}) ~> (pc \in {"idle", "assert", "panic"})

\* The list both searches and range_in_region walk is sorted and disjoint, and
\* every address in one of its regions passes the check of a buffer.
RegionsExact == TypeOK /\ RegionsSorted /\ CoveredIsAccepted
=============================================================================
