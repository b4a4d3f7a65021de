--------------------------- MODULE AddressSpaceSpec ---------------------------
(***************************************************************************)
(* What mm::address_space promises of a request for a region: its size is  *)
(* placed at its hint if the hint is free; otherwise a fixed request is    *)
(* refused and any other gets the lowest free range, unless no range below *)
(* the kernel is free.  Regions never overlap.  Addresses and sizes are    *)
(* counted in pages.  A region is a record of base and size.               *)
(***************************************************************************)
EXTENDS Naturals

CONSTANTS
    Size,       \* the sizes that are requested
    Hint,       \* the bases that are requested; 0 asks for any
    KernelBase  \* memory::KERNEL_VIRTUAL_BASE

VARIABLES
    used,       \* the set of regions
    asked,      \* the request that is not answered yet
    result,     \* the base that the last request returned; 0 is a failure
    full        \* the kernel has stopped: no range was left

specVars == <<used, asked, result, full>>

Request == [size : Size, base : Hint, fixed : BOOLEAN]
NoRequest == [size |-> 0, base |-> 0, fixed |-> FALSE]

Disjoint(b, s, r) == b + s <= r.base \/ r.base + r.size <= b
Fits(b, s) == \A r \in used : Disjoint(b, s, r)

\* The lowest base from page 1 on where s pages fit.
FirstFit(b, s) ==
    /\ b >= 1
    /\ Fits(b, s)
    /\ \A c \in 1 .. b - 1 : ~Fits(c, s)

\* The request has a hint, and the hint is free.
HintIsFree(r) == r.base # 0 /\ Fits(r.base, r.size)

SpecInit == used = {} /\ asked = NoRequest /\ result = 0 /\ full = FALSE

Ask ==
    /\ asked = NoRequest
    /\ asked' \in Request
    /\ UNCHANGED <<used, result, full>>

Place(b) ==
    /\ used' = used \union {[base |-> b, size |-> asked.size]}
    /\ result' = b
    /\ asked' = NoRequest
    /\ UNCHANGED full

AtHint == asked \in Request /\ HintIsFree(asked) /\ Place(asked.base)

Refuse ==
    /\ asked \in Request /\ ~HintIsFree(asked) /\ asked.fixed
    /\ result' = 0
    /\ asked' = NoRequest
    /\ UNCHANGED <<used, full>>

AtFirstFit(b) ==
    /\ asked \in Request /\ ~HintIsFree(asked) /\ ~asked.fixed
    /\ FirstFit(b, asked.size) /\ b + asked.size < KernelBase
    /\ Place(b)

OutOfSpace ==
    /\ asked \in Request /\ ~HintIsFree(asked) /\ ~asked.fixed
    /\ \A b \in 1 .. KernelBase : b + asked.size < KernelBase => ~Fits(b, asked.size)
    /\ full' = TRUE
    /\ UNCHANGED <<used, asked, result>>

SpecNext ==
    /\ ~full
    /\ Ask \/ AtHint \/ Refuse \/ OutOfSpace \/ \E b \in 1 .. KernelBase : AtFirstFit(b)

Spec == SpecInit /\ [][SpecNext]_specVars
=============================================================================
