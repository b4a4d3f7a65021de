------------------------- MODULE MCPhysicalAllocator -------------------------
(* PhysicalAllocator for TLC.                                               *)
EXTENDS PhysicalAllocator
=============================================================================
