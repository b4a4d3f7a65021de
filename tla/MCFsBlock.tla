------------------------------ MODULE MCFsBlock ------------------------------
(* FsBlock for TLC: readers and wakers are model values given by the        *)
(* configuration.  No symmetry, which is not sound for the liveness         *)
(* property.                                                                *)
EXTENDS FsBlock
=============================================================================
