------------------------------ MODULE MCRWLock ------------------------------
(* RWLock for TLC: the threads are model values given by the configuration. *)
(* No symmetry, which is not sound for the liveness property.               *)
EXTENDS RWLock
=============================================================================
