------------------------------- MODULE MCFiles -------------------------------
(* Files with pipes that are interchangeable.                               *)
EXTENDS Files, TLC

Symmetry == Permutations(Pipe)
=============================================================================
