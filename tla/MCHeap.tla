------------------------------- MODULE MCHeap -------------------------------
(* Two threads; areas of two pages of ten units, a quantum of two units. The sizes are   *)
(* chosen so that pieces are found again, split with a neighbour behind them, and melted. *)
EXTENDS Heap, TLC
MCSymmetry == Permutations(Threads)
MCSizes == {4, 8, 20}
=============================================================================
