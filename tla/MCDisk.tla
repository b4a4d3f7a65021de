------------------------------- MODULE MCDisk -------------------------------
(* Model of Disk for TLC: block 1 is on the partition, block 2 = block_count  *)
(* is just past it, block 3 is refused.                                       *)
EXTENDS Disk, TLC

MCRequests == {<<1, TRUE>>, <<2, TRUE>>, <<1, FALSE>>, <<3, FALSE>>}
MCBudget == (1 :> 3) @@ (2 :> 2)
=============================================================================
