--------------------------- MODULE MCNodeThreads ----------------------------
(* NodeThreads with two workers, a queue of one item and one task.         *)
EXTENDS NodeThreads, TLC

CONSTANTS w1, w2, r1, r2

Interval == CheckIfWeShouldStop :> 2
=============================================================================
