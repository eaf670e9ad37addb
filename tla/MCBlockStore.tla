---------------------------- MODULE MCBlockStore ----------------------------
(* BlockStore on a chain of four blocks and a branch of two.               *)
EXTENDS BlockStore, TLC

CONSTANTS g, a1, a2, a3, a4, b4, b5

Tree == (a1 :> g) @@ (a2 :> a1) @@ (a3 :> a2) @@ (a4 :> a3) @@ (b4 :> a3) @@ (b5 :> b4)
Heights == (g :> 0) @@ (a1 :> 1) @@ (a2 :> 2) @@ (a3 :> 3) @@ (a4 :> 4) @@ (b4 :> 4) @@ (b5 :> 5)
=============================================================================
