-------------------------- MODULE MCCoinsViewCache --------------------------
(* CoinsViewCache with one transaction of two outputs, one nullifier and   *)
(* the roots of two trees.                                                 *)
EXTENDS CoinsViewCache, TLC
=============================================================================
