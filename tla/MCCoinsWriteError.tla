-------------------------- MODULE MCCoinsWriteError --------------------------
(* CoinsWriteError with two roots and no coins or nullifiers.              *)
EXTENDS CoinsWriteError, TLC
=============================================================================
