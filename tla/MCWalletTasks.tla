---------------------------- MODULE MCWalletTasks ----------------------------
(* WalletTasks on small instances: the intervals are scaled down, only     *)
(* their order matters.                                                    *)
EXTENDS WalletTasks, TLC
=============================================================================
