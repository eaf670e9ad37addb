---------------------------- MODULE MCCheckQueue ----------------------------
(* CheckQueue with two worker threads, up to four checks in a round.       *)
EXTENDS CheckQueue, TLC
=============================================================================
