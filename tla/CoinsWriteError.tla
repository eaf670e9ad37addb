--------------------------- MODULE CoinsWriteError ---------------------------
(***************************************************************************)
(* CoinsViewCache with a LevelDB write that may fail.  CCoinsViewDB::      *)
(* BatchWrite empties the maps it is given while it builds the batch, so   *)
(* when db.WriteBatch throws, the changes pcoinsTip held are gone and only *)
(* its best block and best anchor are left.  FlushStateToDisk then calls   *)
(* AbortNode, and Shutdown calls FlushStateToDisk once more.               *)
(***************************************************************************)
EXTENDS CoinsViewCache

VARIABLE aborting   \* AbortNode was called: fRequestShutdown is set

InitWithErrors == Init /\ aborting = FALSE

\* A step of the running node; ActivateBestChain stops once shutdown is requested.
Running == ~aborting /\ Next /\ UNCHANGED aborting

\* pcoinsTip->Flush() throws dbwrapper_error, which FlushStateToDisk catches.
FailedFlushTip ==
    /\ ~aborting /\ ~viewOpen
    /\ ClearTip
    /\ aborting' = TRUE
    /\ UNCHANGED <<dbVars, tipBlock, tipRoot, viewVars, viewOpen>>

\* Shutdown(): FlushStateToDisk(), which succeeds or fails ...
ShutdownFlush == aborting /\ FlushTip /\ UNCHANGED aborting

\* ... and the end of the process, then the next start.
Restart == aborting /\ Crash /\ aborting' = FALSE

NextWithErrors == Running \/ FailedFlushTip \/ ShutdownFlush \/ Restart

SpecWithErrors == InitWithErrors /\ [][NextWithErrors]_<<vars, aborting>>

(* What ConnectBlock says of the first block it connects after a start:    *)
(* "This should never fail: we should always be able to get the root that  *)
(* is on the tip of our chain" (main.cpp:3326), then asserts it: the       *)
(* database can produce the tree of its own best anchor.                   *)
TipRootOnDisk == dbAnchors[dbRoot]
=============================================================================
