----------------------------- MODULE BlockStore -----------------------------
(***************************************************************************)
(* What the node keeps on disk and how it gets there (src/src/main.cpp):   *)
(* the block and undo files, the block index database and the coins        *)
(* database, written by AcceptBlock, ConnectBlock and FlushStateToDisk,    *)
(* pruned, lost in part by a crash, and read back by LoadBlockIndexDB and  *)
(* VerifyDB.                                                               *)
(*                                                                         *)
(* All of it happens under cs_main, so the writes of FlushStateToDisk are  *)
(* separate actions only because a crash or an error can come between      *)
(* them.  A file is a row of places that hold one block (or its undo data) *)
(* each.  The coins are represented by the block they belong to.  Which    *)
(* chain is activated is ChainState's subject: here it is any longest one  *)
(* whose blocks are there.                                                 *)
(***************************************************************************)
EXTENDS Integers, Sequences, FiniteSets, FiniteSetsExt

CONSTANTS
    Blocks, Genesis, Parent, Height,
    MAX_BLOCKFILE_SIZE,    \* blocks that fit into a file
    MaxFile,               \* bound: number of the last block file
    MaxUndo,               \* bound: undo records in a file
    BLOCK_DOWNLOAD_WINDOW,
    fPruneMode, nPruneTarget, nPruneAfterHeight, MIN_BLOCKS_TO_KEEP,
    CheckBlocks,           \* the option -checkblocks
    MaxFaults,             \* bound: crashes and failed writes
    NoBlock                \* no block

Files == 0..MaxFile
Places == Files \X (0..(MAX_BLOCKFILE_SIZE - 1))
UndoPlaces == Files \X (0..(MaxUndo - 1))
NoPos == <<>>

ASSUME BlockStoreAssumption ==
    /\ Genesis \in Blocks /\ NoBlock \notin Blocks /\ "exit" \notin Blocks /\ NoBlock # "exit"
    /\ Parent \in [Blocks \ {Genesis} -> Blocks]
    /\ Height \in [Blocks -> Nat] /\ Height[Genesis] = 0
    /\ \A b \in Blocks \ {Genesis} : Height[b] = Height[Parent[b]] + 1
    /\ {MAX_BLOCKFILE_SIZE, MaxUndo} \subseteq Nat \ {0}
    /\ {MaxFile, BLOCK_DOWNLOAD_WINDOW, nPruneTarget, CheckBlocks, MaxFaults} \subseteq Nat
    /\ MIN_BLOCKS_TO_KEEP \in Nat /\ nPruneAfterHeight \in Nat
    /\ MIN_BLOCKS_TO_KEEP <= nPruneAfterHeight
    /\ fPruneMode \in BOOLEAN

VARIABLES
    \* memory
    index,              \* mapBlockIndex: what is known of each block
    vinfoBlockFile, nLastBlockFile,
    setDirtyBlockIndex, setDirtyFileInfo,
    fCheckForPruning,
    coins,              \* the best block of pcoinsTip
    tip,                \* chainActive.Tip()
    pc,                 \* where FlushStateToDisk stands, and what comes after
    \* files as the operating system shows them, and as the disk has them
    blk, rev, blkDisk, revDisk,
    files,              \* the block files that exist
    \* databases
    dbIndex, dbInfo, dbLast,
    dbCoins,            \* the best block of the coins database
    \* history
    prevCoins,          \* dbCoins before its last write, which is not synced
    outdated,           \* those of the two that are older than some pruning
    faults,             \* what went wrong so far
    nFaults             \* crashes and failed writes

memVars == <<index, vinfoBlockFile, nLastBlockFile, setDirtyBlockIndex, setDirtyFileInfo,
             fCheckForPruning, coins, tip>>
fileVars == <<blk, rev, blkDisk, revDisk, files>>
dbVars == <<dbIndex, dbInfo, dbLast, dbCoins, prevCoins, outdated>>
faultVars == <<faults, nFaults>>
vars == <<memVars, pc, fileVars, dbVars, faultVars>>

(* An index entry: data and undo say where the block is and are NoPos      *)
(* without BLOCK_HAVE_DATA, BLOCK_HAVE_UNDO; failed: BLOCK_FAILED_VALID.   *)
Entries == [known : BOOLEAN, data : Places \cup {NoPos}, undo : UndoPlaces \cup {NoPos}, failed : BOOLEAN]
Unknown == [known |-> FALSE, data |-> NoPos, undo |-> NoPos, failed |-> FALSE]
Infos == [nSize : 0..MAX_BLOCKFILE_SIZE, nUndoSize : 0..MaxUndo, nHeightLast : Nat]
NullInfo == [nSize |-> 0, nUndoSize |-> 0, nHeightLast |-> 0]

(* pc.at: "run": cs_main is free; "sync", "index", "unlink", "coins": the  *)
(* steps of FlushStateToDisk; "down"; "corrupt": the databases were        *)
(* refused at the start.  pc.next is the block UpdateTip is called with    *)
(* when FlushStateToDisk has succeeded, NoBlock, or "exit" in Shutdown.    *)
PCs == [at : {"run", "sync", "index", "unlink", "coins", "down", "corrupt"},
        full : BOOLEAN, prune : SUBSET Files, next : Blocks \cup {NoBlock, "exit"}]
At(s) == [at |-> s, full |-> FALSE, prune |-> {}, next |-> NoBlock]
Running == pc.at = "run"

TypeOK ==
    /\ {index, dbIndex} \subseteq [Blocks -> Entries]
    /\ {vinfoBlockFile, dbInfo} \subseteq [Files -> Infos]
    /\ {nLastBlockFile, dbLast} \subseteq Files
    /\ setDirtyBlockIndex \subseteq Blocks /\ setDirtyFileInfo \subseteq Files
    /\ fCheckForPruning \in BOOLEAN
    /\ {coins, tip, dbCoins, prevCoins} \subseteq Blocks
    /\ pc \in PCs
    /\ {blk, blkDisk} \subseteq [Places -> Blocks \cup {NoBlock}]
    /\ {rev, revDisk} \subseteq [UndoPlaces -> Blocks \cup {NoBlock}]
    /\ files \subseteq Files
    /\ outdated \subseteq {prevCoins, dbCoins}
    /\ faults \subseteq {"block", "index", "undo", "behind"}
    /\ nFaults \in 0..MaxFaults

\* After InitBlockIndex on an empty directory.
Init ==
    /\ index = [b \in Blocks |-> IF b = Genesis THEN [Unknown EXCEPT !.known = TRUE, !.data = <<0, 0>>]
                                 ELSE Unknown]
    /\ vinfoBlockFile = [f \in Files |-> IF f = 0 THEN [NullInfo EXCEPT !.nSize = 1] ELSE NullInfo]
    /\ nLastBlockFile = 0
    /\ setDirtyBlockIndex = {} /\ setDirtyFileInfo = {}
    /\ fCheckForPruning = FALSE
    /\ coins = Genesis /\ tip = Genesis
    /\ pc = At("run")
    /\ blk = [p \in Places |-> IF p = <<0, 0>> THEN Genesis ELSE NoBlock]
    /\ rev = [p \in UndoPlaces |-> NoBlock]
    /\ blkDisk = blk /\ revDisk = rev
    /\ files = {0}
    /\ dbIndex = index /\ dbInfo = vinfoBlockFile /\ dbLast = 0
    /\ dbCoins = Genesis /\ prevCoins = Genesis
    /\ outdated = {} /\ faults = {} /\ nFaults = 0

Chain[b \in Blocks] == IF b = Genesis THEN {Genesis} ELSE Chain[Parent[b]] \cup {b}

-----------------------------------------------------------------------------
(* Pruning *)

\* A chunk of a file is one place: every write allocates a new one.
nBuffer == 2

nLastBlockWeCanPrune == Height[tip] - MIN_BLOCKS_TO_KEEP

\* The loop of FindFilesToPrune over the files before the last one.
FindFilesToPrune(info, last) ==
    LET size(f) == info[f].nSize + info[f].nUndoSize
        visit(acc, f) ==
            IF \/ info[f].nSize = 0
               \/ acc.usage + nBuffer < nPruneTarget
               \/ info[f].nHeightLast > nLastBlockWeCanPrune
            THEN acc
            ELSE [usage |-> acc.usage - size(f), found |-> acc.found \cup {f}]
        after[n \in 0..last] ==
            IF n = 0 THEN [usage |-> MapThenSumSet(size, Files), found |-> {}]
            ELSE visit(after[n - 1], n - 1)
    IN  IF Height[tip] <= nPruneAfterHeight THEN {} ELSE after[last].found

InFiles(idx, fs) == {b \in Blocks : idx[b].data # NoPos /\ idx[b].data[1] \in fs}

\* PruneOneBlockFile for every file of fs.
PruneIndex(idx, fs) ==
    [b \in Blocks |-> IF b \in InFiles(idx, fs) THEN [idx[b] EXCEPT !.data = NoPos, !.undo = NoPos]
                      ELSE idx[b]]
PruneInfo(info, fs) == [f \in Files |-> IF f \in fs THEN NullInfo ELSE info[f]]

-----------------------------------------------------------------------------
(* FlushStateToDisk *)

\* What the conditions of each mode allow: a full flush, a write of the block
\* index only, or nothing.
Extents(mode, prune) ==
    IF mode = "ALWAYS" \/ prune # {} THEN {"full"}
    ELSE CASE mode = "NONE" -> {"nothing"}
           [] mode = "IF_NEEDED" -> {"full", "nothing"}
           [] mode = "PERIODIC" -> {"full", "index", "nothing"}

\* When FlushStateToDisk returns true, its caller goes on.
Returned(next) ==
    /\ tip' = IF next \in Blocks THEN next ELSE tip
    /\ pc' = At(IF next = "exit" THEN "down" ELSE "run")

\* The caller has made the index idx, the file infos info, the last file last
\* and the dirty sets db and df; check is fCheckForPruning.
FlushStateToDisk(mode, next, idx, info, last, db, df, check) ==
    LET prune == IF fPruneMode /\ check THEN FindFilesToPrune(info, last) ELSE {}
    IN  /\ index' = PruneIndex(idx, prune)
        /\ vinfoBlockFile' = PruneInfo(info, prune)
        /\ nLastBlockFile' = last
        /\ setDirtyBlockIndex' = db \cup InFiles(idx, prune)
        /\ setDirtyFileInfo' = df \cup prune
        /\ fCheckForPruning' = (check /\ ~fPruneMode)
        /\ \E extent \in Extents(mode, prune) :
               IF extent = "nothing" THEN Returned(next)
               ELSE /\ pc' = [at |-> "sync", full |-> extent = "full", prune |-> prune, next |-> next]
                    /\ UNCHANGED tip

\* FlushBlockFile: only the last file, block and undo, is synced.
SyncedBlk(last, disk, os) == [p \in Places |-> IF p[1] = last THEN os[p] ELSE disk[p]]
SyncedRev(last, disk, os) == [p \in UndoPlaces |-> IF p[1] = last THEN os[p] ELSE disk[p]]

FlushBlockFileOnly ==
    /\ pc.at = "sync"
    /\ blkDisk' = SyncedBlk(nLastBlockFile, blkDisk, blk)
    /\ revDisk' = SyncedRev(nLastBlockFile, revDisk, rev)
    /\ pc' = [pc EXCEPT !.at = IF pc.full THEN "coins" ELSE "index"]
    /\ UNCHANGED <<memVars, blk, rev, files, dbVars, faultVars>>

FlushUndoOnly ==
    /\ pc.at = "sync"
    /\ revDisk' = SyncedRev(nLastBlockFile, revDisk, rev)
    /\ pc' = [pc EXCEPT !.at = "index"]
    /\ UNCHANGED <<memVars, blk, rev, blkDisk, files, dbVars, faultVars>>

FlushBlockFile ==
    /\ pc.at = "sync"
    /\ blkDisk' = SyncedBlk(nLastBlockFile, blkDisk, blk)
    /\ revDisk' = SyncedRev(nLastBlockFile, revDisk, rev)
    /\ pc' = [pc EXCEPT !.at = "index"]
    /\ UNCHANGED <<memVars, blk, rev, files, dbVars, faultVars>>

WriteBatchSync ==
    /\ pc.at = "index"
    /\ dbIndex' = [b \in Blocks |-> IF b \in setDirtyBlockIndex THEN index[b] ELSE dbIndex[b]]
    /\ dbInfo' = [f \in Files |-> IF f \in setDirtyFileInfo THEN vinfoBlockFile[f] ELSE dbInfo[f]]
    /\ dbLast' = nLastBlockFile
    /\ setDirtyBlockIndex' = {} /\ setDirtyFileInfo' = {}
    /\ outdated' = IF pc.prune = {} THEN outdated ELSE {prevCoins, dbCoins}
    /\ IF pc.full
       THEN /\ pc' = [pc EXCEPT !.at = IF pc.prune # {} THEN "unlink" ELSE "coins"]
            /\ UNCHANGED tip
       ELSE Returned(pc.next)
    /\ UNCHANGED <<index, vinfoBlockFile, nLastBlockFile, fCheckForPruning, coins, fileVars,
                   dbCoins, prevCoins, faultVars>>

\* The write fails: the dirty sets are empty by then, AbortNode asks for the
\* shutdown and FlushStateToDisk returns false, so the tip stays.
WriteBatchFails ==
    /\ pc.at = "index" /\ nFaults < MaxFaults
    /\ setDirtyBlockIndex' = {} /\ setDirtyFileInfo' = {}
    /\ pc' = At(IF pc.next = "exit" THEN "down" ELSE "run")
    /\ nFaults' = nFaults + 1
    /\ faults' = faults \cup {"index"}
    /\ UNCHANGED <<index, vinfoBlockFile, nLastBlockFile, fCheckForPruning, coins, tip, fileVars,
                   dbVars>>

UnlinkPrunedFiles ==
    /\ pc.at = "unlink"
    /\ files' = files \ pc.prune
    /\ blk' = [p \in Places |-> IF p[1] \in pc.prune THEN NoBlock ELSE blk[p]]
    /\ rev' = [p \in UndoPlaces |-> IF p[1] \in pc.prune THEN NoBlock ELSE rev[p]]
    /\ blkDisk' = [p \in Places |-> IF p[1] \in pc.prune THEN NoBlock ELSE blkDisk[p]]
    /\ revDisk' = [p \in UndoPlaces |-> IF p[1] \in pc.prune THEN NoBlock ELSE revDisk[p]]
    /\ pc' = [pc EXCEPT !.at = "coins"]
    /\ UNCHANGED <<memVars, dbVars, faultVars>>

FlushCoins ==
    /\ pc.at = "coins"
    /\ dbCoins' = coins
    /\ prevCoins' = dbCoins
    /\ outdated' = (outdated \cap {dbCoins}) \ {coins}
    /\ Returned(pc.next)
    /\ UNCHANGED <<index, vinfoBlockFile, nLastBlockFile, setDirtyBlockIndex, setDirtyFileInfo,
                   fCheckForPruning, coins, fileVars, dbIndex, dbInfo, dbLast, faultVars>>

-----------------------------------------------------------------------------
(* Blocks arrive, are connected and disconnected *)

\* FindBlockPos: the first file from the last one on with room in it.
FileWithRoom == CHOOSE f \in nLastBlockFile..MaxFile :
    /\ vinfoBlockFile[f].nSize < MAX_BLOCKFILE_SIZE
    /\ \A e \in nLastBlockFile..(f - 1) : vinfoBlockFile[e].nSize = MAX_BLOCKFILE_SIZE

\* AcceptBlock; a failed write (written = FALSE) only asks for the shutdown.
\* A file that is left behind is cut to its size and synced.
AcceptBlock(b, written) ==
    /\ Running
    /\ b # Genesis /\ index[Parent[b]].known /\ ~index[Parent[b]].failed
    /\ index[b].data = NoPos /\ ~index[b].failed
    /\ Height[b] <= Height[tip] + BLOCK_DOWNLOAD_WINDOW
    /\ vinfoBlockFile[MaxFile].nSize < MAX_BLOCKFILE_SIZE
    /\ LET f == FileWithRoom
           pos == <<f, vinfoBlockFile[f].nSize>>
           left == f # nLastBlockFile
           old == nLastBlockFile
           cut == [p \in Places |-> IF left /\ p[1] = old /\ p[2] >= vinfoBlockFile[old].nSize
                                    THEN NoBlock ELSE blk[p]]
           cutRev == [p \in UndoPlaces |-> IF left /\ p[1] = old /\ p[2] >= vinfoBlockFile[old].nUndoSize
                                           THEN NoBlock ELSE rev[p]]
       IN  /\ blk' = IF written THEN [cut EXCEPT ![pos] = b] ELSE cut
           /\ rev' = cutRev
           /\ blkDisk' = IF left THEN SyncedBlk(old, blkDisk, cut) ELSE blkDisk
           /\ revDisk' = IF left THEN SyncedRev(old, revDisk, cutRev) ELSE revDisk
           /\ files' = files \cup {f}
           /\ FlushStateToDisk("NONE", NoBlock,
                  [index EXCEPT ![b] = [@ EXCEPT !.known = TRUE, !.data = pos, !.undo = NoPos]],
                  [vinfoBlockFile EXCEPT ![f].nSize = @ + 1, ![f].nHeightLast = Max({@, Height[b]})],
                  f, setDirtyBlockIndex \cup {b}, setDirtyFileInfo \cup {f}, fPruneMode)
    /\ written \/ nFaults < MaxFaults
    /\ nFaults' = IF written THEN nFaults ELSE nFaults + 1
    /\ faults' = IF written THEN faults ELSE faults \cup {"block"}
    /\ UNCHANGED <<coins, dbVars>>

\* The longest chains whose blocks are there from the fork on.
Targets ==
    LET usable == {c \in Blocks : \A b \in Chain[c] \ Chain[tip] : index[b].data # NoPos /\ ~index[b].failed}
        better == {c \in usable : Height[c] > Height[tip]}
    IN  {c \in better : \A d \in better : Height[d] <= Height[c]}

OnTheWay(b) == b # Genesis /\ Parent[b] = tip /\ \E c \in Targets : b \in Chain[c]
Readable(b) == index[b].data # NoPos /\ blk[index[b].data] = b
UndoReadable(b) == index[b].undo # NoPos /\ rev[index[b].undo] = b

UndoNotCounted(info, f) == info
UndoCounted(info, f) == [info EXCEPT ![f].nUndoSize = @ + 1]

\* ConnectTip: undo data is written unless the block has it from before, the
\* coins are brought up to date, and the tip follows after the flush.
ConnectTip(b) ==
    /\ Running /\ OnTheWay(b) /\ Readable(b) /\ coins = Parent[b]
    /\ LET f == index[b].data[1]
           pos == <<f, vinfoBlockFile[f].nUndoSize>>
           new == index[b].undo = NoPos
       IN  /\ new => vinfoBlockFile[f].nUndoSize < MaxUndo
           /\ rev' = IF new THEN [rev EXCEPT ![pos] = b] ELSE rev
           /\ FlushStateToDisk("IF_NEEDED", b,
                  IF new THEN [index EXCEPT ![b].undo = pos] ELSE index,
                  IF new THEN UndoCounted(vinfoBlockFile, f) ELSE vinfoBlockFile,
                  nLastBlockFile,
                  IF new THEN setDirtyBlockIndex \cup {b} ELSE setDirtyBlockIndex,
                  IF new THEN setDirtyFileInfo \cup {f} ELSE setDirtyFileInfo,
                  fCheckForPruning \/ (new /\ fPruneMode))
    /\ coins' = b
    /\ UNCHANGED <<blk, blkDisk, revDisk, files, dbVars, faultVars>>

ConnectAnyway(b) ==
    /\ Running /\ OnTheWay(b) /\ Readable(b) /\ coins = Parent[b]
    /\ index[b].undo = NoPos /\ nFaults < MaxFaults
    /\ LET f == index[b].data[1]
       IN  /\ vinfoBlockFile[f].nUndoSize < MaxUndo
           /\ vinfoBlockFile' = UndoCounted(vinfoBlockFile, f)
           /\ setDirtyFileInfo' = setDirtyFileInfo \cup {f}
    /\ fCheckForPruning' = fPruneMode
    /\ nFaults' = nFaults + 1
    /\ coins' = b
    /\ UNCHANGED <<index, nLastBlockFile, setDirtyBlockIndex, tip, pc, fileVars, dbVars, faults>>

\* UndoWriteToDisk fails: the block is not connected, AbortNode.
ConnectWithoutUndo(b) ==
    /\ Running /\ OnTheWay(b) /\ Readable(b) /\ coins = Parent[b]
    /\ index[b].undo = NoPos /\ nFaults < MaxFaults
    /\ LET f == index[b].data[1]
       IN  /\ vinfoBlockFile[f].nUndoSize < MaxUndo
           /\ vinfoBlockFile' = UndoCounted(vinfoBlockFile, f)
           /\ setDirtyFileInfo' = setDirtyFileInfo \cup {f}
    /\ fCheckForPruning' = fPruneMode
    /\ nFaults' = nFaults + 1
    /\ UNCHANGED <<index, nLastBlockFile, setDirtyBlockIndex, coins, tip, pc, fileVars, dbVars,
                   faults>>

\* A flush that failed in ConnectTip has left the coins ahead of the tip:
\* the next attempt takes the block for an invalid one.
ConnectFails(b) ==
    /\ Running /\ OnTheWay(b) /\ Readable(b) /\ coins # Parent[b]
    /\ index' = [index EXCEPT ![b].failed = TRUE]
    /\ setDirtyBlockIndex' = setDirtyBlockIndex \cup {b}
    /\ UNCHANGED <<vinfoBlockFile, nLastBlockFile, setDirtyFileInfo, fCheckForPruning, coins, tip,
                   pc, fileVars, dbVars, faultVars>>

DisconnectTip ==
    /\ Running /\ Targets # {} /\ \A c \in Targets : tip \notin Chain[c]
    /\ coins = tip /\ Readable(tip) /\ UndoReadable(tip)
    /\ coins' = Parent[tip]
    /\ FlushStateToDisk("IF_NEEDED", Parent[tip], index, vinfoBlockFile, nLastBlockFile,
           setDirtyBlockIndex, setDirtyFileInfo, fCheckForPruning)
    /\ UNCHANGED <<fileVars, dbVars, faultVars>>

\* At the end of ActivateBestChain; gettxoutsetinfo; Shutdown.
Flush(mode, next) ==
    /\ Running
    /\ FlushStateToDisk(mode, next, index, vinfoBlockFile, nLastBlockFile, setDirtyBlockIndex,
           setDirtyFileInfo, fCheckForPruning)
    /\ UNCHANGED <<coins, fileVars, dbVars, faultVars>>

-----------------------------------------------------------------------------
(* Crash and restart *)

\* The process is gone; what was not synced may be lost with the power: block
\* and undo data, and the last write to the coins database.
Crash(lost, lostUndo, c) ==
    /\ pc.at \notin {"down", "corrupt"} /\ nFaults < MaxFaults
    /\ blk' = [p \in Places |-> IF p \in lost THEN blkDisk[p] ELSE blk[p]]
    /\ rev' = [p \in UndoPlaces |-> IF p \in lostUndo THEN revDisk[p] ELSE rev[p]]
    /\ dbCoins' = c
    /\ pc' = At("down")
    /\ nFaults' = nFaults + 1
    /\ faults' = faults
          \cup (IF \E b \in Blocks : dbIndex[b].undo \in lostUndo THEN {"undo"} ELSE {})
          \cup (IF c \in outdated THEN {"behind"} ELSE {})
    /\ prevCoins' = c
    /\ outdated' = outdated \cap {c}
    /\ UNCHANGED <<memVars, blkDisk, revDisk, files, dbIndex, dbInfo, dbLast>>

Unsynced == {p \in Places : blk[p] # blkDisk[p]}
UnsyncedUndo == {p \in UndoPlaces : rev[p] # revDisk[p]}

CrashStep == \E lost \in {{}, Unsynced}, lostUndo \in {{}, UnsyncedUndo}, c \in {prevCoins, dbCoins} :
                 Crash(lost, lostUndo, c)

VerifyOneMore(t) ==
    \A b \in Chain[t] \ {Genesis} : Height[b] + 1 >= Height[t] - CheckBlocks =>
        /\ dbIndex[b].data # NoPos /\ blk[dbIndex[b].data] = b
        /\ dbIndex[b].undo # NoPos /\ rev[dbIndex[b].undo] = b

\* VerifyDB reads the last blocks of the chain of t, and their undo data.
VerifyDB(t) ==
    \A b \in Chain[t] \ {Genesis} : Height[b] >= Height[t] - CheckBlocks =>
        /\ dbIndex[b].data # NoPos /\ blk[dbIndex[b].data] = b
        /\ dbIndex[b].undo # NoPos /\ rev[dbIndex[b].undo] = b

\* LoadBlockIndexDB: the tip is the block of the coins; the files of the
\* blocks that have data must exist.
Loads ==
    /\ dbIndex[dbCoins].known
    /\ \A b \in Blocks : dbIndex[b].data # NoPos => dbIndex[b].data[1] \in files
    /\ VerifyDB(dbCoins)

Restart ==
    /\ pc.at = "down"
    /\ pc' = At(IF Loads THEN "run" ELSE "corrupt")
    /\ index' = dbIndex /\ vinfoBlockFile' = dbInfo /\ nLastBlockFile' = dbLast
    /\ setDirtyBlockIndex' = {} /\ setDirtyFileInfo' = {}
    /\ fCheckForPruning' = FALSE
    /\ coins' = dbCoins /\ tip' = dbCoins
    /\ UNCHANGED <<fileVars, dbVars, faultVars>>

-----------------------------------------------------------------------------
Next ==
    \/ FlushBlockFile \/ WriteBatchSync \/ WriteBatchFails \/ UnlinkPrunedFiles \/ FlushCoins
    \/ \E b \in Blocks : \/ ConnectTip(b) \/ ConnectWithoutUndo(b) \/ ConnectFails(b)
                         \/ \E written \in BOOLEAN : AcceptBlock(b, written)
    \/ DisconnectTip
    \/ Flush("PERIODIC", NoBlock) \/ Flush("ALWAYS", "exit")
    \/ CrashStep \/ Restart

Spec == Init /\ [][Next]_vars

-----------------------------------------------------------------------------
(* The coins database never gets ahead of the block index database: the    *)
(* block it belongs to is indexed, and so are its ancestors, also when the  *)
(* last write of the coins is lost ("This can only be done if the blocks / *)
(* block index write was also done", FlushStateToDisk).                    *)
CoinsTipIndexed ==
    "index" \notin faults =>
        /\ dbIndex[dbCoins].known /\ dbIndex[prevCoins].known
        /\ \A b \in Blocks \ {Genesis} : dbIndex[b].known => dbIndex[Parent[b]].known

(* A block the index database says is on disk is there, synced, at the     *)
(* place it names, whatever was overwritten, cut off or removed since      *)
(* (FlushBlockFile before WriteBatchSync before UnlinkPrunedFiles).        *)
DataOnDisk ==
    faults \cap {"block", "index"} = {} =>
        \A b \in Blocks : dbIndex[b].data # NoPos =>
            dbIndex[b].data[1] \in files /\ blkDisk[dbIndex[b].data] = b

(* Undo data is never overwritten by that of another block: places used    *)
(* before a crash are used again only when nothing refers to them.         *)
UndoNotReused ==
    "index" \notin faults => \A b \in Blocks :
        /\ dbIndex[b].undo # NoPos => rev[dbIndex[b].undo] \in {b, NoBlock}
        /\ Running /\ index[b].undo # NoPos => rev[index[b].undo] \in {b, NoBlock}

(* A valid block is marked as failed only when a write of the block index  *)
(* has failed before (ConnectTip returning early after view.Flush).        *)
ValidUnlessWriteFailed == "index" \notin faults => \A b \in Blocks : ~index[b].failed

(* The node comes back after a clean shutdown and after any crash, unless  *)
(* a write had failed, undo data outside the last file was lost with the   *)
(* power, or the coins database is older than what was pruned.              *)
RestartsUnlessFault == pc.at = "corrupt" => faults # {}

-----------------------------------------------------------------------------
(* The node comes back after a clean shutdown and after any crash.         *)
RestartSucceeds == pc.at # "corrupt"
=============================================================================
