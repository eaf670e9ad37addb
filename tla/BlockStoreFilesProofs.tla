----------------------- MODULE BlockStoreFilesProofs ------------------------
(* Proofs about the files of BlockStore, for any tree of blocks, any file  *)
(* sizes and any number of crashes: as long as no write fails, the blocks  *)
(* the index database refers to are on disk, their undo data is not        *)
(* overwritten, and the node comes back: always when it does not prune,    *)
(* and when it does, if pruning stays clear of the forks and of the blocks *)
(* that are checked at the start.                                          *)
EXTENDS BlockStoreProofs

-----------------------------------------------------------------------------
(* The layout of the files.                                                *)

\* The blocks of idx are in files up to the last one, before the place where
\* the next block goes.
InRange(idx, info, last) ==
    \A b \in Blocks : idx[b].data # NoPos =>
        \/ idx[b].data[1] < last
        \/ idx[b].data[1] = last /\ idx[b].data[2] < info[last].nSize

\* Undo data is beside the block, before the place where the next goes.
UndoInRange(idx, info) ==
    \A b \in Blocks : idx[b].undo # NoPos =>
        /\ idx[b].data # NoPos /\ idx[b].undo[1] = idx[b].data[1]
        /\ idx[b].undo[2] < info[idx[b].undo[1]].nUndoSize

\* So is that of the database, or no block is left in its file.
DbUndoFree(idx, info, last) ==
    \A b \in Blocks : dbIndex[b].undo # NoPos =>
        \/ dbIndex[b].undo[2] < info[dbIndex[b].undo[1]].nUndoSize
        \/ /\ dbIndex[b].undo[1] < last
           /\ \A c \in Blocks : idx[c].data # NoPos => idx[c].data[1] # dbIndex[b].undo[1]

\* What memory says of the files: what differs from the databases is dirty.
Mem(idx, info, last, db, df) ==
    /\ \A b \in Blocks : b \notin db => idx[b] = dbIndex[b]
    /\ \A f \in Files : f \notin df => info[f] = dbInfo[f]
    /\ dbLast <= last
    /\ InRange(idx, info, last) /\ InRange(dbIndex, info, last)
    /\ UndoInRange(idx, info) /\ DbUndoFree(idx, info, last)

\* The index is clean once it is written, and no block is in a file that is
\* about to be removed.
Stage ==
    /\ pc.at \in {"unlink", "coins"} => setDirtyBlockIndex = {}
    /\ pc.at \in {"sync", "index", "unlink"} =>
           \A b \in Blocks : index[b].data # NoPos => index[b].data[1] \notin pc.prune

LayoutOnDisk == InRange(dbIndex, dbInfo, dbLast) /\ UndoInRange(dbIndex, dbInfo)
LayoutInMemory == Mem(index, vinfoBlockFile, nLastBlockFile, setDirtyBlockIndex, setDirtyFileInfo) /\ Stage
Layout == "index" \notin faults => LayoutOnDisk /\ (Up => LayoutInMemory)

\* What FlushStateToDisk does to the index idx and the infos info when it
\* prunes the files P.
Shrunk(P, idx, info, last, db, df) ==
    /\ last \notin P /\ (\A f \in P : f < last) /\ (~fPruneMode => P = {})
    /\ \A b \in Blocks :
           /\ index'[b].data # NoPos => index'[b] = idx[b] /\ idx[b].data[1] \notin P
           /\ index'[b].undo # NoPos => index'[b] = idx[b]
           /\ b \notin setDirtyBlockIndex' => index'[b] = idx[b] /\ b \notin db
           /\ P = {} => index'[b] = idx[b]
    /\ \A f \in Files :
           /\ f \notin P => vinfoBlockFile'[f] = info[f]
           /\ f \notin setDirtyFileInfo' => vinfoBlockFile'[f] = info[f] /\ f \notin df
    /\ nLastBlockFile' = last
    /\ pc'.at \in {"run", "down", "sync"} /\ pc'.prune = P

\* It does so for some P.
LEMMA FlushShrinks ==
    ASSUME NEW mode, NEW next, NEW idx, NEW info, NEW last, NEW db, NEW df, NEW check,
           Typed(next, idx, info, last, db, df, check),
           FlushStateToDisk(mode, next, idx, info, last, db, df, check)
    PROVE  \E P : Shrunk(P, idx, info, last, db, df)
<1>1. last \in Nat /\ next \in Nexts /\ idx \in [Blocks -> Entries] /\ info \in [Files -> Infos]
  BY Zenon, PlaceParts DEF Typed
<1>2. PICK P : /\ P \subseteq {f \in Nat : f < last} /\ (~fPruneMode => P = {})
               /\ index' = PruneIndex(idx, P) /\ vinfoBlockFile' = PruneInfo(info, P)
               /\ nLastBlockFile' = last
               /\ setDirtyBlockIndex' = db \cup InFiles(idx, P) /\ setDirtyFileInfo' = df \cup P
               /\ fCheckForPruning' = (check /\ ~fPruneMode)
               /\ \/ P = {} /\ Returned(next)
                  \/ \E full \in BOOLEAN : /\ pc' = [at |-> "sync", full |-> full, prune |-> P, next |-> next]
                                           /\ UNCHANGED tip
  BY Zenon, <1>1, FlushParts
<1>3. last \notin P /\ \A f \in P : f < last
  <2>1. ~(last < last)
    BY <1>1
  <2> QED BY Zenon, <1>2, <2>1
<1>4. /\ \A b \in Blocks :
             IF idx[b].data # NoPos /\ idx[b].data[1] \in P
             THEN index'[b].data = NoPos /\ index'[b].undo = NoPos
             ELSE index'[b] = idx[b]
      /\ \A f \in Files : vinfoBlockFile'[f] = IF f \in P THEN NullInfo ELSE info[f]
  <2>1. Without(P, idx, info, PruneIndex(idx, P), PruneInfo(info, P))
    BY Zenon, <1>1, PruneTypes
  <2>2. index' = PruneIndex(idx, P) /\ vinfoBlockFile' = PruneInfo(info, P)
    BY Zenon, <1>2
  <2> QED BY Zenon, <2>1, <2>2 DEF Without
<1>5. \A b \in Blocks : /\ index'[b].data # NoPos => index'[b] = idx[b] /\ idx[b].data[1] \notin P
                        /\ index'[b].undo # NoPos => index'[b] = idx[b]
                        /\ b \notin setDirtyBlockIndex' => index'[b] = idx[b] /\ b \notin db
                        /\ P = {} => index'[b] = idx[b]
  BY Zenon, <1>2, <1>4 DEF InFiles
<1>6. \A f \in Files : /\ f \notin P => vinfoBlockFile'[f] = info[f]
                       /\ f \notin setDirtyFileInfo' => vinfoBlockFile'[f] = info[f] /\ f \notin df
  BY Zenon, <1>2, <1>4
<1>7. pc'.at \in {"run", "down", "sync"} /\ pc'.prune = P
  <2>1. CASE P = {} /\ Returned(next)
    <3>1. pc' = [at |-> IF next = "exit" THEN "down" ELSE "run", full |-> FALSE, prune |-> {}, next |-> NoBlock]
      BY Zenon, <2>1 DEF Returned, At
    <3> QED BY Zenon, <2>1, <3>1
  <2>2. CASE \E full \in BOOLEAN : /\ pc' = [at |-> "sync", full |-> full, prune |-> P, next |-> next]
                                   /\ UNCHANGED tip
    <3>1. PICK full \in BOOLEAN : pc' = [at |-> "sync", full |-> full, prune |-> P, next |-> next]
      BY Zenon, <2>2
    <3>2. pc'.at = "sync" /\ pc'.prune = P
      BY SMT, <3>1
    <3> QED BY Zenon, <3>2
  <2> QED BY Zenon, <1>2, <2>1, <2>2
<1>8. Shrunk(P, idx, info, last, db, df)
  BY Zenon, <1>2, <1>3, <1>5, <1>6, <1>7 DEF Shrunk
<1> QED BY Zenon, <1>8

\* Pruning keeps the layout.
LEMMA ShrunkLayout ==
    ASSUME Flat, NEW next, NEW idx, NEW info, NEW last, NEW db, NEW df, NEW check, NEW P,
           Typed(next, idx, info, last, db, df, check),
           Shrunk(P, idx, info, last, db, df), Mem(idx, info, last, db, df),
           UNCHANGED <<dbIndex, dbInfo, dbLast>>
    PROVE  LayoutInMemory'
<1> DEFINE i == index'
           v == vinfoBlockFile'
           sb == setDirtyBlockIndex'
           sf == setDirtyFileInfo'
<1>0. last \in Files /\ v[last] = info[last] /\ nLastBlockFile' = last
  BY Zenon DEF Typed, Shrunk
<1>1. (\A b \in Blocks : b \notin sb => i[b] = dbIndex[b]) /\ (\A f \in Files : f \notin sf => v[f] = dbInfo[f])
  BY Zenon DEF Shrunk, Mem
<1>2. InRange(i, v, last) /\ InRange(dbIndex, v, last)
  BY Zenon, <1>0 DEF Shrunk, Mem, InRange
<1>3. UndoInRange(i, v)
  <2> SUFFICES ASSUME NEW b \in Blocks, i[b].undo # NoPos
               PROVE  /\ i[b].data # NoPos /\ i[b].undo[1] = i[b].data[1]
                      /\ i[b].undo[2] < v[i[b].undo[1]].nUndoSize
    BY Zenon DEF UndoInRange
  <2>1. i[b] = idx[b] /\ idx[b].undo # NoPos
    BY Zenon DEF Shrunk
  <2>2. /\ idx[b].data # NoPos /\ idx[b].undo[1] = idx[b].data[1]
        /\ idx[b].undo[2] < info[idx[b].undo[1]].nUndoSize
    BY Zenon, <2>1 DEF Mem, UndoInRange
  <2>3. idx[b].data[1] \notin P
    BY Zenon, <2>1, <2>2 DEF Shrunk
  <2>4. idx[b].undo[1] \in Files
    <3>1. idx[b] \in Entries
      BY Zenon DEF Typed
    <3> QED BY Zenon, <2>1, <3>1, RecordParts, PlaceParts
  <2>5. v[idx[b].undo[1]] = info[idx[b].undo[1]]
    BY Zenon, <2>2, <2>3, <2>4 DEF Shrunk
  <2> QED BY Zenon, <2>1, <2>2, <2>5
<1>4. DbUndoFree(i, v, last)
  <2> SUFFICES ASSUME NEW b \in Blocks, dbIndex[b].undo # NoPos
               PROVE  \/ dbIndex[b].undo[2] < v[dbIndex[b].undo[1]].nUndoSize
                      \/ /\ dbIndex[b].undo[1] < last
                         /\ \A c \in Blocks : i[c].data # NoPos => i[c].data[1] # dbIndex[b].undo[1]
    BY Zenon DEF DbUndoFree
  <2>1. dbIndex[b].undo[1] \in Files
    <3>1. dbIndex[b] \in Entries
      BY Zenon DEF Flat
    <3> QED BY Zenon, <3>1, RecordParts, PlaceParts
  <2>2. CASE dbIndex[b].undo[1] \in P
    BY Zenon, <2>2 DEF Shrunk
  <2>3. CASE dbIndex[b].undo[1] \notin P
    <3>1. v[dbIndex[b].undo[1]] = info[dbIndex[b].undo[1]]
      BY Zenon, <2>1, <2>3 DEF Shrunk
    <3>2. \/ dbIndex[b].undo[2] < info[dbIndex[b].undo[1]].nUndoSize
          \/ /\ dbIndex[b].undo[1] < last
             /\ \A c \in Blocks : idx[c].data # NoPos => idx[c].data[1] # dbIndex[b].undo[1]
      BY Zenon DEF Mem, DbUndoFree
    <3>3. \A c \in Blocks : i[c].data # NoPos => i[c] = idx[c]
      BY Zenon DEF Shrunk
    <3> HIDE DEF i, v
    <3> QED BY Zenon, <3>1, <3>2, <3>3
  <2> QED BY Zenon, <2>2, <2>3
<1>5. dbLast <= last
  BY Zenon DEF Mem
<1>6. Mem(i, v, last, sb, sf)
  BY Zenon, <1>1, <1>2, <1>3, <1>4, <1>5 DEF Mem
<1>7. (Mem(index, vinfoBlockFile, nLastBlockFile, setDirtyBlockIndex, setDirtyFileInfo))'
  BY Zenon, <1>0, <1>6 DEF Mem, InRange, UndoInRange, DbUndoFree
<1>8. Stage'
  BY Zenon DEF Stage, Shrunk
<1> QED BY Zenon, <1>7, <1>8 DEF LayoutInMemory

\* The numbers in an index and in file infos.
Numbers(idx, info) ==
    /\ \A b \in Blocks : idx[b].data # NoPos => idx[b].data \in Places /\ idx[b].data[1] \in Nat /\ idx[b].data[2] \in Nat
    /\ \A b \in Blocks : idx[b].undo # NoPos => idx[b].undo \in UndoPlaces /\ idx[b].undo[1] \in Files /\ idx[b].undo[2] \in Nat
    /\ \A f \in Files : f \in Nat /\ info[f].nSize \in Nat /\ info[f].nUndoSize \in Nat

\* They are natural numbers.
LEMMA NumberTypes ==
    ASSUME NEW idx \in [Blocks -> Entries], NEW info \in [Files -> Infos]
    PROVE  Numbers(idx, info)
<1>1. \A b \in Blocks : idx[b] \in Entries
  BY Zenon
<1>2. \A b \in Blocks : /\ idx[b].data # NoPos => idx[b].data \in Places /\ idx[b].data[1] \in Nat /\ idx[b].data[2] \in Nat
                        /\ idx[b].undo # NoPos => idx[b].undo \in UndoPlaces /\ idx[b].undo[1] \in Files /\ idx[b].undo[2] \in Nat
  <2> SUFFICES ASSUME NEW b \in Blocks
               PROVE  /\ idx[b].data # NoPos => idx[b].data \in Places /\ idx[b].data[1] \in Nat /\ idx[b].data[2] \in Nat
                      /\ idx[b].undo # NoPos => idx[b].undo \in UndoPlaces /\ idx[b].undo[1] \in Files /\ idx[b].undo[2] \in Nat
    BY Zenon
  <2>1. idx[b].data \in Places \cup {NoPos} /\ idx[b].undo \in UndoPlaces \cup {NoPos}
    BY Zenon, <1>1, RecordParts
  <2> QED BY Zenon, <2>1, PlaceParts
<1>3. ASSUME NEW f \in Files PROVE f \in Nat /\ info[f].nSize \in Nat /\ info[f].nUndoSize \in Nat
  <2>1. info[f].nSize \in 0 .. MAX_BLOCKFILE_SIZE /\ info[f].nUndoSize \in 0 .. MaxUndo
    BY Zenon, RecordParts
  <2>2. info[f].nSize \in Nat /\ info[f].nUndoSize \in Nat
    BY <2>1, BlockStoreAssumption
  <2> QED BY Zenon, <2>2, PlaceParts
<1> QED BY Zenon, <1>2, <1>3 DEF Numbers

LEMMA AllNumbers == Flat => /\ Numbers(index, vinfoBlockFile) /\ Numbers(dbIndex, dbInfo)
                            /\ Numbers(dbIndex, vinfoBlockFile)
BY Zenon, NumberTypes DEF Flat

\* A block goes to file f, the last one or a later one.
LEMMA RangeGrows ==
    ASSUME Flat, NEW idx, Numbers(idx, vinfoBlockFile), NEW f \in Files, nLastBlockFile <= f,
           NEW info, info[f].nSize = vinfoBlockFile[f].nSize + 1, InRange(idx, vinfoBlockFile, nLastBlockFile)
    PROVE  InRange(idx, info, f)
<1> SUFFICES ASSUME NEW b \in Blocks, idx[b].data # NoPos
             PROVE  idx[b].data[1] < f \/ (idx[b].data[1] = f /\ idx[b].data[2] < info[f].nSize)
  BY Zenon DEF InRange
<1>1. \/ idx[b].data[1] < nLastBlockFile
      \/ idx[b].data[1] = nLastBlockFile /\ idx[b].data[2] < vinfoBlockFile[nLastBlockFile].nSize
  BY Zenon DEF InRange
<1>2. /\ idx[b].data[1] \in Nat /\ idx[b].data[2] \in Nat /\ nLastBlockFile \in Nat /\ f \in Nat
      /\ vinfoBlockFile[f].nSize \in Nat
  BY Zenon DEF Numbers, Flat
<1>3. CASE nLastBlockFile = f
  BY SMT, <1>1, <1>2, <1>3
<1>4. CASE nLastBlockFile # f
  BY SMT, <1>1, <1>2, <1>4
<1> QED BY Zenon, <1>3, <1>4

\* AcceptBlock keeps the layout.
LEMMA AcceptLayout ==
    ASSUME Inv, Flat, NEW b \in Blocks, NEW written \in BOOLEAN, AcceptBlock(b, written), LayoutInMemory
    PROVE  LayoutInMemory'
<1> DEFINE db == setDirtyBlockIndex \cup {b}
<1>1. PICK f, idx, info : Accepted(b, written, f, idx, info)
  BY Zenon, AcceptParts
<1> DEFINE df == setDirtyFileInfo \cup {f}
           n == vinfoBlockFile[f].nSize
           pos == <<f, n>>
<1>2. /\ f \in Files /\ nLastBlockFile <= f /\ pos \in Places
      /\ idx \in [Blocks -> Entries] /\ HasEntry(idx, index, b, TRUE, pos, NoPos, index[b].failed)
      /\ HasInfo(info, vinfoBlockFile, f, n + 1, vinfoBlockFile[f].nUndoSize)
      /\ FlushStateToDisk("NONE", NoBlock, idx, info, f, db, df, fPruneMode)
  BY Zenon, <1>1 DEF Accepted
<1>3. /\ idx[b].data = pos /\ idx[b].undo = NoPos /\ \A c \in Blocks : c # b => idx[c] = index[c]
      /\ info[f].nSize = n + 1 /\ info[f].nUndoSize = vinfoBlockFile[f].nUndoSize
      /\ \A e \in Files : e # f => info[e] = vinfoBlockFile[e]
  BY Zenon, <1>2 DEF HasEntry, HasInfo
<1>4. Mem(index, vinfoBlockFile, nLastBlockFile, setDirtyBlockIndex, setDirtyFileInfo)
  BY Zenon DEF LayoutInMemory
<1>5. f \in Nat /\ n \in Nat /\ nLastBlockFile \in Nat /\ dbLast \in Nat
  BY Zenon, <1>2, AllNumbers DEF Numbers, Flat
<1>6. pos[1] = f /\ pos[2] = n
  BY Zenon, <1>2, <1>5, PlaceParts
<1>7. /\ \A c \in Blocks : c \notin db => idx[c] = dbIndex[c]
      /\ \A e \in Files : e \notin df => info[e] = dbInfo[e]
  BY Zenon, <1>3, <1>4 DEF Mem
<1>8. dbLast <= f
  <2>1. dbLast <= nLastBlockFile
    BY Zenon, <1>4 DEF Mem
  <2> QED BY SMT, <1>2, <1>5, <2>1
<1>9. InRange(index, info, f) /\ InRange(dbIndex, info, f)
  BY Zenon, <1>2, <1>3, <1>4, AllNumbers, RangeGrows DEF Mem
<1>10. InRange(idx, info, f)
  <2>1. n < n + 1
    BY <1>5
  <2> HIDE DEF pos, n
  <2> QED BY Zenon, <1>3, <1>6, <1>9, <2>1 DEF InRange
<1>11. \A e \in Files : info[e].nUndoSize = vinfoBlockFile[e].nUndoSize
  BY Zenon, <1>3
<1>12. UndoInRange(idx, info)
  <2> SUFFICES ASSUME NEW c \in Blocks, idx[c].undo # NoPos
               PROVE  /\ idx[c].data # NoPos /\ idx[c].undo[1] = idx[c].data[1]
                      /\ idx[c].undo[2] < info[idx[c].undo[1]].nUndoSize
    BY Zenon DEF UndoInRange
  <2>1. idx[c] = index[c] /\ index[c].undo # NoPos
    BY Zenon, <1>3
  <2>2. index[c].undo[1] \in Files
    BY Zenon, <2>1, AllNumbers DEF Numbers
  <2> QED BY Zenon, <1>4, <1>11, <2>1, <2>2 DEF Mem, UndoInRange
<1>13. DbUndoFree(idx, info, f)
  <2> SUFFICES ASSUME NEW c \in Blocks, dbIndex[c].undo # NoPos
               PROVE  \/ dbIndex[c].undo[2] < info[dbIndex[c].undo[1]].nUndoSize
                      \/ /\ dbIndex[c].undo[1] < f
                         /\ \A d \in Blocks : idx[d].data # NoPos => idx[d].data[1] # dbIndex[c].undo[1]
    BY Zenon DEF DbUndoFree
  <2> DEFINE g == dbIndex[c].undo[1]
  <2>1. g \in Files /\ g \in Nat
    BY Zenon, AllNumbers DEF Numbers
  <2>2. \/ dbIndex[c].undo[2] < vinfoBlockFile[g].nUndoSize
        \/ /\ g < nLastBlockFile
           /\ \A d \in Blocks : index[d].data # NoPos => index[d].data[1] # g
    BY Zenon, <1>4 DEF Mem, DbUndoFree
  <2>3. g < nLastBlockFile => g < f /\ g # f
    BY SMT, <1>2, <1>5, <2>1
  <2> HIDE DEF g, pos, n
  <2>4. \/ dbIndex[c].undo[2] < info[g].nUndoSize
        \/ /\ g < f
           /\ \A d \in Blocks : idx[d].data # NoPos => idx[d].data[1] # g
    <3>1. CASE dbIndex[c].undo[2] < vinfoBlockFile[g].nUndoSize
      BY Zenon, <1>11, <2>1, <3>1
    <3>2. CASE g < nLastBlockFile /\ \A d \in Blocks : index[d].data # NoPos => index[d].data[1] # g
      BY Zenon, <1>3, <1>6, <2>3, <3>2
    <3> QED BY Zenon, <2>2, <3>1, <3>2
  <2> QED BY Zenon, <2>4 DEF g
<1>14. Mem(idx, info, f, db, df)
  BY Zenon, <1>7, <1>8, <1>9, <1>10, <1>12, <1>13 DEF Mem
<1>15. Typed(NoBlock, idx, info, f, db, df, fPruneMode) /\ UNCHANGED <<dbIndex, dbInfo, dbLast>>
  BY Zenon, <1>2, BlockStoreAssumption DEF Typed, Nexts, HasInfo, Flat, AcceptBlock, dbVars
<1> HIDE DEF db, df
<1>16. PICK P : Shrunk(P, idx, info, f, db, df)
  BY Zenon, <1>2, <1>15, FlushShrinks
<1> QED BY Zenon, <1>14, <1>15, <1>16, ShrunkLayout

\* One more place for undo data is taken in file f: what this changes, and
\* what it leaves.
UndoTaken(info, f) ==
    HasInfo(info, vinfoBlockFile, f, vinfoBlockFile[f].nSize, vinfoBlockFile[f].nUndoSize + 1)

StillInRange(info, f) ==
    /\ InRange(index, info, nLastBlockFile) /\ InRange(dbIndex, info, nLastBlockFile)
    /\ UndoInRange(index, info) /\ DbUndoFree(index, info, nLastBlockFile)
    /\ \A e \in Files : e # f => info[e] = vinfoBlockFile[e]
    /\ \A e \in Files : info[e].nUndoSize \in Nat /\ vinfoBlockFile[e].nUndoSize <= info[e].nUndoSize

\* Everything stays in range.
LEMMA MoreUndo ==
    ASSUME Flat, NEW f \in Files, NEW info, LayoutInMemory, UndoTaken(info, f)
    PROVE  StillInRange(info, f)
<1>1. Mem(index, vinfoBlockFile, nLastBlockFile, setDirtyBlockIndex, setDirtyFileInfo)
  BY Zenon DEF LayoutInMemory
<1>2. /\ info[f].nSize = vinfoBlockFile[f].nSize /\ info[f].nUndoSize = vinfoBlockFile[f].nUndoSize + 1
      /\ \A e \in Files : e # f => info[e] = vinfoBlockFile[e]
  BY Zenon DEF UndoTaken, HasInfo
<1>3. \A e \in Files : vinfoBlockFile[e].nUndoSize \in Nat
  BY Zenon, AllNumbers DEF Numbers
<1>4. \A e \in Files : info[e].nSize = vinfoBlockFile[e].nSize
  BY Zenon, <1>2
<1>5. /\ info[f].nUndoSize \in Nat /\ vinfoBlockFile[f].nUndoSize <= info[f].nUndoSize
      /\ \A m \in Nat : m < vinfoBlockFile[f].nUndoSize => m < info[f].nUndoSize
      /\ \A m \in Nat : m <= m
  BY SMT, <1>2, <1>3
<1>6. \A e \in Files : /\ info[e].nUndoSize \in Nat /\ vinfoBlockFile[e].nUndoSize <= info[e].nUndoSize
                       /\ \A m \in Nat : m < vinfoBlockFile[e].nUndoSize => m < info[e].nUndoSize
  BY Zenon, <1>2, <1>3, <1>5
<1>7. InRange(index, info, nLastBlockFile) /\ InRange(dbIndex, info, nLastBlockFile)
  <2>1. nLastBlockFile \in Files
    BY Zenon DEF Flat
  <2> QED BY Zenon, <1>1, <1>4, <2>1 DEF Mem, InRange
<1>8. UndoInRange(index, info)
  <2>1. \A b \in Blocks : index[b].undo # NoPos => index[b].undo[1] \in Files /\ index[b].undo[2] \in Nat
    BY Zenon, AllNumbers DEF Numbers
  <2> QED BY Zenon, <1>1, <1>6, <2>1 DEF Mem, UndoInRange
<1>9. DbUndoFree(index, info, nLastBlockFile)
  <2>1. \A b \in Blocks : dbIndex[b].undo # NoPos => dbIndex[b].undo[1] \in Files /\ dbIndex[b].undo[2] \in Nat
    BY Zenon, AllNumbers DEF Numbers
  <2> QED BY Zenon, <1>1, <1>6, <2>1 DEF Mem, DbUndoFree
<1> QED BY Zenon, <1>2, <1>6, <1>7, <1>8, <1>9 DEF StillInRange

\* The ranges depend on the places of the blocks only.
LEMMA SameData ==
    ASSUME NEW idx, NEW new, NEW info, NEW last, \A b \in Blocks : new[b].data = idx[b].data,
           InRange(idx, info, last), DbUndoFree(idx, info, last)
    PROVE  InRange(new, info, last) /\ DbUndoFree(new, info, last)
<1>1. InRange(new, info, last)
  BY Zenon DEF InRange
<1>2. DbUndoFree(new, info, last)
  <2> SUFFICES ASSUME NEW b \in Blocks, dbIndex[b].undo # NoPos
               PROVE  \/ dbIndex[b].undo[2] < info[dbIndex[b].undo[1]].nUndoSize
                      \/ /\ dbIndex[b].undo[1] < last
                         /\ \A c \in Blocks : new[c].data # NoPos => new[c].data[1] # dbIndex[b].undo[1]
    BY Zenon DEF DbUndoFree
  <2>1. \/ dbIndex[b].undo[2] < info[dbIndex[b].undo[1]].nUndoSize
        \/ /\ dbIndex[b].undo[1] < last
           /\ \A c \in Blocks : idx[c].data # NoPos => idx[c].data[1] # dbIndex[b].undo[1]
    BY Zenon DEF DbUndoFree
  <2> QED BY Zenon, <2>1
<1> QED BY Zenon, <1>1, <1>2

\* FlushStateToDisk keeps the layout of what its caller has made.
LEMMA FlushLayout ==
    ASSUME Flat, NEW mode, NEW next, NEW idx, NEW info, NEW last, NEW db, NEW df, NEW check,
           Typed(next, idx, info, last, db, df, check),
           FlushStateToDisk(mode, next, idx, info, last, db, df, check),
           Mem(idx, info, last, db, df), UNCHANGED dbVars
    PROVE  LayoutInMemory'
<1>1. PICK P : Shrunk(P, idx, info, last, db, df)
  BY Zenon, FlushShrinks
<1>2. UNCHANGED <<dbIndex, dbInfo, dbLast>>
  BY Zenon DEF dbVars
<1> QED BY Zenon, <1>1, <1>2, ShrunkLayout

\* ConnectTip keeps the layout.
LEMMA ConnectLayout ==
    ASSUME Inv, Flat, NEW b \in Blocks, ConnectTip(b), LayoutInMemory
    PROVE  LayoutInMemory'
<1>1. PICK idx, info, db, df, check : Connects(b, idx, info, db, df, check)
  BY Zenon, ConnectParts
<1>2. /\ Typed(b, idx, info, nLastBlockFile, db, df, check)
      /\ FlushStateToDisk("IF_NEEDED", b, idx, info, nLastBlockFile, db, df, check)
  BY Zenon, <1>1 DEF Connects, Nexts, Flat, Typed
<1>3. UNCHANGED dbVars
  BY Zenon DEF ConnectTip
<1>4. Mem(index, vinfoBlockFile, nLastBlockFile, setDirtyBlockIndex, setDirtyFileInfo)
  BY Zenon DEF LayoutInMemory
<1>5. CASE index[b].undo # NoPos
  <2>1. idx = index /\ info = vinfoBlockFile /\ db = setDirtyBlockIndex /\ df = setDirtyFileInfo
    BY Zenon, <1>1, <1>5 DEF Connects
  <2>2. Mem(idx, info, nLastBlockFile, db, df)
    BY Zenon, <1>4, <2>1
  <2> QED BY Zenon, <1>2, <1>3, <2>2, FlushLayout
<1>6. CASE index[b].undo = NoPos
  <2> DEFINE f == index[b].data[1]
             n == vinfoBlockFile[f].nUndoSize
             pos == <<f, n>>
  <2>1. /\ index[b].data \in Places /\ f \in Files /\ pos \in UndoPlaces
        /\ HasEntry(idx, index, b, index[b].known, index[b].data, pos, index[b].failed)
        /\ HasInfo(info, vinfoBlockFile, f, vinfoBlockFile[f].nSize, n + 1)
        /\ db = setDirtyBlockIndex \cup {b} /\ df = setDirtyFileInfo \cup {f}
    BY Zenon, <1>1, <1>6 DEF Connects
  <2>2. /\ InRange(index, info, nLastBlockFile) /\ InRange(dbIndex, info, nLastBlockFile)
        /\ UndoInRange(index, info) /\ DbUndoFree(index, info, nLastBlockFile)
        /\ \A e \in Files : e # f => info[e] = vinfoBlockFile[e]
    <3>1. UndoTaken(info, f)
      BY Zenon, <2>1 DEF UndoTaken
    <3>2. StillInRange(info, f)
      BY Zenon, <2>1, <3>1, MoreUndo
    <3> QED BY Zenon, <3>2 DEF StillInRange
  <2>3. /\ idx[b].data = index[b].data /\ idx[b].undo = pos
        /\ \A c \in Blocks : c # b => idx[c] = index[c]
        /\ info[f].nUndoSize = n + 1
    BY Zenon, <2>1 DEF HasEntry, HasInfo
  <2>4. \A c \in Blocks : idx[c].data = index[c].data
    BY Zenon, <2>3
  <2>5. pos[1] = f /\ pos[2] = n /\ n < n + 1 /\ index[b].data # NoPos
    <3>1. n \in Nat
      BY Zenon, <2>1, AllNumbers DEF Numbers
    <3>2. n < n + 1
      BY <3>1
    <3> QED BY Zenon, <2>1, <3>1, <3>2, PlaceParts
  <2>6. idx[b].undo[1] = idx[b].data[1] /\ idx[b].undo[2] < info[idx[b].undo[1]].nUndoSize /\ idx[b].data # NoPos
    <3>1. idx[b].undo[1] = f /\ idx[b].undo[2] = n /\ idx[b].data[1] = f
      BY Zenon, <2>3, <2>5
    <3> HIDE DEF f, n
    <3> QED BY Zenon, <2>3, <2>5, <3>1
  <2> HIDE DEF f, n, pos
  <2>7. /\ \A c \in Blocks : c \notin db => idx[c] = dbIndex[c]
        /\ \A e \in Files : e \notin df => info[e] = dbInfo[e]
        /\ dbLast <= nLastBlockFile
    BY Zenon, <1>4, <2>1, <2>2, <2>3 DEF Mem
  <2>8. InRange(idx, info, nLastBlockFile) /\ DbUndoFree(idx, info, nLastBlockFile)
    BY Zenon, <2>2, <2>4, SameData
  <2>9. UndoInRange(idx, info)
    BY Zenon, <2>2, <2>3, <2>6 DEF UndoInRange
  <2>10. Mem(idx, info, nLastBlockFile, db, df)
    BY Zenon, <2>2, <2>7, <2>8, <2>9 DEF Mem
  <2> QED BY Zenon, <1>2, <1>3, <2>10, FlushLayout
<1> QED BY Zenon, <1>5, <1>6

\* So do the flushes that change nothing before.
LEMMA FlushOnlyLayout ==
    ASSUME Inv, Flat, LayoutInMemory, NEW mode, NEW next \in Nexts, UNCHANGED dbVars,
           FlushStateToDisk(mode, next, index, vinfoBlockFile, nLastBlockFile, setDirtyBlockIndex,
               setDirtyFileInfo, fCheckForPruning)
    PROVE  LayoutInMemory'
<1>1. Typed(next, index, vinfoBlockFile, nLastBlockFile, setDirtyBlockIndex, setDirtyFileInfo, fCheckForPruning)
  BY Zenon DEF Flat, Typed
<1>2. Mem(index, vinfoBlockFile, nLastBlockFile, setDirtyBlockIndex, setDirtyFileInfo)
  BY Zenon DEF LayoutInMemory
<1> QED BY Zenon, <1>1, <1>2, FlushLayout

\* A step of the running node that leaves the databases alone.
RunStep ==
    \/ \E b \in Blocks : \/ ConnectTip(b) \/ ConnectWithoutUndo(b) \/ ConnectFails(b)
                         \/ \E written \in BOOLEAN : AcceptBlock(b, written)
    \/ DisconnectTip \/ Flush("PERIODIC", NoBlock) \/ Flush("ALWAYS", "exit")

\* It keeps the layout.
LEMMA RunLayout ==
    ASSUME Inv, Flat, RunStep, LayoutInMemory
    PROVE  LayoutInMemory'
<1>1. ASSUME NEW b \in Blocks, ConnectWithoutUndo(b) PROVE LayoutInMemory'
  <2> DEFINE f == index[b].data[1]
  <2>1. /\ index[b].data # NoPos /\ vinfoBlockFile[f].nUndoSize < MaxUndo
        /\ vinfoBlockFile' = UndoCounted(vinfoBlockFile, f)
        /\ setDirtyFileInfo' = setDirtyFileInfo \cup {f}
        /\ UNCHANGED <<index, nLastBlockFile, setDirtyBlockIndex, pc, dbVars>>
    BY Zenon, <1>1 DEF ConnectWithoutUndo, Readable
  <2>2. f \in Files /\ HasInfo(vinfoBlockFile', vinfoBlockFile, f, vinfoBlockFile[f].nSize, vinfoBlockFile[f].nUndoSize + 1)
    BY Zenon, <2>1, UndoPlace
  <2> DEFINE v == vinfoBlockFile'
  <2>3. /\ InRange(index, v, nLastBlockFile) /\ InRange(dbIndex, v, nLastBlockFile)
        /\ UndoInRange(index, v) /\ DbUndoFree(index, v, nLastBlockFile)
        /\ \A e \in Files : e # f => v[e] = vinfoBlockFile[e]
    <3>1. UndoTaken(v, f)
      BY Zenon, <2>2 DEF UndoTaken
    <3>2. StillInRange(v, f)
      BY Zenon, <2>2, <3>1, MoreUndo
    <3> QED BY Zenon, <3>2 DEF StillInRange
  <2> HIDE DEF f
  <2>4. Mem(index, v, nLastBlockFile, setDirtyBlockIndex, setDirtyFileInfo')
    BY Zenon, <2>1, <2>3 DEF LayoutInMemory, Mem
  <2>5. (Mem(index, vinfoBlockFile, nLastBlockFile, setDirtyBlockIndex, setDirtyFileInfo))'
    BY Zenon, <2>1, <2>4 DEF Mem, InRange, UndoInRange, DbUndoFree, dbVars
  <2>6. Stage'
    BY Zenon, <2>1 DEF Stage, LayoutInMemory
  <2> QED BY Zenon, <2>5, <2>6 DEF LayoutInMemory
<1>2. ASSUME NEW b \in Blocks, ConnectFails(b) PROVE LayoutInMemory'
  <2>1. /\ index' = Failed(index, b) /\ setDirtyBlockIndex' = setDirtyBlockIndex \cup {b} /\ pc.at = "run"
        /\ UNCHANGED <<vinfoBlockFile, nLastBlockFile, setDirtyFileInfo, pc, dbVars>>
    BY Zenon, <1>2 DEF ConnectFails, Failed, Running
  <2>2. index' = Entry(index, b, index[b].known, index[b].data, index[b].undo, TRUE)
    BY Zenon, <2>1, UpdateFacts DEF Inv, Types
  <2>3. HasEntry(index', index, b, index[b].known, index[b].data, index[b].undo, TRUE)
    <3>1. IsIndex(index) /\ index[b].known \in BOOLEAN /\ (b = Genesis => index[b].undo = NoPos)
      BY Zenon DEF Inv, Types, IsIndex
    <3> QED BY Zenon, <2>2, <3>1, EntryFacts
  <2>4. \A c \in Blocks : /\ index'[c].data = index[c].data /\ index'[c].undo = index[c].undo
                          /\ c # b => index'[c] = index[c]
    BY Zenon, <2>3 DEF HasEntry
  <2>5. Mem(index', vinfoBlockFile, nLastBlockFile, setDirtyBlockIndex', setDirtyFileInfo)
    <3>1. Mem(index, vinfoBlockFile, nLastBlockFile, setDirtyBlockIndex, setDirtyFileInfo)
      BY Zenon DEF LayoutInMemory
    <3>2. \A c \in Blocks : c \notin setDirtyBlockIndex' => index'[c] = dbIndex[c]
      BY Zenon, <2>1, <2>4, <3>1 DEF Mem
    <3>3. /\ InRange(index', vinfoBlockFile, nLastBlockFile)
          /\ DbUndoFree(index', vinfoBlockFile, nLastBlockFile)
      BY Zenon, <2>4, <3>1, SameData DEF Mem
    <3>4. UndoInRange(index', vinfoBlockFile)
      BY Zenon, <2>4, <3>1 DEF Mem, UndoInRange
    <3> QED BY Zenon, <3>1, <3>2, <3>3, <3>4 DEF Mem
  <2>6. (Mem(index, vinfoBlockFile, nLastBlockFile, setDirtyBlockIndex, setDirtyFileInfo))'
    BY Zenon, <2>1, <2>5 DEF Mem, InRange, UndoInRange, DbUndoFree, dbVars
  <2>7. Stage'
    BY Zenon, <2>1 DEF Stage
  <2> QED BY Zenon, <2>6, <2>7 DEF LayoutInMemory
<1>3. CASE DisconnectTip
  <2>1. tip # Genesis /\ tip \in Blocks
    BY Zenon, <1>3 DEF DisconnectTip, UndoReadable, Inv, Types, IsIndex, Flat
  <2>2. Parent[tip] \in Nexts
    BY Zenon, <2>1, BlockStoreAssumption DEF Nexts
  <2> QED BY Zenon, <1>3, <2>2, FlushOnlyLayout DEF DisconnectTip
<1>4. ASSUME NEW mode, NEW next \in {NoBlock, "exit"}, Flush(mode, next) PROVE LayoutInMemory'
  <2>1. next \in Nexts
    BY Zenon DEF Nexts
  <2> QED BY Zenon, <1>4, <2>1, FlushOnlyLayout DEF Flush
<1> QED BY Zenon, <1>1, <1>2, <1>3, <1>4, AcceptLayout, ConnectLayout DEF RunStep

\* What no step of the running node changes.
LEMMA RunFrame ==
    ASSUME RunStep
    PROVE  pc.at = "run" /\ Up /\ UNCHANGED dbVars /\ faults \subseteq faults'
<1>1. pc.at = "run" /\ UNCHANGED dbVars
  BY Zenon DEF RunStep, Running, ConnectTip, ConnectWithoutUndo, ConnectFails, AcceptBlock, DisconnectTip, Flush
<1>2. faults \subseteq faults'
  BY Zenon DEF RunStep, ConnectTip, ConnectWithoutUndo, ConnectFails, AcceptBlock, DisconnectTip, Flush, faultVars
<1> QED BY Zenon, <1>1, <1>2 DEF Up

\* The batch makes the databases equal to memory.
LEMMA BatchFacts ==
    ASSUME Flat, LayoutInMemory, WriteBatchSync
    PROVE  dbIndex' = index /\ dbInfo' = vinfoBlockFile /\ dbLast' = nLastBlockFile
<1>1. /\ dbIndex' = [b \in Blocks |-> IF b \in setDirtyBlockIndex THEN index[b] ELSE dbIndex[b]]
      /\ dbInfo' = [f \in Files |-> IF f \in setDirtyFileInfo THEN vinfoBlockFile[f] ELSE dbInfo[f]]
      /\ dbLast' = nLastBlockFile
  BY Zenon DEF WriteBatchSync
<1>2. /\ \A b \in Blocks : b \notin setDirtyBlockIndex => index[b] = dbIndex[b]
      /\ \A f \in Files : f \notin setDirtyFileInfo => vinfoBlockFile[f] = dbInfo[f]
  BY Zenon DEF LayoutInMemory, Mem
<1>3. index = [b \in Blocks |-> index[b]] /\ vinfoBlockFile = [f \in Files |-> vinfoBlockFile[f]]
  BY Zenon DEF Flat
<1>4. dbIndex' = [b \in Blocks |-> index[b]] /\ dbInfo' = [f \in Files |-> vinfoBlockFile[f]]
  BY Zenon, <1>1, <1>2
<1> QED BY Zenon, <1>1, <1>3, <1>4

\* Where WriteBatchSync, UnlinkPrunedFiles and FlushCoins leave pc.
LEMMA AfterWrite ==
    ASSUME Inv, WriteBatchSync \/ UnlinkPrunedFiles \/ FlushCoins \/ FlushBlockFile
    PROVE  /\ Up
           /\ WriteBatchSync => /\ pc.at = "index" /\ pc'.at \in {"run", "down", "unlink", "coins"}
                                /\ pc'.at = "unlink" => pc'.prune = pc.prune
           /\ UnlinkPrunedFiles => pc.at = "unlink" /\ pc'.at = "coins"
           /\ FlushCoins => pc.at = "coins" /\ pc'.at \in {"run", "down"}
           /\ FlushBlockFile => pc.at = "sync" /\ pc'.at = "index" /\ pc'.prune = pc.prune
<1>0. ASSUME NEW s, pc' = [pc EXCEPT !.at = s] PROVE pc'.at = s /\ pc'.prune = pc.prune
  <2> DEFINE a == pc.at
             u == pc.full
             p == pc.prune
             n == pc.next
  <2>1. pc = [at |-> a, full |-> u, prune |-> p, next |-> n]
    BY Zenon DEF Inv, Types
  <2> HIDE DEF a, u, p, n
  <2>2. pc' = [at |-> s, full |-> u, prune |-> p, next |-> n]
    BY Zenon, <1>0, <2>1
  <2>3. pc'.at = s /\ pc'.prune = p
    BY <2>2
  <2> QED BY Zenon, <2>3 DEF p
<1>1. ASSUME NEW next, Returned(next) PROVE pc'.at \in {"run", "down"}
  BY Zenon, <1>1, ReturnFacts DEF Returned
<1>2. ASSUME FlushBlockFile PROVE pc.at = "sync" /\ pc'.at = "index" /\ pc'.prune = pc.prune
  BY Zenon, <1>0, <1>2 DEF FlushBlockFile
<1>3. ASSUME UnlinkPrunedFiles PROVE pc.at = "unlink" /\ pc'.at = "coins"
  BY Zenon, <1>0, <1>3 DEF UnlinkPrunedFiles
<1>4. ASSUME FlushCoins PROVE pc.at = "coins" /\ pc'.at \in {"run", "down"}
  BY Zenon, <1>1, <1>4 DEF FlushCoins
<1>5. ASSUME WriteBatchSync
      PROVE  /\ pc.at = "index" /\ pc'.at \in {"run", "down", "unlink", "coins"}
             /\ pc'.at = "unlink" => pc'.prune = pc.prune
  <2>1. CASE pc.full
    BY Zenon, <1>0, <1>5, <2>1 DEF WriteBatchSync
  <2>2. CASE ~pc.full
    BY Zenon, <1>1, <1>5, <2>2 DEF WriteBatchSync
  <2> QED BY Zenon, <1>5, <2>1, <2>2 DEF WriteBatchSync
<1> QED BY Zenon, <1>2, <1>3, <1>4, <1>5 DEF Up

\* Every step keeps the layout, in memory and in the databases.
LEMMA StepLayout == Inv /\ Flat /\ Layout /\ [Next]_vars => Layout'
<1> SUFFICES ASSUME Inv, Flat, Layout, [Next]_vars PROVE Layout'
  BY Zenon
<1>1. CASE RunStep
  <2>1. /\ "index" \notin faults' => LayoutOnDisk /\ LayoutInMemory
        /\ UNCHANGED <<dbIndex, dbInfo, dbLast>>
    BY Zenon, <1>1, RunFrame DEF Layout, dbVars
  <2>2. "index" \notin faults' => LayoutOnDisk'
    BY Zenon, <2>1 DEF LayoutOnDisk, InRange, UndoInRange
  <2> QED BY Zenon, <1>1, <2>1, <2>2, RunLayout DEF Layout
<1>2. CASE FlushBlockFile \/ UnlinkPrunedFiles \/ FlushCoins
  <2>1. UNCHANGED <<index, vinfoBlockFile, nLastBlockFile, setDirtyBlockIndex, setDirtyFileInfo,
                    dbIndex, dbInfo, dbLast, faults>>
    BY Zenon, <1>2 DEF FlushBlockFile, UnlinkPrunedFiles, FlushCoins, memVars, dbVars, faultVars
  <2>2. /\ Up
        /\ \/ pc.at = "sync" /\ pc'.at = "index" /\ pc'.prune = pc.prune
           \/ pc.at = "unlink" /\ pc'.at = "coins"
           \/ pc'.at \in {"run", "down"}
    BY Zenon, <1>2, AfterWrite
  <2>3. ASSUME "index" \notin faults' PROVE LayoutOnDisk' /\ LayoutInMemory'
    <3>1. LayoutOnDisk /\ LayoutInMemory
      BY Zenon, <2>1, <2>2, <2>3 DEF Layout
    <3>2. LayoutOnDisk'
      BY Zenon, <2>1, <3>1 DEF LayoutOnDisk, InRange, UndoInRange
    <3>3. (Mem(index, vinfoBlockFile, nLastBlockFile, setDirtyBlockIndex, setDirtyFileInfo))'
      BY Zenon, <2>1, <3>1 DEF LayoutInMemory, Mem, InRange, UndoInRange, DbUndoFree
    <3>4. Stage'
      BY Zenon, <2>1, <2>2, <3>1 DEF LayoutInMemory, Stage
    <3> QED BY Zenon, <3>2, <3>3, <3>4 DEF LayoutInMemory
  <2> QED BY Zenon, <2>3 DEF Layout
<1>3. CASE WriteBatchSync
  <2>1. /\ UNCHANGED <<index, vinfoBlockFile, nLastBlockFile, faults>>
        /\ setDirtyBlockIndex' = {} /\ setDirtyFileInfo' = {}
    BY Zenon, <1>3 DEF WriteBatchSync, faultVars
  <2>2. /\ Up /\ pc.at = "index" /\ pc'.at \in {"run", "down", "unlink", "coins"}
        /\ pc'.at = "unlink" => pc'.prune = pc.prune
    BY Zenon, <1>3, AfterWrite
  <2>3. ASSUME "index" \notin faults' PROVE LayoutOnDisk' /\ LayoutInMemory'
    <3>1. LayoutOnDisk /\ LayoutInMemory
      BY Zenon, <2>1, <2>2, <2>3 DEF Layout
    <3>2. dbIndex' = index /\ dbInfo' = vinfoBlockFile /\ dbLast' = nLastBlockFile
      BY Zenon, <1>3, <3>1, BatchFacts
    <3>3. InRange(index, vinfoBlockFile, nLastBlockFile) /\ UndoInRange(index, vinfoBlockFile)
      BY Zenon, <3>1 DEF LayoutInMemory, Mem
    <3>4. LayoutOnDisk'
      BY Zenon, <3>2, <3>3 DEF LayoutOnDisk, InRange, UndoInRange
    <3>5. dbLast' <= nLastBlockFile
      BY SMT, <3>2, PlaceParts DEF Flat
    <3>6. (Mem(index, vinfoBlockFile, nLastBlockFile, setDirtyBlockIndex, setDirtyFileInfo))'
      BY Zenon, <2>1, <3>2, <3>3, <3>5 DEF Mem, InRange, UndoInRange, DbUndoFree
    <3>7. Stage'
      BY Zenon, <2>1, <2>2, <3>1 DEF LayoutInMemory, Stage
    <3> QED BY Zenon, <3>4, <3>6, <3>7 DEF LayoutInMemory
  <2> QED BY Zenon, <2>3 DEF Layout
<1>4. CASE WriteBatchFails
  BY Zenon, <1>4 DEF WriteBatchFails, Layout
<1>5. CASE CrashStep
  <2>1. UNCHANGED <<dbIndex, dbInfo, dbLast>> /\ pc' = At("down") /\ faults \subseteq faults'
    BY Zenon, <1>5 DEF CrashStep, Crash
  <2>2. ~Up'
    <3>1. pc'.at = "down"
      BY Zenon, <2>1, ReturnFacts
    <3> QED BY Zenon, <3>1 DEF Up
  <2> QED BY Zenon, <2>1, <2>2 DEF Layout, LayoutOnDisk, InRange, UndoInRange
<1>6. CASE Restart
  <2>1. /\ UNCHANGED <<dbIndex, dbInfo, dbLast, faults>> /\ pc' = At(IF Loads THEN "run" ELSE "corrupt")
        /\ index' = dbIndex /\ vinfoBlockFile' = dbInfo /\ nLastBlockFile' = dbLast
    BY Zenon, <1>6 DEF Restart, dbVars, faultVars
  <2>2. pc'.at \in {"run", "corrupt"}
    BY Zenon, <2>1, ReturnFacts
  <2>3. dbLast <= dbLast
    BY SMT, PlaceParts DEF Flat
  <2>4. ASSUME "index" \notin faults' PROVE LayoutOnDisk' /\ LayoutInMemory'
    <3>1. LayoutOnDisk
      BY Zenon, <2>1, <2>4 DEF Layout
    <3>2. LayoutOnDisk'
      BY Zenon, <2>1, <3>1 DEF LayoutOnDisk, InRange, UndoInRange
    <3>3. (Mem(index, vinfoBlockFile, nLastBlockFile, setDirtyBlockIndex, setDirtyFileInfo))'
      BY Zenon, <2>1, <2>3, <3>1 DEF LayoutOnDisk, Mem, InRange, UndoInRange, DbUndoFree
    <3>4. Stage'
      BY Zenon, <2>2 DEF Stage
    <3> QED BY Zenon, <3>2, <3>3, <3>4 DEF LayoutInMemory
  <2> QED BY Zenon, <2>4 DEF Layout
<1>7. CASE UNCHANGED vars
  BY Zenon, <1>7 DEF vars, memVars, dbVars, faultVars, Layout, LayoutOnDisk, LayoutInMemory, Mem, Stage, Up,
     InRange, UndoInRange, DbUndoFree
<1> QED BY Zenon, <1>1, <1>2, <1>3, <1>4, <1>5, <1>6, <1>7 DEF Next, RunStep

\* An empty directory has the genesis block in its first file.
LEMMA InitParts ==
    ASSUME Init
    PROVE  /\ \A b \in Blocks : /\ b = Genesis => index[b].data = <<0, 0>>
                                /\ b # Genesis => index[b].data = NoPos
                                /\ index[b].undo = NoPos
           /\ vinfoBlockFile[0].nSize = 1 /\ <<0, 0>>[1] = 0 /\ <<0, 0>>[2] = 0 /\ <<0, 0>> \in Places
           /\ dbIndex = index /\ dbInfo = vinfoBlockFile /\ dbLast = 0 /\ nLastBlockFile = 0
           /\ setDirtyBlockIndex = {} /\ pc.at = "run" /\ faults = {}
           /\ blk = [p \in Places |-> IF p = <<0, 0>> THEN Genesis ELSE NoBlock] /\ blkDisk = blk
           /\ files = {0}
<1>1. \A b \in Blocks : /\ b = Genesis => index[b].data = <<0, 0>>
                        /\ b # Genesis => index[b].data = NoPos
                        /\ index[b].undo = NoPos
  <2> DEFINE p0 == <<0, 0>>
             g == [Unknown EXCEPT !.known = TRUE, !.data = p0]
  <2>1. \A b \in Blocks : index[b] = IF b = Genesis THEN g ELSE Unknown
    BY Zenon DEF Init
  <2> HIDE DEF p0
  <2>2. g.data = p0 /\ g.undo = NoPos /\ Unknown.data = NoPos /\ Unknown.undo = NoPos
    BY SMT DEF Unknown
  <2> HIDE DEF g
  <2> QED BY Zenon, <2>1, <2>2 DEF p0
<1>2. 0 \in Files /\ <<0, 0>>[1] = 0 /\ <<0, 0>>[2] = 0 /\ <<0, 0>> \in Places
  BY SMT, BlockStoreAssumption DEF Files, Places
<1>3. vinfoBlockFile[0].nSize = 1
  <2>1. vinfoBlockFile[0] = [NullInfo EXCEPT !.nSize = 1]
    BY Zenon, <1>2 DEF Init
  <2> QED BY <2>1 DEF NullInfo
<1>4. pc.at = "run"
  BY Zenon DEF Init, At
<1> QED BY Zenon, <1>1, <1>2, <1>3, <1>4 DEF Init

\* So the layout is right.
LEMMA InitLayout == Init => Layout
<1> SUFFICES ASSUME Init PROVE Layout
  BY Zenon
<1>1. InRange(index, vinfoBlockFile, 0) /\ UndoInRange(index, vinfoBlockFile)
  <2>1. 0 < 1
    OBVIOUS
  <2> QED BY Zenon, <2>1, InitParts DEF InRange, UndoInRange
<1>2. 0 <= 0
  OBVIOUS
<1>3. LayoutOnDisk
  BY Zenon, <1>1, InitParts DEF LayoutOnDisk
<1>4. Mem(index, vinfoBlockFile, nLastBlockFile, setDirtyBlockIndex, setDirtyFileInfo)
  BY Zenon, <1>1, <1>2, InitParts DEF Mem, UndoInRange, DbUndoFree
<1>5. Stage
  BY Zenon, InitParts DEF Stage
<1> QED BY Zenon, <1>3, <1>4, <1>5 DEF Layout, LayoutInMemory

-----------------------------------------------------------------------------
(* The blocks are in the files.                                            *)

\* The blocks of idx are where it says, and synced unless they are in the last
\* file and this one is not.
Data(idx, last, synced, fs, os, disk) ==
    \A b \in Blocks : idx[b].data # NoPos =>
        /\ idx[b].data[1] \in fs /\ os[idx[b].data] = b
        /\ idx[b].data[1] # last \/ synced => disk[idx[b].data] = b

Synced == pc.at \in {"index", "unlink", "coins"}
DbData == Data(dbIndex, dbLast, TRUE, files, blk, blkDisk)
MemData == Data(index, nLastBlockFile, Synced, files, blk, blkDisk)
DataInv == faults \cap {"block", "index"} = {} => DbData /\ (Up => MemData)

\* FlushStateToDisk only takes blocks out of the index.
LEMMA FlushData ==
    ASSUME NEW mode, NEW next, NEW idx, NEW info, NEW last, NEW db, NEW df, NEW check,
           Typed(next, idx, info, last, db, df, check),
           FlushStateToDisk(mode, next, idx, info, last, db, df, check),
           Data(idx, last, FALSE, files', blk', blkDisk')
    PROVE  MemData'
<1>1. PICK P : Shrunk(P, idx, info, last, db, df)
  BY Zenon, FlushShrinks
<1>2. ~Synced' /\ nLastBlockFile' = last /\ \A b \in Blocks : index'[b].data # NoPos => index'[b] = idx[b]
  BY Zenon, <1>1 DEF Shrunk, Synced
<1> QED BY Zenon, <1>2 DEF MemData, Data

\* What AcceptBlock leaves where it is.
LEMMA AcceptKeeps ==
    ASSUME Flat, NEW b, NEW f, NEW idx, NEW info, Accepted(b, TRUE, f, idx, info), NEW p \in Places,
           \/ p[1] < nLastBlockFile
           \/ p[1] = nLastBlockFile /\ p[2] < vinfoBlockFile[nLastBlockFile].nSize
    PROVE  /\ blk'[p] = blk[p]
           /\ blkDisk'[p] = IF f # nLastBlockFile /\ p[1] = nLastBlockFile THEN blk[p] ELSE blkDisk[p]
           /\ f # nLastBlockFile => p[1] # f
<1> DEFINE old == nLastBlockFile
           left == f # old
           n == vinfoBlockFile[f].nSize
           pos == <<f, n>>
           size == vinfoBlockFile[old].nSize
<1>1. /\ f \in Files /\ old <= f
      /\ blk' = [q \in Places |-> IF TRUE /\ q = pos THEN b ELSE CutOff(blk, q, left, old, size)]
      /\ blkDisk' = [q \in Places |-> IF left /\ q[1] = old THEN CutOff(blk, q, left, old, size) ELSE blkDisk[q]]
  BY Zenon DEF Accepted
<1>2. f \in Nat /\ old \in Nat /\ n \in Nat /\ size \in Nat /\ p[1] \in Nat /\ p[2] \in Nat
  BY Zenon, <1>1, AllNumbers, PlaceParts DEF Numbers, Flat
<1>3. pos[1] = f /\ pos[2] = n
  BY Zenon, <1>1, <1>2, PlaceParts
<1>4. ~(p[1] = old /\ p[2] >= size) /\ ~(p[1] = f /\ p[2] = n) /\ (left => p[1] # f)
  <2>1. CASE f = old
    BY SMT, <1>2, <2>1
  <2>2. CASE f # old
    BY SMT, <1>1, <1>2, <2>2
  <2> QED BY Zenon, <2>1, <2>2
<1> HIDE DEF pos, n, size
<1>5. p # pos /\ CutOff(blk, p, left, old, size) = blk[p]
  BY Zenon, <1>3, <1>4 DEF CutOff
<1> QED BY Zenon, <1>1, <1>4, <1>5

\* AcceptBlock writes the block where the index says, and over no other.
LEMMA AcceptData ==
    ASSUME Inv, Flat, LayoutInMemory, NEW b \in Blocks, AcceptBlock(b, TRUE), DbData, MemData
    PROVE  DbData' /\ MemData'
<1>1. PICK f, idx, info : Accepted(b, TRUE, f, idx, info)
  BY Zenon, AcceptParts
<1> DEFINE n == vinfoBlockFile[f].nSize
           pos == <<f, n>>
           old == nLastBlockFile
           size == vinfoBlockFile[old].nSize
           db == setDirtyBlockIndex \cup {b}
           df == setDirtyFileInfo \cup {f}
<1>2. /\ f \in Files /\ pos \in Places
      /\ idx \in [Blocks -> Entries] /\ HasEntry(idx, index, b, TRUE, pos, NoPos, index[b].failed)
      /\ HasInfo(info, vinfoBlockFile, f, n + 1, vinfoBlockFile[f].nUndoSize)
      /\ FlushStateToDisk("NONE", NoBlock, idx, info, f, db, df, fPruneMode)
      /\ files' = files \cup {f}
      /\ blk' = [q \in Places |-> IF TRUE /\ q = pos THEN b ELSE CutOff(blk, q, f # old, old, size)]
  BY Zenon, <1>1 DEF Accepted
<1>3. idx[b].data = pos /\ \A c \in Blocks : c # b => idx[c] = index[c]
  BY Zenon, <1>2 DEF HasEntry
<1>4. UNCHANGED <<dbIndex, dbLast>> /\ ~Synced
  BY Zenon DEF AcceptBlock, dbVars, Running, Synced
<1>5. pos[1] = f
  BY Zenon, <1>2, AllNumbers, PlaceParts DEF Numbers
<1>6. blk'[pos] = b
  BY Zenon, <1>2
<1> HIDE DEF pos, n, size
<1>7. ASSUME NEW i, Numbers(i, vinfoBlockFile), InRange(i, vinfoBlockFile, old), NEW c \in Blocks, i[c].data # NoPos,
             i[c].data[1] \in files, blk[i[c].data] = c
      PROVE  /\ i[c].data[1] \in files' /\ blk'[i[c].data] = c
             /\ blkDisk[i[c].data] = c => blkDisk'[i[c].data] = c
             /\ (i[c].data[1] # old => blkDisk[i[c].data] = c) =>
                    (i[c].data[1] # f => blkDisk'[i[c].data] = c)
  <2> DEFINE p == i[c].data
  <2>1. p \in Places
    BY Zenon, <1>7 DEF Numbers
  <2>2. p[1] < old \/ (p[1] = old /\ p[2] < vinfoBlockFile[old].nSize)
    BY Zenon, <1>7 DEF InRange
  <2> HIDE DEF p
  <2>3. /\ blk'[p] = blk[p]
        /\ blkDisk'[p] = IF f # old /\ p[1] = old THEN blk[p] ELSE blkDisk[p]
        /\ f # old => p[1] # f
    BY Zenon, <1>1, <2>1, <2>2, AcceptKeeps
  <2>4. p[1] \in files /\ blk[p] = c
    BY Zenon, <1>7 DEF p
  <2>5. /\ p[1] \in files' /\ blk'[p] = c
        /\ blkDisk[p] = c => blkDisk'[p] = c
        /\ (p[1] # old => blkDisk[p] = c) => (p[1] # f => blkDisk'[p] = c)
    BY Zenon, <1>2, <2>3, <2>4
  <2> QED BY Zenon, <2>5 DEF p
<1>8. /\ Numbers(index, vinfoBlockFile) /\ InRange(index, vinfoBlockFile, old)
      /\ Numbers(dbIndex, vinfoBlockFile) /\ InRange(dbIndex, vinfoBlockFile, old)
  BY Zenon, AllNumbers DEF LayoutInMemory, Mem
<1>9. DbData'
  <2> SUFFICES ASSUME NEW c \in Blocks, dbIndex[c].data # NoPos
               PROVE  dbIndex[c].data[1] \in files' /\ blk'[dbIndex[c].data] = c /\ blkDisk'[dbIndex[c].data] = c
    BY Zenon, <1>4 DEF DbData, Data
  <2>1. dbIndex[c].data[1] \in files /\ blk[dbIndex[c].data] = c /\ blkDisk[dbIndex[c].data] = c
    BY Zenon DEF DbData, Data
  <2> QED BY Zenon, <1>7, <1>8, <2>1
<1>10. Data(idx, f, FALSE, files', blk', blkDisk')
  <2> SUFFICES ASSUME NEW c \in Blocks, idx[c].data # NoPos
               PROVE  /\ idx[c].data[1] \in files' /\ blk'[idx[c].data] = c
                      /\ idx[c].data[1] # f => blkDisk'[idx[c].data] = c
    BY Zenon DEF Data
  <2>1. CASE c = b
    <3>1. idx[c].data = pos /\ pos[1] \in files'
      BY Zenon, <1>2, <1>3, <1>5, <2>1
    <3> QED BY Zenon, <1>5, <1>6, <2>1, <3>1
  <2>2. CASE c # b
    <3>1. idx[c] = index[c] /\ index[c].data # NoPos
      BY Zenon, <1>3, <2>2
    <3>2. /\ index[c].data[1] \in files /\ blk[index[c].data] = c
          /\ index[c].data[1] # old => blkDisk[index[c].data] = c
      BY Zenon, <3>1 DEF MemData, Data
    <3>3. /\ index[c].data[1] \in files' /\ blk'[index[c].data] = c
          /\ index[c].data[1] # f => blkDisk'[index[c].data] = c
      BY Zenon, <1>7, <1>8, <3>1, <3>2
    <3> QED BY Zenon, <3>1, <3>3
  <2> QED BY Zenon, <2>1, <2>2
<1>11. Typed(NoBlock, idx, info, f, db, df, fPruneMode)
  BY Zenon, <1>2, BlockStoreAssumption DEF Typed, Nexts, HasInfo, Flat
<1> HIDE DEF db, df
<1>12. MemData'
  BY Zenon, <1>2, <1>10, <1>11, FlushData
<1> QED BY Zenon, <1>9, <1>12

\* The blocks stay where they are: FlushStateToDisk is called, or not.
SameBlocks ==
    \/ \A b \in Blocks : index'[b].data = index[b].data /\ nLastBlockFile' = nLastBlockFile /\ pc' = pc
    \/ \E mode, next, idx, info, db, df, check :
           /\ Typed(next, idx, info, nLastBlockFile, db, df, check)
           /\ FlushStateToDisk(mode, next, idx, info, nLastBlockFile, db, df, check)
           /\ \A b \in Blocks : idx[b].data = index[b].data

\* What the steps of the running node do to the files.
LEMMA RunCases ==
    ASSUME Inv, Flat, RunStep
    PROVE  \/ \E b \in Blocks, written \in BOOLEAN : AcceptBlock(b, written)
           \/ SameBlocks /\ UNCHANGED <<blk, blkDisk, revDisk, files>>
<1>1. ASSUME NEW b \in Blocks, ConnectTip(b) PROVE SameBlocks /\ UNCHANGED <<blk, blkDisk, revDisk, files>>
  <2>1. PICK idx, info, db, df, check : Connects(b, idx, info, db, df, check)
    BY Zenon, <1>1, ConnectParts
  <2>2. /\ Typed(b, idx, info, nLastBlockFile, db, df, check)
        /\ FlushStateToDisk("IF_NEEDED", b, idx, info, nLastBlockFile, db, df, check)
    BY Zenon, <2>1 DEF Connects, Nexts, Flat, Typed
  <2>3. \A c \in Blocks : idx[c].data = index[c].data
    <3>1. CASE index[b].undo = NoPos
      BY Zenon, <2>1, <3>1 DEF Connects, HasEntry
    <3>2. CASE index[b].undo # NoPos
      BY Zenon, <2>1, <3>2 DEF Connects
    <3> QED BY Zenon, <3>1, <3>2
  <2>4. SameBlocks
    BY Zenon, <2>2, <2>3 DEF SameBlocks
  <2> QED BY Zenon, <1>1, <2>4 DEF ConnectTip
<1>2. ASSUME NEW b \in Blocks, ConnectWithoutUndo(b) PROVE SameBlocks /\ UNCHANGED <<blk, blkDisk, revDisk, files>>
  BY Zenon, <1>2 DEF ConnectWithoutUndo, SameBlocks, fileVars
<1>3. ASSUME NEW b \in Blocks, ConnectFails(b) PROVE SameBlocks /\ UNCHANGED <<blk, blkDisk, revDisk, files>>
  <2>1. index' = Failed(index, b) /\ UNCHANGED <<nLastBlockFile, pc, fileVars>>
    BY Zenon, <1>3 DEF ConnectFails, Failed
  <2>2. index' = Entry(index, b, index[b].known, index[b].data, index[b].undo, TRUE)
    BY Zenon, <2>1, UpdateFacts DEF Inv, Types
  <2>3. HasEntry(index', index, b, index[b].known, index[b].data, index[b].undo, TRUE)
    <3>1. IsIndex(index) /\ index[b].known \in BOOLEAN /\ (b = Genesis => index[b].undo = NoPos)
      BY Zenon DEF Inv, Types, IsIndex
    <3> QED BY Zenon, <2>2, <3>1, EntryFacts
  <2>4. \A c \in Blocks : index'[c].data = index[c].data
    BY Zenon, <2>3 DEF HasEntry
  <2> QED BY Zenon, <2>1, <2>4 DEF SameBlocks, fileVars
<1>4. ASSUME NEW mode, NEW next \in Nexts, UNCHANGED fileVars,
             FlushStateToDisk(mode, next, index, vinfoBlockFile, nLastBlockFile, setDirtyBlockIndex,
                 setDirtyFileInfo, fCheckForPruning)
      PROVE  SameBlocks /\ UNCHANGED <<blk, blkDisk, revDisk, files>>
  <2>1. Typed(next, index, vinfoBlockFile, nLastBlockFile, setDirtyBlockIndex, setDirtyFileInfo, fCheckForPruning)
    BY Zenon, <1>4 DEF Flat, Typed
  <2>2. SameBlocks
    BY Zenon, <1>4, <2>1 DEF SameBlocks
  <2> QED BY Zenon, <1>4, <2>2 DEF fileVars
<1>5. CASE DisconnectTip
  <2>1. tip # Genesis /\ tip \in Blocks
    BY Zenon, <1>5 DEF DisconnectTip, UndoReadable, Inv, Types, IsIndex, Flat
  <2>2. Parent[tip] \in Nexts
    BY Zenon, <2>1, BlockStoreAssumption DEF Nexts
  <2> QED BY Zenon, <1>4, <1>5, <2>2 DEF DisconnectTip
<1>6. ASSUME NEW mode, NEW next \in {NoBlock, "exit"}, Flush(mode, next)
      PROVE  SameBlocks /\ UNCHANGED <<blk, blkDisk, revDisk, files>>
  <2>1. next \in Nexts
    BY Zenon DEF Nexts
  <2> QED BY Zenon, <1>4, <1>6, <2>1 DEF Flush
<1> QED BY Zenon, <1>1, <1>2, <1>3, <1>5, <1>6 DEF RunStep

\* No step of the running node loses a block.
LEMMA RunData ==
    ASSUME Inv, Flat, RunStep, LayoutInMemory, DbData, MemData, "block" \notin faults'
    PROVE  DbData' /\ MemData'
<1>1. ASSUME NEW b \in Blocks, NEW written \in BOOLEAN, AcceptBlock(b, written) PROVE DbData' /\ MemData'
  <2>1. written = TRUE
    BY Zenon, <1>1 DEF AcceptBlock
  <2> QED BY Zenon, <1>1, <2>1, AcceptData
<1>2. ASSUME SameBlocks, UNCHANGED <<blk, blkDisk, files>> PROVE DbData' /\ MemData'
  <2>1. UNCHANGED <<dbIndex, dbLast>> /\ ~Synced
    BY Zenon, RunFrame DEF dbVars, Synced
  <2>2. DbData'
    BY Zenon, <1>2, <2>1 DEF DbData, Data
  <2>3. CASE \A b \in Blocks : index'[b].data = index[b].data /\ nLastBlockFile' = nLastBlockFile /\ pc' = pc
    BY Zenon, <1>2, <2>1, <2>2, <2>3, BlockStoreAssumption DEF MemData, Data, Synced
  <2>4. CASE \E mode, next, idx, info, db, df, check :
                 /\ Typed(next, idx, info, nLastBlockFile, db, df, check)
                 /\ FlushStateToDisk(mode, next, idx, info, nLastBlockFile, db, df, check)
                 /\ \A b \in Blocks : idx[b].data = index[b].data
    <3>1. PICK mode, next, idx, info, db, df, check :
                 /\ Typed(next, idx, info, nLastBlockFile, db, df, check)
                 /\ FlushStateToDisk(mode, next, idx, info, nLastBlockFile, db, df, check)
                 /\ \A b \in Blocks : idx[b].data = index[b].data
      BY Zenon, <2>4
    <3>2. Data(idx, nLastBlockFile, FALSE, files', blk', blkDisk')
      BY Zenon, <1>2, <2>1, <3>1 DEF MemData, Data
    <3>3. MemData'
      BY Zenon, <3>1, <3>2, FlushData
    <3> QED BY Zenon, <2>2, <3>3
  <2> QED BY Zenon, <1>2, <2>3, <2>4 DEF SameBlocks
<1> QED BY Zenon, <1>1, <1>2, RunCases

\* Every step keeps the blocks.
LEMMA StepData == Inv /\ Flat /\ Layout /\ DataInv /\ [Next]_vars => DataInv'
<1> SUFFICES ASSUME Inv, Flat, Layout, DataInv, [Next]_vars, faults' \cap {"block", "index"} = {}
             PROVE  DbData' /\ (Up' => MemData')
  BY Zenon DEF DataInv
<1>1. CASE RunStep
  <2>1. DbData /\ MemData /\ LayoutInMemory /\ "block" \notin faults'
    BY Zenon, <1>1, RunFrame DEF DataInv, Layout
  <2> QED BY Zenon, <1>1, <2>1, RunData
<1>2. CASE FlushBlockFile
  <2>1. /\ UNCHANGED <<index, nLastBlockFile, dbIndex, dbLast, files, blk, faults>>
        /\ blkDisk' = [p \in Places |-> IF p[1] = nLastBlockFile THEN blk[p] ELSE blkDisk[p]]
    BY Zenon, <1>2 DEF FlushBlockFile, SyncedBlk, memVars, dbVars, faultVars
  <2>2. DbData /\ MemData
    BY Zenon, <1>2, <2>1, AfterWrite DEF DataInv
  <2>3. \A b \in Blocks : /\ index[b].data # NoPos => index[b].data \in Places
                          /\ dbIndex[b].data # NoPos => dbIndex[b].data \in Places
    BY Zenon, AllNumbers DEF Numbers
  <2>4. DbData'
    BY Zenon, <2>1, <2>2, <2>3 DEF DbData, Data
  <2>5. MemData'
    BY Zenon, <2>1, <2>2, <2>3 DEF MemData, Data
  <2> QED BY Zenon, <2>4, <2>5
<1>3. CASE WriteBatchSync
  <2>1. UNCHANGED <<index, nLastBlockFile, fileVars, faults>>
    BY Zenon, <1>3 DEF WriteBatchSync, faultVars
  <2>2. MemData /\ LayoutInMemory /\ Synced
    BY Zenon, <1>3, <2>1, AfterWrite DEF DataInv, Layout, Synced
  <2>3. dbIndex' = index
    BY Zenon, <1>3, <2>2, BatchFacts
  <2> QED BY Zenon, <2>1, <2>2, <2>3 DEF DbData, MemData, Data, fileVars
<1>4. CASE WriteBatchFails
  BY Zenon, <1>4 DEF WriteBatchFails
<1>5. CASE UnlinkPrunedFiles
  <2>1. /\ UNCHANGED <<index, nLastBlockFile, dbIndex, dbLast, faults>>
        /\ files' = files \ pc.prune
        /\ blk' = [p \in Places |-> IF p[1] \in pc.prune THEN NoBlock ELSE blk[p]]
        /\ blkDisk' = [p \in Places |-> IF p[1] \in pc.prune THEN NoBlock ELSE blkDisk[p]]
    BY Zenon, <1>5 DEF UnlinkPrunedFiles, memVars, dbVars, faultVars
  <2>2. DbData /\ MemData /\ LayoutInMemory /\ pc.at = "unlink" /\ Synced
    BY Zenon, <1>5, <2>1, AfterWrite DEF DataInv, Layout, Synced
  <2>3. \A b \in Blocks : /\ index[b].data # NoPos => index[b].data[1] \notin pc.prune /\ index[b].data \in Places
                          /\ index[b] = dbIndex[b]
    BY Zenon, <2>2, AllNumbers DEF LayoutInMemory, Stage, Mem, Numbers
  <2>4. ASSUME NEW b \in Blocks, index[b].data # NoPos
        PROVE  index[b].data[1] \in files' /\ blk'[index[b].data] = b /\ blkDisk'[index[b].data] = b
    <3>1. index[b].data[1] \in files /\ blk[index[b].data] = b /\ blkDisk[index[b].data] = b
      BY Zenon, <2>2, <2>4 DEF MemData, Data
    <3> QED BY Zenon, <2>1, <2>3, <2>4, <3>1
  <2> QED BY Zenon, <2>1, <2>3, <2>4 DEF DbData, MemData, Data
<1>6. CASE FlushCoins
  <2>1. UNCHANGED <<index, nLastBlockFile, dbIndex, dbLast, fileVars, faults>>
    BY Zenon, <1>6 DEF FlushCoins, faultVars
  <2>2. DbData /\ MemData /\ Synced
    BY Zenon, <1>6, <2>1, AfterWrite DEF DataInv, Synced
  <2> QED BY Zenon, <2>1, <2>2 DEF DbData, MemData, Data, fileVars
<1>7. CASE CrashStep
  <2>1. PICK lost : /\ UNCHANGED <<dbIndex, dbLast, blkDisk, files>> /\ pc' = At("down") /\ faults \subseteq faults'
                    /\ blk' = [p \in Places |-> IF p \in lost THEN blkDisk[p] ELSE blk[p]]
    BY Zenon, <1>7 DEF CrashStep, Crash
  <2>2. ~Up'
    <3>1. pc'.at = "down"
      BY Zenon, <2>1, ReturnFacts
    <3> QED BY Zenon, <3>1 DEF Up
  <2>3. DbData /\ \A b \in Blocks : dbIndex[b].data # NoPos => dbIndex[b].data \in Places
    BY Zenon, <2>1, AllNumbers DEF DataInv, Numbers
  <2> QED BY Zenon, <2>1, <2>2, <2>3 DEF DbData, Data
<1>8. CASE Restart
  <2>1. /\ UNCHANGED <<dbIndex, dbLast, fileVars, faults>>
        /\ index' = dbIndex /\ nLastBlockFile' = dbLast
    BY Zenon, <1>8 DEF Restart, dbVars, faultVars
  <2>2. DbData
    BY Zenon, <2>1 DEF DataInv
  <2> QED BY Zenon, <2>1, <2>2 DEF DbData, MemData, Data, fileVars
<1>9. CASE UNCHANGED vars
  <2>1. UNCHANGED <<index, nLastBlockFile, pc, dbIndex, dbLast, blk, blkDisk, files, faults>>
    BY Zenon, <1>9 DEF vars, memVars, dbVars, faultVars, fileVars
  <2> QED BY Zenon, <2>1 DEF DataInv, DbData, MemData, Data, Up, Synced
<1> QED BY Zenon, <1>1, <1>2, <1>3, <1>4, <1>5, <1>6, <1>7, <1>8, <1>9 DEF Next, RunStep

\* The genesis block is in the first file.
LEMMA InitData == Init => DataInv
<1> SUFFICES ASSUME Init PROVE DataInv
  BY Zenon
<1>1. \A b \in Blocks : index[b].data # NoPos => b = Genesis /\ index[b].data = <<0, 0>>
  BY Zenon, InitParts
<1>2. blk[<<0, 0>>] = Genesis
  BY Zenon, InitParts
<1>3. Data(index, 0, TRUE, files, blk, blkDisk)
  BY Zenon, <1>1, <1>2, InitParts DEF Data
<1> QED BY Zenon, <1>3, InitParts DEF DataInv, DbData, MemData, Data

-----------------------------------------------------------------------------
(* The undo data is in the files.                                          *)

\* Where idx says, the file has the undo data of the block, or one of E.
UndoIn(idx, E, os) == \A b \in Blocks : idx[b].undo # NoPos => os[idx[b].undo] \in {b} \cup E

\* A file before the last one holds nothing after its undo data: it was cut
\* off there when it was left, so that what comes next goes to a free place.
Cut(idx, info, last, disk) ==
    \A b \in Blocks : idx[b].data # NoPos /\ idx[b].data[1] < last =>
        \A p \in UndoPlaces : p[1] = idx[b].data[1] /\ p[2] >= info[p[1]].nUndoSize => disk[p] = NoBlock

\* The disk has no undo data of another block, outside the last file while
\* this one is not synced.
UndoSynced(idx, info, last, synced, disk) ==
    /\ \A b \in Blocks : idx[b].undo # NoPos /\ (idx[b].undo[1] # last \/ synced) => disk[idx[b].undo] \in {b, NoBlock}
    /\ Cut(idx, info, last, disk)

RevInv(E) == UndoIn(dbIndex, E, rev) /\ (Up => UndoIn(index, E, rev))
DiskInv ==
    /\ UndoSynced(dbIndex, dbInfo, dbLast, TRUE, revDisk)
    /\ Up => UndoSynced(index, vinfoBlockFile, nLastBlockFile, Synced, revDisk)

UndoInv == "index" \notin faults => RevInv({NoBlock}) /\ DiskInv
UndoThere == faults \cap {"undo", "index"} = {} => RevInv({})

\* FlushStateToDisk only takes entries out of the index.
LEMMA FlushUndo ==
    ASSUME NEW mode, NEW next, NEW idx, NEW info, NEW last, NEW db, NEW df, NEW check,
           Typed(next, idx, info, last, db, df, check),
           FlushStateToDisk(mode, next, idx, info, last, db, df, check)
    PROVE  /\ \A E : UndoIn(idx, E, rev') => UndoIn(index', E, rev')
           /\ UndoSynced(idx, info, last, FALSE, revDisk') =>
                  (UndoSynced(index, vinfoBlockFile, nLastBlockFile, Synced, revDisk))'
<1>1. PICK P : Shrunk(P, idx, info, last, db, df)
  BY Zenon, FlushShrinks
<1>2. /\ ~Synced' /\ nLastBlockFile' = last
      /\ \A b \in Blocks : /\ index'[b].data # NoPos => index'[b] = idx[b] /\ idx[b].data[1] \notin P
                           /\ index'[b].undo # NoPos => index'[b] = idx[b]
      /\ \A f \in Files : f \notin P => vinfoBlockFile'[f] = info[f]
  BY Zenon, <1>1 DEF Shrunk, Synced
<1>3. \A E : UndoIn(idx, E, rev') => UndoIn(index', E, rev')
  BY Zenon, <1>2 DEF UndoIn
<1>4. ASSUME UndoSynced(idx, info, last, FALSE, revDisk')
      PROVE  (UndoSynced(index, vinfoBlockFile, nLastBlockFile, Synced, revDisk))'
  <2>1. \A b \in Blocks : index'[b].undo # NoPos /\ (index'[b].undo[1] # nLastBlockFile' \/ Synced') =>
            revDisk'[index'[b].undo] \in {b, NoBlock}
    BY Zenon, <1>2, <1>4 DEF UndoSynced
  <2>2. Cut(index', vinfoBlockFile', nLastBlockFile', revDisk')
    <3> SUFFICES ASSUME NEW b \in Blocks, index'[b].data # NoPos, index'[b].data[1] < last, NEW p \in UndoPlaces,
                        p[1] = index'[b].data[1], p[2] >= vinfoBlockFile'[p[1]].nUndoSize
                 PROVE  revDisk'[p] = NoBlock
      BY Zenon, <1>2 DEF Cut
    <3>1. index'[b] = idx[b] /\ p[1] \notin P /\ p[1] \in Files
      BY Zenon, <1>2, PlaceParts
    <3>2. vinfoBlockFile'[p[1]] = info[p[1]]
      BY Zenon, <1>2, <3>1
    <3> QED BY Zenon, <1>4, <3>1, <3>2 DEF UndoSynced, Cut
  <2> QED BY Zenon, <2>1, <2>2 DEF UndoSynced
<1> QED BY Zenon, <1>3, <1>4

\* What AcceptBlock does to undo data: only what is after the end of the file
\* it leaves is cut off.
CutsAt(p, f) ==
    /\ rev'[p] \in {rev[p], NoBlock}
    /\ p[1] # nLastBlockFile \/ p[2] < vinfoBlockFile[p[1]].nUndoSize => rev'[p] = rev[p]
    /\ revDisk'[p] = IF f # nLastBlockFile /\ p[1] = nLastBlockFile THEN rev'[p] ELSE revDisk[p]
    /\ f # nLastBlockFile /\ p[1] = nLastBlockFile /\ p[2] >= vinfoBlockFile[p[1]].nUndoSize => rev'[p] = NoBlock

\* It does so at every place.
LEMMA AcceptCuts ==
    ASSUME Flat, NEW b, NEW written, NEW f, NEW idx, NEW info, Accepted(b, written, f, idx, info)
    PROVE  \A p \in UndoPlaces : CutsAt(p, f)
<1> SUFFICES ASSUME NEW p \in UndoPlaces PROVE CutsAt(p, f)
  BY Zenon
<1> DEFINE old == nLastBlockFile
           left == f # old
           n == vinfoBlockFile[old].nUndoSize
<1>1. /\ rev' = [q \in UndoPlaces |-> CutOff(rev, q, left, old, n)]
      /\ revDisk' = [q \in UndoPlaces |-> IF left /\ q[1] = old THEN CutOff(rev, q, left, old, n) ELSE revDisk[q]]
  BY Zenon DEF Accepted
<1>2. rev'[p] = CutOff(rev, p, left, old, n)
      /\ revDisk'[p] = IF left /\ p[1] = old THEN CutOff(rev, p, left, old, n) ELSE revDisk[p]
  BY Zenon, <1>1
<1>3. p[2] < n => ~(p[2] >= n)
  <2>1. p[2] \in Nat /\ n \in Nat
    BY Zenon, AllNumbers, PlaceParts DEF Numbers, Flat
  <2> HIDE DEF n
  <2> QED BY SMT, <2>1
<1> QED BY Zenon, <1>2, <1>3 DEF CutOff, CutsAt

\* AcceptBlock keeps the undo data that is referred to.
LEMMA AcceptUndo ==
    ASSUME Inv, Flat, LayoutInMemory, NEW b \in Blocks, NEW written \in BOOLEAN, AcceptBlock(b, written)
    PROVE  /\ \A E : RevInv(E) => RevInv(E)'
           /\ RevInv({NoBlock}) /\ DiskInv => DiskInv'
<1>1. PICK f, idx, info : Accepted(b, written, f, idx, info)
  BY Zenon, AcceptParts
<1> DEFINE n == vinfoBlockFile[f].nSize
           pos == <<f, n>>
           old == nLastBlockFile
           db == setDirtyBlockIndex \cup {b}
           df == setDirtyFileInfo \cup {f}
<1>0. \A p \in UndoPlaces : CutsAt(p, f)
  BY Zenon, <1>1, AcceptCuts
<1>2. /\ f \in Files /\ old <= f /\ pos \in Places
      /\ idx \in [Blocks -> Entries] /\ HasEntry(idx, index, b, TRUE, pos, NoPos, index[b].failed)
      /\ HasInfo(info, vinfoBlockFile, f, n + 1, vinfoBlockFile[f].nUndoSize)
      /\ FlushStateToDisk("NONE", NoBlock, idx, info, f, db, df, fPruneMode)
  BY Zenon, <1>1 DEF Accepted
<1>3. /\ idx[b].data = pos /\ idx[b].undo = NoPos /\ \A c \in Blocks : c # b => idx[c] = index[c]
      /\ \A e \in Files : info[e].nUndoSize = vinfoBlockFile[e].nUndoSize
  BY Zenon, <1>2 DEF HasEntry, HasInfo
<1>4. /\ UNCHANGED <<dbIndex, dbInfo, dbLast>> /\ ~Synced /\ Up
      /\ Mem(index, vinfoBlockFile, old, setDirtyBlockIndex, setDirtyFileInfo)
  BY Zenon DEF AcceptBlock, dbVars, Running, Synced, Up, LayoutInMemory
<1>5. pos[1] = f
  BY Zenon, <1>2, AllNumbers, PlaceParts DEF Numbers
<1>6. f \in Nat /\ old \in Nat /\ dbLast \in Nat
  BY Zenon, <1>2, AllNumbers DEF Numbers, Flat
<1>7. ASSUME NEW c \in Blocks
      PROVE  /\ index[c].undo # NoPos => index[c].undo \in UndoPlaces /\ rev'[index[c].undo] = rev[index[c].undo]
             /\ dbIndex[c].undo # NoPos => dbIndex[c].undo \in UndoPlaces /\ rev'[dbIndex[c].undo] = rev[dbIndex[c].undo]
  <2>1. /\ index[c].undo # NoPos => index[c].undo \in UndoPlaces
        /\ dbIndex[c].undo # NoPos => dbIndex[c].undo \in UndoPlaces /\ dbIndex[c].undo[1] \in Nat
    BY Zenon, AllNumbers DEF Numbers
  <2>2. index[c].undo # NoPos => index[c].undo[2] < vinfoBlockFile[index[c].undo[1]].nUndoSize
    BY Zenon, <1>4 DEF Mem, UndoInRange
  <2>3. dbIndex[c].undo # NoPos => \/ dbIndex[c].undo[2] < vinfoBlockFile[dbIndex[c].undo[1]].nUndoSize
                                   \/ dbIndex[c].undo[1] < old
    BY Zenon, <1>4 DEF Mem, DbUndoFree
  <2>4. \A m \in Nat : m < old => m # old
    BY SMT, <1>6
  <2> QED BY Zenon, <1>0, <2>1, <2>2, <2>3, <2>4 DEF CutsAt
<1>8. Typed(NoBlock, idx, info, f, db, df, fPruneMode)
  BY Zenon, <1>2, BlockStoreAssumption DEF Typed, Nexts, HasInfo, Flat
<1> HIDE DEF db, df, pos, n
<1>9. /\ \A E : UndoIn(idx, E, rev') => UndoIn(index', E, rev')
      /\ UndoSynced(idx, info, f, FALSE, revDisk') =>
             (UndoSynced(index, vinfoBlockFile, nLastBlockFile, Synced, revDisk))'
  BY Zenon, <1>2, <1>8, FlushUndo
<1>10. ASSUME NEW E, RevInv(E) PROVE RevInv(E)'
  <2>1. UndoIn(dbIndex, E, rev) /\ UndoIn(index, E, rev)
    BY Zenon, <1>4, <1>10 DEF RevInv
  <2>2. UndoIn(dbIndex, E, rev')
    BY Zenon, <1>7, <2>1 DEF UndoIn
  <2>3. UndoIn(idx, E, rev')
    BY Zenon, <1>3, <1>7, <2>1 DEF UndoIn
  <2> QED BY Zenon, <1>4, <1>9, <2>2, <2>3 DEF RevInv
<1>11. ASSUME RevInv({NoBlock}), DiskInv PROVE DiskInv'
  <2>1. /\ UndoIn(dbIndex, {NoBlock}, rev) /\ UndoIn(index, {NoBlock}, rev)
        /\ UndoSynced(dbIndex, dbInfo, dbLast, TRUE, revDisk) /\ UndoSynced(index, vinfoBlockFile, old, FALSE, revDisk)
    BY Zenon, <1>4, <1>11 DEF RevInv, DiskInv, UndoSynced
  <2>2. ASSUME NEW c \in Blocks, dbIndex[c].undo # NoPos PROVE revDisk'[dbIndex[c].undo] \in {c, NoBlock}
    <3>1. rev'[dbIndex[c].undo] \in {c, NoBlock} /\ revDisk[dbIndex[c].undo] \in {c, NoBlock} /\ dbIndex[c].undo \in UndoPlaces
      BY Zenon, <1>7, <2>1, <2>2 DEF UndoIn, UndoSynced
    <3> QED BY Zenon, <1>0, <3>1 DEF CutsAt
  <2>3. Cut(dbIndex, dbInfo, dbLast, revDisk')
    <3> SUFFICES ASSUME NEW c \in Blocks, dbIndex[c].data # NoPos, dbIndex[c].data[1] < dbLast, NEW p \in UndoPlaces,
                        p[1] = dbIndex[c].data[1], p[2] >= dbInfo[p[1]].nUndoSize
                 PROVE  revDisk'[p] = NoBlock
      BY Zenon DEF Cut
    <3>1. revDisk[p] = NoBlock
      BY Zenon, <2>1 DEF UndoSynced, Cut
    <3>2. p[1] # old
      <4>1. p[1] \in Nat /\ p[1] < dbLast /\ dbLast <= old
        BY Zenon, <1>4, AllNumbers DEF Numbers, Mem
      <4> QED BY SMT, <1>6, <4>1
    <3> QED BY Zenon, <1>0, <3>1, <3>2 DEF CutsAt
  <2>4. ASSUME NEW c \in Blocks, idx[c].undo # NoPos, idx[c].undo[1] # f PROVE revDisk'[idx[c].undo] \in {c, NoBlock}
    <3>1. idx[c] = index[c] /\ index[c].undo # NoPos
      BY Zenon, <1>3, <2>4
    <3>2. /\ rev'[index[c].undo] \in {c, NoBlock} /\ index[c].undo \in UndoPlaces
          /\ index[c].undo[1] # old => revDisk[index[c].undo] \in {c, NoBlock}
      BY Zenon, <1>7, <2>1, <3>1 DEF UndoIn, UndoSynced
    <3>3. revDisk'[index[c].undo] = IF f # old /\ index[c].undo[1] = old THEN rev'[index[c].undo] ELSE revDisk[index[c].undo]
      BY Zenon, <1>0, <3>2 DEF CutsAt
    <3> QED BY Zenon, <2>4, <3>1, <3>2, <3>3
  <2>5. Cut(idx, info, f, revDisk')
    <3> SUFFICES ASSUME NEW c \in Blocks, idx[c].data # NoPos, idx[c].data[1] < f, NEW p \in UndoPlaces,
                        p[1] = idx[c].data[1], p[2] >= info[p[1]].nUndoSize
                 PROVE  revDisk'[p] = NoBlock
      BY Zenon DEF Cut
    <3>1. c # b
      <4>1. ~(f < f)
        BY SMT, <1>6
      <4> QED BY Zenon, <1>3, <1>5, <4>1
    <3>2. idx[c] = index[c] /\ p[1] \in Files /\ p[2] >= vinfoBlockFile[p[1]].nUndoSize
      BY Zenon, <1>3, <3>1, PlaceParts
    <3>3. p[1] < old \/ p[1] = old
      BY Zenon, <1>4, <3>2 DEF Mem, InRange
    <3>4. CASE p[1] = old
      <4>1. f # old
        <5>1. ~(old < old)
          BY SMT, <1>6
        <5> QED BY Zenon, <3>4, <5>1
      <4>2. rev'[p] = NoBlock
        BY Zenon, <1>0, <3>2, <3>4, <4>1 DEF CutsAt
      <4>3. revDisk'[p] = IF f # old /\ p[1] = old THEN rev'[p] ELSE revDisk[p]
        BY Zenon, <1>0 DEF CutsAt
      <4> QED BY Zenon, <3>4, <4>1, <4>2, <4>3
    <3>5. CASE p[1] < old
      <4>1. p[1] # old
        BY SMT, <1>6, <3>5, PlaceParts
      <4>2. revDisk[p] = NoBlock
        BY Zenon, <2>1, <3>2, <3>5 DEF UndoSynced, Cut
      <4> QED BY Zenon, <1>0, <4>1, <4>2 DEF CutsAt
    <3> QED BY Zenon, <3>3, <3>4, <3>5
  <2>6. UndoSynced(dbIndex, dbInfo, dbLast, TRUE, revDisk') /\ UndoSynced(idx, info, f, FALSE, revDisk')
    BY Zenon, <2>2, <2>3, <2>4, <2>5 DEF UndoSynced
  <2> QED BY Zenon, <1>4, <1>9, <2>6 DEF DiskInv
<1> QED BY Zenon, <1>10, <1>11

\* ConnectTip writes undo data to a place nothing refers to.
LEMMA ConnectUndo ==
    ASSUME Inv, Flat, LayoutInMemory, NEW b \in Blocks, ConnectTip(b)
    PROVE  /\ \A E : RevInv(E) => RevInv(E)'
           /\ RevInv({NoBlock}) /\ DiskInv => DiskInv'
<1>1. PICK idx, info, db, df, check : Connects(b, idx, info, db, df, check)
  BY Zenon, ConnectParts
<1>2. /\ Typed(b, idx, info, nLastBlockFile, db, df, check)
      /\ FlushStateToDisk("IF_NEEDED", b, idx, info, nLastBlockFile, db, df, check)
  BY Zenon, <1>1 DEF Connects, Nexts, Flat, Typed
<1>3. UNCHANGED <<dbIndex, dbInfo, dbLast, revDisk>> /\ ~Synced /\ Up
  BY Zenon DEF ConnectTip, dbVars, Running, Synced, Up
<1>4. /\ \A E : UndoIn(idx, E, rev') => UndoIn(index', E, rev')
      /\ UndoSynced(idx, info, nLastBlockFile, FALSE, revDisk') =>
             (UndoSynced(index, vinfoBlockFile, nLastBlockFile, Synced, revDisk))'
  BY Zenon, <1>2, FlushUndo
<1>5. SUFFICES /\ \A E : RevInv(E) => UndoIn(dbIndex, E, rev') /\ UndoIn(idx, E, rev')
               /\ DiskInv => UndoSynced(idx, info, nLastBlockFile, FALSE, revDisk)
  BY Zenon, <1>3, <1>4 DEF RevInv, DiskInv, UndoSynced, UndoIn, Cut
<1>6. CASE index[b].undo # NoPos
  <2>1. idx = index /\ info = vinfoBlockFile /\ rev' = rev
    BY Zenon, <1>1, <1>6 DEF Connects
  <2> QED BY Zenon, <1>3, <2>1 DEF RevInv, DiskInv, UndoSynced
<1>7. CASE index[b].undo = NoPos
  <2> DEFINE f == index[b].data[1]
             n == vinfoBlockFile[f].nUndoSize
             pos == <<f, n>>
  <2>1. /\ index[b].data \in Places /\ f \in Files /\ pos \in UndoPlaces
        /\ HasEntry(idx, index, b, index[b].known, index[b].data, pos, index[b].failed)
        /\ HasInfo(info, vinfoBlockFile, f, vinfoBlockFile[f].nSize, n + 1)
        /\ rev' = [p \in UndoPlaces |-> IF p = pos THEN b ELSE rev[p]]
    BY Zenon, <1>1, <1>7 DEF Connects
  <2>2. StillInRange(info, f)
    <3>1. UndoTaken(info, f)
      BY Zenon, <2>1 DEF UndoTaken
    <3> QED BY Zenon, <2>1, <3>1, MoreUndo
  <2>3. /\ idx[b].data = index[b].data /\ idx[b].undo = pos
        /\ \A c \in Blocks : c # b => idx[c] = index[c]
    BY Zenon, <2>1 DEF HasEntry
  <2>4. pos[1] = f /\ pos[2] = n /\ n \in Nat /\ index[b].data # NoPos
    <3>1. n \in Nat
      BY Zenon, <2>1, AllNumbers DEF Numbers
    <3> QED BY Zenon, <2>1, <3>1, PlaceParts
  <2>5. Mem(index, vinfoBlockFile, nLastBlockFile, setDirtyBlockIndex, setDirtyFileInfo)
    BY Zenon DEF LayoutInMemory
  <2>6. ~(n < n) /\ n >= n
    BY SMT, <2>4
  <2>7. ASSUME NEW c \in Blocks, index[c].undo # NoPos
        PROVE  index[c].undo \in UndoPlaces /\ index[c].undo # pos
    <3>1. index[c].undo[2] < vinfoBlockFile[index[c].undo[1]].nUndoSize
      BY Zenon, <2>5, <2>7 DEF Mem, UndoInRange
    <3>2. index[c].undo = pos => n < n
      BY Zenon, <2>4, <3>1
    <3> QED BY Zenon, <2>6, <2>7, <3>2, AllNumbers DEF Numbers
  <2>8. ASSUME NEW c \in Blocks, dbIndex[c].undo # NoPos
        PROVE  dbIndex[c].undo \in UndoPlaces /\ dbIndex[c].undo # pos
    <3>1. \/ dbIndex[c].undo[2] < vinfoBlockFile[dbIndex[c].undo[1]].nUndoSize
          \/ \A d \in Blocks : index[d].data # NoPos => index[d].data[1] # dbIndex[c].undo[1]
      BY Zenon, <2>5, <2>8 DEF Mem, DbUndoFree
    <3>2. dbIndex[c].undo = pos => dbIndex[c].undo[1] = f /\ dbIndex[c].undo[2] = n
      BY Zenon, <2>4
    <3>3. dbIndex[c].undo # pos
      BY Zenon, <2>4, <2>6, <3>1, <3>2
    <3> QED BY Zenon, <2>8, <3>3, AllNumbers DEF Numbers
  <2> HIDE DEF pos, n
  <2>9. ASSUME NEW E, RevInv(E) PROVE UndoIn(dbIndex, E, rev') /\ UndoIn(idx, E, rev')
    <3>1. UndoIn(dbIndex, E, rev) /\ UndoIn(index, E, rev)
      BY Zenon, <1>3, <2>9 DEF RevInv
    <3>2. UndoIn(dbIndex, E, rev')
      BY Zenon, <2>1, <2>8, <3>1 DEF UndoIn
    <3>3. rev'[pos] = b /\ \A c \in Blocks : index[c].undo # NoPos => rev'[index[c].undo] = rev[index[c].undo]
      BY Zenon, <2>1, <2>7
    <3>4. UndoIn(idx, E, rev')
      BY Zenon, <2>3, <3>1, <3>3 DEF UndoIn
    <3> QED BY Zenon, <3>2, <3>4
  <2>10. ASSUME DiskInv PROVE UndoSynced(idx, info, nLastBlockFile, FALSE, revDisk)
    <3>1. UndoSynced(index, vinfoBlockFile, nLastBlockFile, FALSE, revDisk)
      BY Zenon, <1>3, <2>10 DEF DiskInv, UndoSynced
    <3>2. f # nLastBlockFile => revDisk[pos] = NoBlock
      <4>1. f < nLastBlockFile \/ f = nLastBlockFile
        BY Zenon, <2>4, <2>5 DEF Mem, InRange
      <4>2. pos[2] >= vinfoBlockFile[pos[1]].nUndoSize
        BY Zenon, <2>4, <2>6 DEF n
      <4> QED BY Zenon, <2>1, <2>4, <3>1, <4>1, <4>2 DEF UndoSynced, Cut
    <3>3. \A c \in Blocks : idx[c].undo # NoPos /\ idx[c].undo[1] # nLastBlockFile => revDisk[idx[c].undo] \in {c, NoBlock}
      BY Zenon, <2>3, <2>4, <3>1, <3>2 DEF UndoSynced
    <3>4. Cut(idx, info, nLastBlockFile, revDisk)
      <4> SUFFICES ASSUME NEW c \in Blocks, idx[c].data # NoPos, idx[c].data[1] < nLastBlockFile, NEW p \in UndoPlaces,
                          p[1] = idx[c].data[1], p[2] >= info[p[1]].nUndoSize
                   PROVE  revDisk[p] = NoBlock
        BY Zenon DEF Cut
      <4>1. idx[c].data = index[c].data
        BY Zenon, <2>3
      <4>2. /\ info[p[1]].nUndoSize \in Nat /\ vinfoBlockFile[p[1]].nUndoSize <= info[p[1]].nUndoSize
            /\ p[2] \in Nat /\ vinfoBlockFile[p[1]].nUndoSize \in Nat
        BY Zenon, <2>2, PlaceParts, AllNumbers DEF StillInRange, Numbers
      <4>3. p[2] >= vinfoBlockFile[p[1]].nUndoSize
        BY SMT, <4>2
      <4> QED BY Zenon, <3>1, <4>1, <4>3 DEF UndoSynced, Cut
    <3> QED BY Zenon, <3>3, <3>4 DEF UndoSynced
  <2> QED BY Zenon, <2>9, <2>10
<1> QED BY Zenon, <1>6, <1>7

\* No step of the running node overwrites undo data that is referred to.
LEMMA RunUndo ==
    ASSUME Inv, Flat, RunStep, LayoutInMemory
    PROVE  /\ \A E : RevInv(E) => RevInv(E)'
           /\ RevInv({NoBlock}) /\ DiskInv => DiskInv'
<1>0. UNCHANGED <<dbIndex, dbInfo, dbLast>> /\ Up /\ ~Synced
  BY Zenon, RunFrame DEF dbVars, Synced
<1>1. ASSUME UNCHANGED <<rev, revDisk, nLastBlockFile, pc>>,
             \A c \in Blocks : index'[c].data = index[c].data /\ index'[c].undo = index[c].undo,
             \A e \in Files : vinfoBlockFile'[e].nUndoSize \in Nat
                              /\ vinfoBlockFile[e].nUndoSize <= vinfoBlockFile'[e].nUndoSize
      PROVE  /\ \A E : RevInv(E) => RevInv(E)'
             /\ RevInv({NoBlock}) /\ DiskInv => DiskInv'
  <2>1. ASSUME NEW E, RevInv(E) PROVE RevInv(E)'
    BY Zenon, <1>0, <1>1, <2>1 DEF RevInv, UndoIn
  <2>2. ASSUME DiskInv PROVE DiskInv'
    <3>1. UndoSynced(index, vinfoBlockFile, nLastBlockFile, Synced, revDisk)
      BY Zenon, <1>0, <2>2 DEF DiskInv
    <3>2. \A p \in UndoPlaces : p[2] >= vinfoBlockFile'[p[1]].nUndoSize => p[2] >= vinfoBlockFile[p[1]].nUndoSize
      <4> SUFFICES ASSUME NEW p \in UndoPlaces, p[2] >= vinfoBlockFile'[p[1]].nUndoSize
                   PROVE  p[2] >= vinfoBlockFile[p[1]].nUndoSize
        BY Zenon
      <4>1. /\ vinfoBlockFile'[p[1]].nUndoSize \in Nat /\ vinfoBlockFile[p[1]].nUndoSize <= vinfoBlockFile'[p[1]].nUndoSize
            /\ p[2] \in Nat /\ vinfoBlockFile[p[1]].nUndoSize \in Nat
        BY Zenon, <1>1, PlaceParts, AllNumbers DEF Numbers
      <4> QED BY SMT, <4>1
    <3>3. Synced' = Synced
      BY Zenon, <1>1 DEF Synced
    <3>4. (UndoSynced(index, vinfoBlockFile, nLastBlockFile, Synced, revDisk))'
      BY Zenon, <1>1, <3>1, <3>2, <3>3 DEF UndoSynced, Cut
    <3>5. (UndoSynced(dbIndex, dbInfo, dbLast, TRUE, revDisk))'
      BY Zenon, <1>0, <1>1, <2>2 DEF DiskInv, UndoSynced, Cut
    <3> QED BY Zenon, <3>4, <3>5 DEF DiskInv
  <2> QED BY Zenon, <2>1, <2>2
<1>2. ASSUME NEW b \in Blocks, ConnectWithoutUndo(b)
      PROVE  /\ \A E : RevInv(E) => RevInv(E)'
             /\ RevInv({NoBlock}) /\ DiskInv => DiskInv'
  <2> DEFINE f == index[b].data[1]
  <2>1. /\ index[b].data # NoPos /\ vinfoBlockFile[f].nUndoSize < MaxUndo
        /\ vinfoBlockFile' = UndoCounted(vinfoBlockFile, f)
        /\ UNCHANGED <<index, nLastBlockFile, pc, rev, revDisk>>
    BY Zenon, <1>2 DEF ConnectWithoutUndo, Readable, fileVars
  <2>2. f \in Files /\ UndoTaken(vinfoBlockFile', f)
    BY Zenon, <2>1, UndoPlace DEF UndoTaken
  <2> HIDE DEF f
  <2>3. StillInRange(vinfoBlockFile', f)
    BY Zenon, <2>2, MoreUndo
  <2> QED BY Zenon, <1>1, <2>1, <2>3 DEF StillInRange
<1>3. ASSUME NEW b \in Blocks, ConnectFails(b)
      PROVE  /\ \A E : RevInv(E) => RevInv(E)'
             /\ RevInv({NoBlock}) /\ DiskInv => DiskInv'
  <2>1. index' = Failed(index, b) /\ UNCHANGED <<vinfoBlockFile, nLastBlockFile, pc, rev, revDisk>>
    BY Zenon, <1>3 DEF ConnectFails, Failed, fileVars
  <2>2. index' = Entry(index, b, index[b].known, index[b].data, index[b].undo, TRUE)
    BY Zenon, <2>1, UpdateFacts DEF Inv, Types
  <2>3. HasEntry(index', index, b, index[b].known, index[b].data, index[b].undo, TRUE)
    <3>1. IsIndex(index) /\ index[b].known \in BOOLEAN /\ (b = Genesis => index[b].undo = NoPos)
      BY Zenon DEF Inv, Types, IsIndex
    <3> QED BY Zenon, <2>2, <3>1, EntryFacts
  <2>4. \A c \in Blocks : index'[c].data = index[c].data /\ index'[c].undo = index[c].undo
    BY Zenon, <2>3 DEF HasEntry
  <2>5. \A e \in Files : vinfoBlockFile[e].nUndoSize \in Nat
    BY Zenon, AllNumbers DEF Numbers
  <2>6. \A m \in Nat : m <= m
    OBVIOUS
  <2> QED BY Zenon, <1>1, <2>1, <2>4, <2>5, <2>6
<1>4. ASSUME NEW mode, NEW next \in Nexts, UNCHANGED fileVars,
             FlushStateToDisk(mode, next, index, vinfoBlockFile, nLastBlockFile, setDirtyBlockIndex,
                 setDirtyFileInfo, fCheckForPruning)
      PROVE  /\ \A E : RevInv(E) => RevInv(E)'
             /\ RevInv({NoBlock}) /\ DiskInv => DiskInv'
  <2>1. Typed(next, index, vinfoBlockFile, nLastBlockFile, setDirtyBlockIndex, setDirtyFileInfo, fCheckForPruning)
    BY Zenon, <1>4 DEF Flat, Typed
  <2>2. /\ \A E : UndoIn(index, E, rev') => UndoIn(index', E, rev')
        /\ UndoSynced(index, vinfoBlockFile, nLastBlockFile, FALSE, revDisk') =>
               (UndoSynced(index, vinfoBlockFile, nLastBlockFile, Synced, revDisk))'
    BY Zenon, <1>4, <2>1, FlushUndo
  <2>3. UNCHANGED <<rev, revDisk>>
    BY Zenon, <1>4 DEF fileVars
  <2>4. \A E : RevInv(E) => RevInv(E)'
    BY Zenon, <1>0, <2>2, <2>3 DEF RevInv, UndoIn
  <2>5. ASSUME DiskInv PROVE DiskInv'
    <3>1. UndoSynced(index, vinfoBlockFile, nLastBlockFile, FALSE, revDisk')
      BY Zenon, <1>0, <2>3, <2>5 DEF DiskInv, UndoSynced
    <3>2. (UndoSynced(dbIndex, dbInfo, dbLast, TRUE, revDisk))'
      BY Zenon, <1>0, <2>3, <2>5 DEF DiskInv, UndoSynced, Cut
    <3> QED BY Zenon, <2>2, <3>1, <3>2 DEF DiskInv
  <2> QED BY Zenon, <2>4, <2>5
<1>5. CASE DisconnectTip
  <2>1. tip # Genesis /\ tip \in Blocks
    BY Zenon, <1>5 DEF DisconnectTip, UndoReadable, Inv, Types, IsIndex, Flat
  <2>2. Parent[tip] \in Nexts
    BY Zenon, <2>1, BlockStoreAssumption DEF Nexts
  <2> QED BY Zenon, <1>4, <1>5, <2>2 DEF DisconnectTip
<1>6. ASSUME NEW mode, NEW next \in {NoBlock, "exit"}, Flush(mode, next)
      PROVE  /\ \A E : RevInv(E) => RevInv(E)'
             /\ RevInv({NoBlock}) /\ DiskInv => DiskInv'
  <2>1. next \in Nexts
    BY Zenon DEF Nexts
  <2> QED BY Zenon, <1>4, <1>6, <2>1 DEF Flush
<1> QED BY Zenon, <1>2, <1>3, <1>5, <1>6, AcceptUndo, ConnectUndo DEF RunStep

\* A step that leaves index, files and databases alone keeps the undo data.
LEMMA SameUndo ==
    ASSUME UNCHANGED <<index, vinfoBlockFile, nLastBlockFile, dbIndex, dbInfo, dbLast, rev, revDisk>>
    PROVE  /\ \A E : Up /\ RevInv(E) => RevInv(E)'
           /\ Up /\ DiskInv /\ (Synced' => Synced) => DiskInv'
<1>1. \A E : Up /\ RevInv(E) => RevInv(E)'
  BY Zenon DEF RevInv, UndoIn
<1>2. ASSUME Up, DiskInv, Synced' => Synced PROVE DiskInv'
  <2>1. (UndoSynced(dbIndex, dbInfo, dbLast, TRUE, revDisk))'
    BY Zenon, <1>2 DEF DiskInv, UndoSynced, Cut
  <2>2. (UndoSynced(index, vinfoBlockFile, nLastBlockFile, Synced, revDisk))'
    BY Zenon, <1>2 DEF DiskInv, UndoSynced, Cut
  <2> QED BY Zenon, <2>1, <2>2 DEF DiskInv
<1> QED BY Zenon, <1>1, <1>2

\* UnlinkPrunedFiles removes undo data only of files no block is in.
LEMMA UnlinkUndo ==
    ASSUME Inv, Flat, UnlinkPrunedFiles, LayoutInMemory
    PROVE  /\ \A E : RevInv(E) => RevInv(E)'
           /\ DiskInv => DiskInv'
<1>1. /\ UNCHANGED <<index, vinfoBlockFile, nLastBlockFile, dbIndex, dbInfo, dbLast>>
      /\ rev' = [p \in UndoPlaces |-> IF p[1] \in pc.prune THEN NoBlock ELSE rev[p]]
      /\ revDisk' = [p \in UndoPlaces |-> IF p[1] \in pc.prune THEN NoBlock ELSE revDisk[p]]
  BY Zenon DEF UnlinkPrunedFiles, memVars, dbVars
<1>2. Up /\ pc.at = "unlink" /\ Synced
  BY Zenon, AfterWrite DEF Synced
<1>3. \A b \in Blocks : /\ index[b].data # NoPos => index[b].data[1] \notin pc.prune
                        /\ index[b] = dbIndex[b]
                        /\ index[b].undo # NoPos => /\ index[b].data # NoPos /\ index[b].undo[1] = index[b].data[1]
                                                    /\ index[b].undo \in UndoPlaces
  BY Zenon, <1>2, AllNumbers DEF LayoutInMemory, Stage, Mem, Numbers, UndoInRange
<1>4. \A b \in Blocks : index[b].undo # NoPos => /\ rev'[index[b].undo] = rev[index[b].undo]
                                                 /\ revDisk'[index[b].undo] = revDisk[index[b].undo]
  BY Zenon, <1>1, <1>3
<1>5. ASSUME NEW E, RevInv(E) PROVE RevInv(E)'
  <2>1. UndoIn(index, E, rev)
    BY Zenon, <1>2, <1>5 DEF RevInv
  <2>2. UndoIn(index, E, rev')
    BY Zenon, <1>4, <2>1 DEF UndoIn
  <2>3. UndoIn(dbIndex, E, rev')
    BY Zenon, <1>3, <2>2 DEF UndoIn
  <2> QED BY Zenon, <1>1, <2>2, <2>3 DEF RevInv, UndoIn
<1>6. ASSUME DiskInv PROVE DiskInv'
  <2>1. /\ UndoSynced(index, vinfoBlockFile, nLastBlockFile, Synced, revDisk)
        /\ UndoSynced(dbIndex, dbInfo, dbLast, TRUE, revDisk)
    BY Zenon, <1>2, <1>6 DEF DiskInv
  <2>2. \A p \in UndoPlaces : revDisk[p] = NoBlock => revDisk'[p] = NoBlock
    BY Zenon, <1>1
  <2>3. /\ \A b \in Blocks : index[b].undo # NoPos => revDisk'[index[b].undo] \in {b, NoBlock}
        /\ \A b \in Blocks : dbIndex[b].undo # NoPos => revDisk'[dbIndex[b].undo] \in {b, NoBlock}
    BY Zenon, <1>2, <1>3, <1>4, <2>1 DEF UndoSynced
  <2>4. (UndoSynced(index, vinfoBlockFile, nLastBlockFile, Synced, revDisk))'
    BY Zenon, <1>1, <2>1, <2>2, <2>3 DEF UndoSynced, Cut
  <2>5. (UndoSynced(dbIndex, dbInfo, dbLast, TRUE, revDisk))'
    BY Zenon, <1>1, <2>1, <2>2, <2>3 DEF UndoSynced, Cut
  <2> QED BY Zenon, <2>4, <2>5 DEF DiskInv
<1> QED BY Zenon, <1>5, <1>6

\* Syncing the last file keeps it: nothing is cut off there yet.
LEMMA SyncUndo ==
    ASSUME Inv, Flat, FlushBlockFile, LayoutInMemory, RevInv({NoBlock}), DiskInv
    PROVE  DiskInv'
<1>1. /\ UNCHANGED <<index, vinfoBlockFile, nLastBlockFile, dbIndex, dbInfo, dbLast, rev>>
      /\ revDisk' = [p \in UndoPlaces |-> IF p[1] = nLastBlockFile THEN rev[p] ELSE revDisk[p]]
  BY Zenon DEF FlushBlockFile, SyncedRev, memVars, dbVars
<1>2. Up
  BY Zenon, AfterWrite
<1>3. /\ UndoSynced(index, vinfoBlockFile, nLastBlockFile, Synced, revDisk)
      /\ UndoSynced(dbIndex, dbInfo, dbLast, TRUE, revDisk)
      /\ UndoIn(index, {NoBlock}, rev) /\ UndoIn(dbIndex, {NoBlock}, rev)
  BY Zenon, <1>2 DEF DiskInv, RevInv
<1>4. \A b \in Blocks : /\ index[b].undo # NoPos => index[b].undo \in UndoPlaces
                        /\ dbIndex[b].undo # NoPos => dbIndex[b].undo \in UndoPlaces
  BY Zenon, AllNumbers DEF Numbers
<1>5. /\ \A b \in Blocks : index[b].undo # NoPos => revDisk'[index[b].undo] \in {b, NoBlock}
      /\ \A b \in Blocks : dbIndex[b].undo # NoPos => revDisk'[dbIndex[b].undo] \in {b, NoBlock}
  BY Zenon, <1>1, <1>3, <1>4 DEF UndoSynced, UndoIn
<1>6. /\ \A p \in UndoPlaces : p[1] < nLastBlockFile => revDisk'[p] = revDisk[p]
      /\ \A p \in UndoPlaces : p[1] < dbLast => p[1] < nLastBlockFile
  <2>1. nLastBlockFile \in Nat /\ dbLast \in Nat /\ dbLast <= nLastBlockFile /\ \A p \in UndoPlaces : p[1] \in Nat
    BY Zenon, PlaceParts DEF Flat, LayoutInMemory, Mem
  <2>2. \A m \in Nat : (m < nLastBlockFile => m # nLastBlockFile) /\ (m < dbLast => m < nLastBlockFile)
    BY SMT, <2>1
  <2> QED BY Zenon, <1>1, <2>1, <2>2
<1>7. Cut(index, vinfoBlockFile, nLastBlockFile, revDisk') /\ Cut(dbIndex, dbInfo, dbLast, revDisk')
  BY Zenon, <1>3, <1>6 DEF UndoSynced, Cut
<1>8. (UndoSynced(index, vinfoBlockFile, nLastBlockFile, Synced, revDisk))'
  BY Zenon, <1>1, <1>5, <1>7 DEF UndoSynced, Cut
<1>9. (UndoSynced(dbIndex, dbInfo, dbLast, TRUE, revDisk))'
  BY Zenon, <1>1, <1>5, <1>7 DEF UndoSynced, Cut
<1> QED BY Zenon, <1>8, <1>9 DEF DiskInv

\* Every step keeps the undo data: what is referred to is never another
\* block's, and is there unless it was lost with the power.
LEMMA StepUndo == Inv /\ Flat /\ Layout /\ UndoInv /\ UndoThere /\ [Next]_vars => UndoInv' /\ UndoThere'
<1> SUFFICES ASSUME Inv, Flat, Layout, UndoInv, UndoThere, [Next]_vars, "index" \notin faults'
             PROVE  /\ RevInv({NoBlock})' /\ DiskInv'
                    /\ "undo" \notin faults' => RevInv({})'
  BY Zenon DEF UndoInv, UndoThere
<1>0. ASSUME faults \subseteq faults'
      PROVE  /\ LayoutOnDisk /\ (Up => LayoutInMemory) /\ RevInv({NoBlock}) /\ DiskInv
             /\ "undo" \notin faults' => RevInv({})
  BY Zenon, <1>0 DEF Layout, UndoInv, UndoThere
<1>1. CASE RunStep
  <2>1. Up /\ faults \subseteq faults'
    BY Zenon, <1>1, RunFrame
  <2>2. /\ \A E : RevInv(E) => RevInv(E)'
        /\ RevInv({NoBlock}) /\ DiskInv => DiskInv'
    BY Zenon, <1>0, <1>1, <2>1, RunUndo
  <2> QED BY Zenon, <1>0, <2>1, <2>2
<1>2. CASE FlushBlockFile
  <2>1. Up /\ faults' = faults /\ UNCHANGED <<index, dbIndex, rev>>
    BY Zenon, <1>2, AfterWrite DEF FlushBlockFile, memVars, dbVars, faultVars
  <2>2. LayoutInMemory /\ RevInv({NoBlock}) /\ DiskInv /\ ("undo" \notin faults' => RevInv({}))
    BY Zenon, <1>0, <2>1
  <2>3. DiskInv'
    BY Zenon, <1>2, <2>2, SyncUndo
  <2>4. \A E : RevInv(E) => RevInv(E)'
    BY Zenon, <2>1 DEF RevInv, UndoIn
  <2> QED BY Zenon, <2>2, <2>3, <2>4
<1>3. CASE WriteBatchSync
  <2>1. /\ faults' = faults /\ UNCHANGED <<index, vinfoBlockFile, nLastBlockFile, rev, revDisk>>
        /\ Up /\ Synced
    BY Zenon, <1>3, AfterWrite DEF WriteBatchSync, fileVars, faultVars, Synced
  <2>2. LayoutInMemory /\ RevInv({NoBlock}) /\ DiskInv /\ ("undo" \notin faults' => RevInv({}))
    BY Zenon, <1>0, <2>1
  <2>3. dbIndex' = index /\ dbInfo' = vinfoBlockFile /\ dbLast' = nLastBlockFile
    BY Zenon, <1>3, <2>2, BatchFacts
  <2>4. \A E : RevInv(E) => RevInv(E)'
    BY Zenon, <2>1, <2>3 DEF RevInv, UndoIn
  <2>5. UndoSynced(index, vinfoBlockFile, nLastBlockFile, TRUE, revDisk)
    BY Zenon, <2>1, <2>2 DEF DiskInv, UndoSynced
  <2>6. (UndoSynced(dbIndex, dbInfo, dbLast, TRUE, revDisk))'
    BY Zenon, <2>1, <2>3, <2>5 DEF UndoSynced, Cut
  <2>7. (UndoSynced(index, vinfoBlockFile, nLastBlockFile, Synced, revDisk))'
    BY Zenon, <2>1, <2>5 DEF UndoSynced, Cut
  <2> QED BY Zenon, <2>2, <2>4, <2>6, <2>7 DEF DiskInv
<1>4. CASE WriteBatchFails
  BY Zenon, <1>4 DEF WriteBatchFails
<1>5. CASE UnlinkPrunedFiles
  <2>1. Up /\ faults' = faults
    BY Zenon, <1>5, AfterWrite DEF UnlinkPrunedFiles, faultVars
  <2>2. LayoutInMemory /\ RevInv({NoBlock}) /\ DiskInv /\ ("undo" \notin faults' => RevInv({}))
    BY Zenon, <1>0, <2>1
  <2>3. (\A E : RevInv(E) => RevInv(E)') /\ (DiskInv => DiskInv')
    BY Zenon, <1>5, <2>2, UnlinkUndo
  <2> QED BY Zenon, <2>2, <2>3
<1>6. CASE FlushCoins
  <2>1. /\ Up /\ faults' = faults /\ Synced
        /\ UNCHANGED <<index, vinfoBlockFile, nLastBlockFile, dbIndex, dbInfo, dbLast, rev, revDisk>>
    BY Zenon, <1>6, AfterWrite DEF FlushCoins, fileVars, faultVars, Synced
  <2>2. RevInv({NoBlock}) /\ DiskInv /\ ("undo" \notin faults' => RevInv({}))
    BY Zenon, <1>0, <2>1
  <2>3. (\A E : RevInv(E) => RevInv(E)') /\ DiskInv'
    BY Zenon, <2>1, <2>2, SameUndo
  <2> QED BY Zenon, <2>2, <2>3
<1>7. CASE CrashStep
  <2>1. PICK lost \in {{}, Unsynced}, lostUndo \in {{}, UnsyncedUndo}, c \in {prevCoins, dbCoins} :
                 Crash(lost, lostUndo, c)
    BY Zenon, <1>7 DEF CrashStep
  <2>2. /\ UNCHANGED <<dbIndex, dbInfo, dbLast, revDisk>> /\ pc' = At("down") /\ faults \subseteq faults'
        /\ rev' = [p \in UndoPlaces |-> IF p \in lostUndo THEN revDisk[p] ELSE rev[p]]
        /\ (\E b \in Blocks : dbIndex[b].undo \in lostUndo) => "undo" \in faults'
    BY Zenon, <2>1 DEF Crash
  <2>3. ~Up'
    <3>1. pc'.at = "down"
      BY Zenon, <2>2, ReturnFacts
    <3> QED BY Zenon, <3>1 DEF Up
  <2>4. RevInv({NoBlock}) /\ DiskInv /\ ("undo" \notin faults' => RevInv({}))
    BY Zenon, <1>0, <2>2
  <2>5. \A b \in Blocks : dbIndex[b].undo # NoPos =>
            /\ rev'[dbIndex[b].undo] \in {rev[dbIndex[b].undo], revDisk[dbIndex[b].undo]}
            /\ "undo" \notin faults' => rev'[dbIndex[b].undo] = rev[dbIndex[b].undo]
    <3>1. \A b \in Blocks : dbIndex[b].undo # NoPos => dbIndex[b].undo \in UndoPlaces
      BY Zenon, AllNumbers DEF Numbers
    <3> QED BY Zenon, <2>2, <3>1
  <2>6. DiskInv'
    BY Zenon, <2>2, <2>3, <2>4 DEF DiskInv, UndoSynced, Cut
  <2>7. RevInv({NoBlock})'
    <3>1. UndoIn(dbIndex, {NoBlock}, rev')
      BY Zenon, <2>4, <2>5 DEF RevInv, UndoIn, DiskInv, UndoSynced
    <3> QED BY Zenon, <2>2, <2>3, <3>1 DEF RevInv, UndoIn
  <2>8. "undo" \notin faults' => RevInv({})'
    BY Zenon, <2>2, <2>3, <2>4, <2>5 DEF RevInv, UndoIn
  <2> QED BY Zenon, <2>6, <2>7, <2>8
<1>8. CASE Restart
  <2>1. /\ UNCHANGED <<dbIndex, dbInfo, dbLast, rev, revDisk, faults>>
        /\ index' = dbIndex /\ vinfoBlockFile' = dbInfo /\ nLastBlockFile' = dbLast
    BY Zenon, <1>8 DEF Restart, dbVars, fileVars, faultVars
  <2>2. RevInv({NoBlock}) /\ DiskInv /\ ("undo" \notin faults' => RevInv({}))
    BY Zenon, <1>0, <2>1
  <2>3. \A E : RevInv(E) => RevInv(E)'
    BY Zenon, <2>1 DEF RevInv, UndoIn
  <2>4. DiskInv'
    BY Zenon, <2>1, <2>2 DEF DiskInv, UndoSynced, Cut
  <2> QED BY Zenon, <2>2, <2>3, <2>4
<1>9. CASE UNCHANGED vars
  <2>1. /\ UNCHANGED <<index, vinfoBlockFile, nLastBlockFile, pc, dbIndex, dbInfo, dbLast, rev, revDisk, faults>>
    BY Zenon, <1>9 DEF vars, memVars, dbVars, faultVars, fileVars
  <2>2. Up' = Up /\ Synced' = Synced
    BY Zenon, <2>1 DEF Up, Synced
  <2>3. RevInv({NoBlock}) /\ DiskInv /\ ("undo" \notin faults' => RevInv({}))
    BY Zenon, <1>0, <2>1
  <2>4. \A E : RevInv(E) => RevInv(E)'
    BY Zenon, <2>1, <2>2 DEF RevInv, UndoIn
  <2>5. DiskInv'
    BY Zenon, <2>1, <2>2, <2>3 DEF DiskInv, UndoSynced, Cut
  <2> QED BY Zenon, <2>3, <2>4, <2>5
<1> QED BY Zenon, <1>1, <1>2, <1>3, <1>4, <1>5, <1>6, <1>7, <1>8, <1>9 DEF Next, RunStep

\* There is no undo data at first.
LEMMA InitUndo == Init => UndoInv /\ UndoThere
<1> SUFFICES ASSUME Init PROVE UndoInv /\ UndoThere
  BY Zenon
<1>1. ASSUME NEW E PROVE RevInv(E)
  BY Zenon, InitParts DEF RevInv, UndoIn
<1>2. Cut(index, vinfoBlockFile, 0, revDisk)
  <2>1. ~(0 < 0)
    OBVIOUS
  <2> QED BY Zenon, <2>1, InitParts DEF Cut
<1>3. DiskInv
  BY Zenon, <1>2, InitParts DEF DiskInv, UndoSynced
<1> QED BY Zenon, <1>1, <1>3 DEF UndoInv, UndoThere

-----------------------------------------------------------------------------
(* What the files hold.                                                    *)

\* The parts of the invariant.
FilesInv == Inv /\ Flat /\ Layout /\ DataInv /\ UndoInv /\ UndoThere

\* They hold together in every state, whatever was pruned, lost or written
\* again by AcceptBlock, ConnectTip, FlushStateToDisk and the crashes.
THEOREM FilesInvariance == Spec => []FilesInv
<1>1. Init => FilesInv
  BY Zenon, InitInv, InitTypes, InitLayout, InitData, InitUndo DEF FilesInv
<1>2. FilesInv /\ [Next]_vars => FilesInv'
  BY Zenon, StepInv, StepTypes, StepLayout, StepData, StepUndo DEF FilesInv
<1> QED BY <1>1, <1>2, PTL DEF Spec

\* A block the index database says is on disk is there, synced, at the place
\* it names, after any crashes, restarts and pruning, unless the write of a
\* block or of the block index has failed (FlushStateToDisk).
THEOREM BlocksOnDisk == Spec => []DataOnDisk
<1>1. FilesInv => DataOnDisk
  BY Zenon DEF FilesInv, DataInv, DbData, Data, DataOnDisk
<1> QED BY <1>1, FilesInvariance, PTL

\* Undo data that the index refers to, in memory or in the database, is never
\* overwritten by that of another block (FindUndoPos), unless a write of the
\* block index has failed.
THEOREM UndoKept == Spec => []UndoNotReused
<1>1. FilesInv => UndoNotReused
  BY Zenon DEF FilesInv, UndoInv, RevInv, UndoIn, UndoNotReused, Running, Up
<1> QED BY <1>1, FilesInvariance, PTL

-----------------------------------------------------------------------------
(* The node comes back.                                                    *)

\* The blocks that every set with b and the parents of its members has.
Closed(S) == \A x \in S \ {Genesis} : Parent[x] \in S
Ancestors(b) == {a \in Blocks : \A S \in SUBSET Blocks : b \in S /\ Closed(S) => a \in S}

\* They are what the recursion of Chain asks for.
LEMMA AncestorFacts ==
    /\ Ancestors(Genesis) = {Genesis}
    /\ \A b \in Blocks \ {Genesis} : Ancestors(b) = Ancestors(Parent[b]) \cup {b}
<1>1. Ancestors(Genesis) = {Genesis}
  <2>1. {Genesis} \in SUBSET Blocks /\ Closed({Genesis})
    BY Zenon, BlockStoreAssumption DEF Closed
  <2> QED BY Zenon, <2>1, BlockStoreAssumption DEF Ancestors
<1>2. ASSUME NEW b \in Blocks \ {Genesis} PROVE Ancestors(b) = Ancestors(Parent[b]) \cup {b}
  <2> DEFINE p == Parent[b]
             A == Ancestors(p)
  <2>1. b \in Blocks /\ b # Genesis /\ p \in Blocks
    BY Zenon, BlockStoreAssumption
  <2>2. p \in A /\ A \subseteq Blocks
    BY Zenon, <2>1 DEF Ancestors
  <2>3. \A x \in A \ {Genesis} : Parent[x] \in A
    <3> SUFFICES ASSUME NEW x \in A, x # Genesis PROVE Parent[x] \in A
      BY Zenon
    <3>1. x \in Blocks /\ Parent[x] \in Blocks
      BY Zenon, <2>2, BlockStoreAssumption
    <3>2. \A S \in SUBSET Blocks : p \in S /\ Closed(S) => Parent[x] \in S
      BY Zenon DEF Ancestors, Closed
    <3> QED BY Zenon, <3>1, <3>2 DEF Ancestors
  <2>4. A \subseteq Ancestors(b)
    <3>1. \A S \in SUBSET Blocks : b \in S /\ Closed(S) => p \in S
      BY Zenon, <2>1 DEF Closed
    <3> QED BY Zenon, <3>1 DEF Ancestors
  <2>5. b \in Ancestors(b)
    BY Zenon, <2>1 DEF Ancestors
  <2> HIDE DEF A
  <2>6. A \cup {b} \in SUBSET Blocks /\ Closed(A \cup {b})
    BY Zenon, <2>1, <2>2, <2>3 DEF Closed
  <2>7. Ancestors(b) \subseteq A \cup {b}
    BY Zenon, <2>6 DEF Ancestors
  <2>8. Ancestors(b) = A \cup {b}
    BY Zenon, <2>4, <2>5, <2>7
  <2> QED BY Zenon, <2>8 DEF A
<1> QED BY Zenon, <1>1, <1>2

\* So the function Chain exists and obeys its recursion.
LEMMA ChainFacts ==
    /\ Chain[Genesis] = {Genesis}
    /\ \A b \in Blocks \ {Genesis} : Chain[b] = Chain[Parent[b]] \cup {b}
<1> DEFINE Rec(g) == g = [b \in Blocks |-> IF b = Genesis THEN {Genesis} ELSE g[Parent[b]] \cup {b}]
           h == [b \in Blocks |-> Ancestors(b)]
<1>1. Rec(h)
  <2>1. \A b \in Blocks : h[b] = IF b = Genesis THEN {Genesis} ELSE h[Parent[b]] \cup {b}
    <3> SUFFICES ASSUME NEW b \in Blocks PROVE h[b] = IF b = Genesis THEN {Genesis} ELSE h[Parent[b]] \cup {b}
      BY Zenon
    <3>1. CASE b = Genesis
      BY Zenon, <3>1, AncestorFacts
    <3>2. CASE b # Genesis
      <4>1. Parent[b] \in Blocks
        BY Zenon, <3>2, BlockStoreAssumption
      <4>2. h[b] = Ancestors(b) /\ h[Parent[b]] = Ancestors(Parent[b])
        BY Zenon, <4>1
      <4> QED BY Zenon, <3>2, <4>2, AncestorFacts
    <3> QED BY Zenon, <3>1, <3>2
  <2>2. h = [b \in Blocks |-> h[b]]
    BY Zenon
  <2> HIDE DEF h
  <2> QED BY Zenon, <2>1, <2>2
<1>2. Chain = CHOOSE g : Rec(g)
  BY Zenon DEF Chain
<1>3. Rec(Chain)
  <2> HIDE DEF Rec, h
  <2> QED BY Zenon, <1>1, <1>2
<1>4. \A b \in Blocks : Chain[b] = IF b = Genesis THEN {Genesis} ELSE Chain[Parent[b]] \cup {b}
  BY Zenon, <1>3
<1> QED BY Zenon, <1>4, BlockStoreAssumption

\* A chain consists of blocks, by induction on the height of its last one.
LEMMA ChainBlocks == \A b \in Blocks : Chain[b] \subseteq Blocks
<1> DEFINE H == {Height[b] : b \in {x \in Blocks : ~(Chain[x] \subseteq Blocks)}}
<1>1. SUFFICES ASSUME H # {} PROVE FALSE
  BY Zenon
<1>2. H \subseteq Nat
  <2>1. \A b \in Blocks : Height[b] \in Nat
    BY Zenon, BlockStoreAssumption
  <2> QED BY Zenon, <2>1
<1>3. PICK h \in H : \A m \in H : h <= m
  <2> HIDE DEF H
  <2> QED BY <1>1, <1>2, LeastNat, Zenon
<1>4. PICK b \in Blocks : ~(Chain[b] \subseteq Blocks) /\ Height[b] = h
  BY Zenon, <1>3
<1>5. b # Genesis
  BY Zenon, <1>4, ChainFacts, BlockStoreAssumption
<1>6. Parent[b] \in Blocks /\ ~(Chain[Parent[b]] \subseteq Blocks)
  <2>1. Chain[b] = Chain[Parent[b]] \cup {b}
    BY Zenon, <1>5, ChainFacts
  <2>2. ~(Chain[Parent[b]] \subseteq Blocks)
    BY Zenon, <1>4, <2>1
  <2> QED BY Zenon, <1>5, <2>2, BlockStoreAssumption
<1>7. Height[b] <= Height[Parent[b]]
  <2>1. Height[Parent[b]] \in H
    BY Zenon, <1>6
  <2> QED BY Zenon, <1>3, <1>4, <2>1
<1>8. Height[b] = Height[Parent[b]] + 1 /\ Height[Parent[b]] \in Nat
  BY Zenon, <1>5, <1>6, BlockStoreAssumption
<1> QED BY SMT, <1>7, <1>8

\* A chain reaches from the genesis block to its last block, height by height.
LEMMA ChainHeights ==
    \A t \in Blocks : /\ t \in Chain[t] /\ Genesis \in Chain[t]
                      /\ \A a \in Chain[t] : Height[a] <= Height[t]
                      /\ \A k \in Nat : k <= Height[t] => \E a \in Chain[t] : Height[a] = k
<1> DEFINE Good(t) == /\ t \in Chain[t] /\ Genesis \in Chain[t]
                      /\ \A a \in Chain[t] : Height[a] <= Height[t]
                      /\ \A k \in Nat : k <= Height[t] => \E a \in Chain[t] : Height[a] = k
           H == {Height[b] : b \in {x \in Blocks : ~Good(x)}}
<1>0. \A b \in Blocks : Height[b] \in Nat
  BY Zenon, BlockStoreAssumption
<1>1. SUFFICES ASSUME H # {} PROVE FALSE
  BY Zenon
<1>2. H \subseteq Nat
  BY Zenon, <1>0
<1>3. PICK h \in H : \A m \in H : h <= m
  <2> HIDE DEF H
  <2> QED BY <1>1, <1>2, LeastNat, Zenon
<1>4. PICK b \in Blocks : ~Good(b) /\ Height[b] = h
  BY Zenon, <1>3
<1>5. b # Genesis
  <2>1. Good(Genesis)
    <3>1. 0 <= 0 /\ \A k \in Nat : k <= 0 => k = 0
      OBVIOUS
    <3> QED BY Zenon, <3>1, ChainFacts, BlockStoreAssumption
  <2> HIDE DEF Good
  <2> QED BY Zenon, <1>4, <2>1
<1> DEFINE p == Parent[b]
<1>6. /\ p \in Blocks /\ Height[b] = Height[p] + 1 /\ Height[p] \in Nat
      /\ Chain[b] = Chain[p] \cup {b} /\ Chain[p] \subseteq Blocks
  BY Zenon, <1>5, BlockStoreAssumption, ChainFacts, ChainBlocks
<1>7. Good(p)
  <2>1. ~(Height[b] <= Height[p])
    BY SMT, <1>6
  <2>2. ~Good(p) => Height[p] \in H
    <3> HIDE DEF Good
    <3> QED BY Zenon, <1>6
  <2> HIDE DEF Good
  <2> QED BY Zenon, <1>3, <1>4, <2>1, <2>2
<1> HIDE DEF p
<1>8. ASSUME NEW a \in Chain[b] PROVE Height[a] <= Height[b]
  <2>1. CASE a = b
    BY SMT, <1>6, <2>1
  <2>2. CASE a # b
    <3>1. Height[a] <= Height[p] /\ Height[a] \in Nat
      BY Zenon, <1>0, <1>6, <1>7, <1>8, <2>2
    <3> QED BY SMT, <1>6, <3>1
  <2> QED BY Zenon, <2>1, <2>2
<1>9. ASSUME NEW k \in Nat, k <= Height[b] PROVE \E a \in Chain[b] : Height[a] = k
  <2>1. k = Height[b] \/ k <= Height[p]
    BY SMT, <1>6, <1>9
  <2> QED BY Zenon, <1>6, <1>7, <2>1
<1>10. Good(b)
  BY Zenon, <1>6, <1>7, <1>8, <1>9
<1> HIDE DEF Good
<1> QED BY Zenon, <1>4, <1>10

\* The last d blocks of a chain are all that a chain of the same height or
\* more can lack of it.
ShallowForks(d) ==
    \A b, c \in Blocks : Height[b] <= Height[c] =>
        \A a \in Chain[b] : Height[a] + d <= Height[b] => a \in Chain[c]

\* At the tip top, no file with block b is pruned.
Recent(b, top) == Height[top] < Height[b] + MIN_BLOCKS_TO_KEEP

\* All that idx lacks of the chain of t may have been pruned at the tip top or
\* below: top is the highest tip at which files were pruned, and its chain
\* leaves that of t with its last d blocks at most.
PrunedAt(top, d, t, idx) ==
    /\ ~fPruneMode => top = Genesis
    /\ \A a \in Chain[top] : Height[a] + d <= Height[top] => a \in Chain[t]
    /\ \A b \in Chain[t] \ {Genesis} : Recent(b, top) => idx[b].data # NoPos /\ idx[b].undo # NoPos
    /\ \A b \in Chain[top] \ {Genesis} : Recent(b, top) => idx[b].data # NoPos
Safe(d, t, idx) == \E top \in Blocks : PrunedAt(top, d, t, idx)

\* An index with more in it.
NoLess(idx, new) ==
    \A b \in Blocks : /\ idx[b].data # NoPos => new[b].data # NoPos
                      /\ idx[b].data # NoPos /\ idx[b].undo # NoPos => new[b].undo # NoPos

\* It is no less safe.
LEMMA MoreSafe ==
    ASSUME NEW d, NEW t \in Blocks, NEW idx, NEW new, Safe(d, t, idx), NoLess(idx, new)
    PROVE  Safe(d, t, new)
<1>1. PICK top \in Blocks : PrunedAt(top, d, t, idx)
  BY Zenon DEF Safe
<1>2. PrunedAt(top, d, t, new)
  BY Zenon, <1>1, ChainBlocks DEF PrunedAt, NoLess
<1> QED BY Zenon, <1>2 DEF Safe

\* The genesis block has nothing to miss.
LEMMA GenesisSafe == \A d, idx : Safe(d, Genesis, idx)
<1>1. \A d, idx : PrunedAt(Genesis, d, Genesis, idx)
  BY Zenon, ChainFacts DEF PrunedAt
<1> QED BY Zenon, <1>1, BlockStoreAssumption DEF Safe

\* The forks are so shallow, and so few blocks are checked, that pruning does
\* not reach them.
Roomy(d) == fPruneMode => ShallowForks(d) /\ CheckBlocks + d < MIN_BLOCKS_TO_KEEP

\* The blocks VerifyDB asks for are there.
LEMMA LastBlocks ==
    ASSUME NEW d \in Nat, Roomy(d), NEW t \in Blocks, NEW idx, Safe(d, t, idx),
           NEW b \in Chain[t] \ {Genesis}, Height[b] >= Height[t] - CheckBlocks
    PROVE  idx[b].data # NoPos /\ idx[b].undo # NoPos
<1>1. PICK top \in Blocks : PrunedAt(top, d, t, idx)
  BY Zenon DEF Safe
<1>2. /\ b \in Blocks /\ Height[b] \in Nat /\ Height[t] \in Nat /\ Height[top] \in Nat
      /\ CheckBlocks \in Nat /\ MIN_BLOCKS_TO_KEEP \in Nat
  BY Zenon, ChainBlocks, BlockStoreAssumption
<1>3. CASE ~fPruneMode
  <2>1. Height[top] = 0 /\ Height[b] = Height[Parent[b]] + 1 /\ Height[Parent[b]] \in Nat
    BY Zenon, <1>1, <1>2, <1>3, BlockStoreAssumption DEF PrunedAt
  <2>2. Recent(b, top)
    BY SMT, <1>2, <2>1 DEF Recent
  <2> QED BY Zenon, <1>1, <2>2 DEF PrunedAt
<1>4. CASE fPruneMode
  <2>1. CheckBlocks + d < MIN_BLOCKS_TO_KEEP
    BY Zenon, <1>4 DEF Roomy
  <2>2. Height[top] <= Height[t] + d
    <3>1. CASE d <= Height[top]
      <4>1. Height[top] - d \in Nat /\ Height[top] - d <= Height[top] /\ (Height[top] - d) + d <= Height[top]
        BY SMT, <1>2, <3>1
      <4>2. PICK a \in Chain[top] : Height[a] = Height[top] - d
        BY Zenon, <4>1, ChainHeights
      <4>3. Height[a] <= Height[t]
        BY Zenon, <1>1, <4>1, <4>2, ChainHeights DEF PrunedAt
      <4> QED BY SMT, <1>2, <4>2, <4>3
    <3>2. CASE ~(d <= Height[top])
      BY SMT, <1>2, <3>2
    <3> QED BY Zenon, <3>1, <3>2
  <2>3. Recent(b, top)
    BY SMT, <1>2, <2>1, <2>2 DEF Recent
  <2> QED BY Zenon, <1>1, <2>3 DEF PrunedAt
<1> QED BY Zenon, <1>3, <1>4

\* Pruning at the current tip leaves the recent blocks.
Sparing(idx, new) ==
    /\ \A b \in Blocks : idx[b].data # NoPos /\ Recent(b, tip) => new[b] = idx[b]
    /\ ~fPruneMode => \A b \in Blocks : new[b] = idx[b]

\* So the chain of the tip stays safe.
LEMMA PruneSafe ==
    ASSUME NEW d \in Nat, tip \in Blocks, NEW idx, NEW new, Safe(d, tip, idx), Sparing(idx, new)
    PROVE  Safe(d, tip, new)
<1>1. PICK top \in Blocks : PrunedAt(top, d, tip, idx)
  BY Zenon DEF Safe
<1>2. Height[top] \in Nat /\ Height[tip] \in Nat
  BY Zenon, BlockStoreAssumption
<1>3. \A b, x, y \in Blocks : Recent(b, y) /\ Height[x] <= Height[y] => Recent(b, x)
  <2> SUFFICES ASSUME NEW b \in Blocks, NEW x \in Blocks, NEW y \in Blocks, Recent(b, y), Height[x] <= Height[y]
               PROVE  Recent(b, x)
    BY Zenon
  <2>1. Height[b] \in Nat /\ Height[x] \in Nat /\ Height[y] \in Nat /\ MIN_BLOCKS_TO_KEEP \in Nat
    BY Zenon, BlockStoreAssumption
  <2> QED BY SMT, <2>1 DEF Recent
<1>4. CASE ~fPruneMode
  <2>1. NoLess(idx, new)
    BY Zenon, <1>4 DEF Sparing, NoLess
  <2> QED BY Zenon, <2>1, MoreSafe
<1>5. CASE fPruneMode /\ Height[tip] <= Height[top]
  <2>1. ASSUME NEW b \in Blocks, Recent(b, top), idx[b].data # NoPos PROVE new[b] = idx[b]
    BY Zenon, <1>3, <1>5, <2>1 DEF Sparing
  <2>2. PrunedAt(top, d, tip, new)
    BY Zenon, <1>1, <2>1, ChainBlocks DEF PrunedAt
  <2> QED BY Zenon, <2>2 DEF Safe
<1>6. CASE fPruneMode /\ Height[top] <= Height[tip]
  <2>1. ASSUME NEW b \in Chain[tip] \ {Genesis}, Recent(b, tip)
        PROVE  new[b].data # NoPos /\ new[b].undo # NoPos
    <3>1. b \in Blocks /\ Recent(b, top)
      BY Zenon, <1>3, <1>6, <2>1, ChainBlocks
    <3>2. idx[b].data # NoPos /\ idx[b].undo # NoPos
      BY Zenon, <1>1, <3>1 DEF PrunedAt
    <3> QED BY Zenon, <2>1, <3>1, <3>2 DEF Sparing
  <2>2. PrunedAt(tip, d, tip, new)
    BY Zenon, <1>6, <2>1 DEF PrunedAt
  <2> QED BY Zenon, <2>2 DEF Safe
<1>7. Height[tip] <= Height[top] \/ Height[top] <= Height[tip]
  BY SMT, <1>2
<1> QED BY Zenon, <1>4, <1>5, <1>6, <1>7

\* A block that is connected, with undo data, extends a safe chain.
LEMMA ConnectSafe ==
    ASSUME NEW d, NEW b \in Blocks \ {Genesis}, NEW idx, Safe(d, Parent[b], idx),
           idx[b].data # NoPos, idx[b].undo # NoPos
    PROVE  Safe(d, b, idx)
<1>1. PICK top \in Blocks : PrunedAt(top, d, Parent[b], idx)
  BY Zenon DEF Safe
<1>2. Chain[b] = Chain[Parent[b]] \cup {b}
  BY Zenon, ChainFacts
<1>3. PrunedAt(top, d, b, idx)
  BY Zenon, <1>1, <1>2 DEF PrunedAt
<1> QED BY Zenon, <1>3 DEF Safe

\* The tip is disconnected for a chain that is no shorter than the one at
\* which files were pruned: that one could be activated itself.  So the fork
\* is not deeper than d below it.
LEMMA DisconnectSafe ==
    ASSUME NEW d \in Nat, Roomy(d), tip \in Blocks \ {Genesis}, NoneFailed,
           Targets # {}, \A c \in Targets : tip \notin Chain[c],
           NEW new, Safe(d, tip, new), \A b \in Blocks : new[b].data # NoPos => index[b].data # NoPos
    PROVE  Safe(d, Parent[tip], new)
<1>1. PICK top \in Blocks : PrunedAt(top, d, tip, new)
  BY Zenon DEF Safe
<1>2. Chain[tip] = Chain[Parent[tip]] \cup {tip}
  BY Zenon, ChainFacts
<1>3. ASSUME NEW a \in Chain[top], Height[a] + d <= Height[top] PROVE a # tip
  <2>1. CASE ~fPruneMode
    BY Zenon, <1>1, <2>1, ChainFacts DEF PrunedAt
  <2>2. CASE fPruneMode
    <3> DEFINE usable == {c \in Blocks : \A b \in Chain[c] \ Chain[tip] : index[b].data # NoPos /\ ~index[b].failed}
               better == {c \in usable : Height[c] > Height[tip]}
    <3>1. PICK c \in Targets : TRUE
      BY Zenon
    <3>2. c \in Blocks /\ Height[c] > Height[tip] /\ \A e \in better : Height[e] <= Height[c]
      BY Zenon, <3>1 DEF Targets
    <3>3. Height[c] \in Nat /\ Height[tip] \in Nat /\ Height[top] \in Nat /\ MIN_BLOCKS_TO_KEEP \in Nat /\ CheckBlocks \in Nat
      BY Zenon, <3>2, BlockStoreAssumption
    <3>4. CheckBlocks + d < MIN_BLOCKS_TO_KEEP /\ ShallowForks(d)
      BY Zenon, <2>2 DEF Roomy
    <3>5. top \in usable
      <4> SUFFICES ASSUME NEW b \in Chain[top] \ Chain[tip] PROVE index[b].data # NoPos /\ ~index[b].failed
        BY Zenon
      <4>1. b \in Blocks /\ b # Genesis /\ Height[b] \in Nat
        BY Zenon, ChainBlocks, ChainHeights, BlockStoreAssumption
      <4>2. ~(Height[b] + d <= Height[top])
        BY Zenon, <1>1 DEF PrunedAt
      <4>3. Recent(b, top)
        BY SMT, <3>3, <3>4, <4>1, <4>2 DEF Recent
      <4> QED BY Zenon, <1>1, <4>1, <4>3 DEF PrunedAt, NoneFailed
    <3> HIDE DEF usable
    <3>6. Height[top] <= Height[c]
      <4>1. CASE Height[top] > Height[tip]
        BY Zenon, <3>2, <3>5, <4>1
      <4>2. CASE ~(Height[top] > Height[tip])
        BY SMT, <3>2, <3>3, <4>2
      <4> QED BY Zenon, <4>1, <4>2
    <3>7. a \in Chain[c]
      BY Zenon, <1>3, <3>2, <3>4, <3>6 DEF ShallowForks
    <3> QED BY Zenon, <3>1, <3>7
  <2> QED BY Zenon, <2>1, <2>2
<1>4. PrunedAt(top, d, Parent[tip], new)
  BY Zenon, <1>1, <1>2, <1>3 DEF PrunedAt
<1> QED BY Zenon, <1>4 DEF Safe

\* No block is higher than what its file says.
Low(idx, info) == \A b \in Blocks : idx[b].data # NoPos => Height[b] <= info[idx[b].data[1]].nHeightLast

\* What FlushStateToDisk leaves of the index idx.
Flushed(idx) ==
    /\ Sparing(idx, index')
    /\ \A b \in Blocks : /\ index'[b].data # NoPos => index'[b] = idx[b]
                         /\ pc'.prune = {} => index'[b] = idx[b]
    /\ Low(index', vinfoBlockFile')
    /\ pc'.at \in {"run", "sync"} /\ (pc'.prune # {} => pc'.at = "sync") /\ (pc'.next = "exit" => pc'.full)

\* It leaves the recent blocks, as no file it prunes has any.
LEMMA FlushSpares ==
    ASSUME Flat, NEW mode, NEW next, NEW idx, NEW info, NEW last, NEW db, NEW df, NEW check,
           Typed(next, idx, info, last, db, df, check), next = "exit" => mode = "ALWAYS",
           FlushStateToDisk(mode, next, idx, info, last, db, df, check), Low(idx, info)
    PROVE  Flushed(idx)
<1> DEFINE P == IF fPruneMode /\ check THEN FindFilesToPrune(info, last) ELSE {}
<1>1. /\ last \in Nat /\ idx \in [Blocks -> Entries] /\ info \in [Files -> Infos]
      /\ tip \in Blocks /\ Height[tip] \in Nat /\ MIN_BLOCKS_TO_KEEP \in Nat
  BY Zenon, PlaceParts, BlockStoreAssumption DEF Typed, Flat
<1>2. (~fPruneMode => P = {}) /\ \A f \in P : ~(info[f].nHeightLast > nLastBlockWeCanPrune)
  BY Zenon, <1>1, PrunedBefore
<1>3. /\ index' = PruneIndex(idx, P) /\ vinfoBlockFile' = PruneInfo(info, P)
      /\ \E extent \in Extents(mode, P) :
             IF extent = "nothing" THEN Returned(next)
             ELSE /\ pc' = [at |-> "sync", full |-> extent = "full", prune |-> P, next |-> next]
                  /\ UNCHANGED tip
  BY Zenon DEF FlushStateToDisk
<1> HIDE DEF P
<1>4. /\ \A b \in Blocks :
             IF idx[b].data # NoPos /\ idx[b].data[1] \in P
             THEN index'[b].data = NoPos /\ index'[b].undo = NoPos
             ELSE index'[b] = idx[b]
      /\ \A f \in Files : vinfoBlockFile'[f] = IF f \in P THEN NullInfo ELSE info[f]
  <2>1. Without(P, idx, info, PruneIndex(idx, P), PruneInfo(info, P))
    BY Zenon, <1>1, PruneTypes
  <2> QED BY Zenon, <1>3, <2>1 DEF Without
<1>5. \A b \in Blocks : idx[b].data # NoPos =>
          idx[b].data[1] \in Files /\ info[idx[b].data[1]].nHeightLast \in Nat
  BY Zenon, <1>1, RecordParts, PlaceParts
<1>6. ASSUME NEW b \in Blocks, idx[b].data # NoPos, Recent(b, tip) PROVE idx[b].data[1] \notin P
  <2> DEFINE l == info[idx[b].data[1]].nHeightLast
  <2>1. l \in Nat /\ Height[b] <= l /\ Height[b] \in Nat
    BY Zenon, <1>5, <1>6, BlockStoreAssumption DEF Low
  <2> HIDE DEF l
  <2>2. l > nLastBlockWeCanPrune
    BY SMT, <1>1, <1>6, <2>1 DEF nLastBlockWeCanPrune, Recent
  <2> QED BY Zenon, <1>2, <2>2 DEF l
<1>7. Sparing(idx, index')
  BY Zenon, <1>2, <1>4, <1>6 DEF Sparing
<1>8. /\ \A b \in Blocks : /\ index'[b].data # NoPos => index'[b] = idx[b]
                           /\ P = {} => index'[b] = idx[b]
      /\ Low(index', vinfoBlockFile')
  BY Zenon, <1>4, <1>5 DEF Low
<1>9. /\ pc'.prune = P /\ pc'.at \in {"run", "sync"}
      /\ (pc'.prune # {} => pc'.at = "sync") /\ (pc'.next = "exit" => pc'.full)
  <2>1. PICK extent \in Extents(mode, P) :
             IF extent = "nothing" THEN Returned(next)
             ELSE pc' = [at |-> "sync", full |-> extent = "full", prune |-> P, next |-> next]
    BY Zenon, <1>3
  <2>2. /\ extent = "nothing" => P = {} /\ mode # "ALWAYS"
        /\ mode = "ALWAYS" => extent = "full"
    BY Zenon DEF Extents
  <2>3. CASE extent = "nothing"
    <3>1. next # "exit" /\ P = {}
      BY Zenon, <2>2, <2>3
    <3>2. pc' = [at |-> "run", full |-> FALSE, prune |-> {}, next |-> NoBlock]
      BY Zenon, <2>1, <2>3, <3>1 DEF Returned, At
    <3> QED BY Zenon, <3>1, <3>2, BlockStoreAssumption
  <2>4. CASE extent # "nothing"
    <3>1. pc' = [at |-> "sync", full |-> extent = "full", prune |-> P, next |-> next]
      BY Zenon, <2>1, <2>4
    <3> QED BY Zenon, <2>2, <3>1
  <2> QED BY Zenon, <2>3, <2>4
<1> QED BY Zenon, <1>7, <1>8, <1>9 DEF Flushed

\* Memory has what the database has.
Kept == \A b \in Blocks : /\ dbIndex[b].data # NoPos => index[b].data # NoPos
                          /\ dbIndex[b].undo # NoPos => index[b].undo # NoPos

\* Files were pruned, and the index is not written yet.
Pruning == pc.prune # {} /\ pc.at \in {"sync", "index"}

\* The chain of the coins is safe, in memory and in the databases, but for
\* coins that are older than some pruning: none of these is read at the start.
SafeInMemory(d) == Safe(d, coins, index) /\ Low(index, vinfoBlockFile) /\ (Pruning \/ Kept)
SafeOnDisk(d) ==
    /\ \A t \in {dbCoins, prevCoins} \ outdated : Safe(d, t, dbIndex)
    /\ Low(dbIndex, dbInfo)
    /\ pc.at = "down" => dbCoins \notin outdated
Leaving == pc.next = "exit" => pc.full
SafeChains(d) == faults \cap {"index", "behind"} = {} => SafeOnDisk(d) /\ Leaving /\ (Up => SafeInMemory(d))

\* A file that grows does not get lower.
LEMMA LowGrows ==
    ASSUME Flat, Low(index, vinfoBlockFile), NEW info, NEW f \in Files, NEW s, NEW u,
           HasInfo(info, vinfoBlockFile, f, s, u)
    PROVE  Low(index, info)
<1> SUFFICES ASSUME NEW b \in Blocks, index[b].data # NoPos
             PROVE  Height[b] <= info[index[b].data[1]].nHeightLast
  BY Zenon DEF Low
<1> DEFINE e == index[b].data[1]
<1>1. index[b].data \in Places
  BY Zenon, RecordParts DEF Flat
<1>2. e \in Files
  BY Zenon, <1>1, PlaceParts
<1> HIDE DEF e
<1>3. vinfoBlockFile[e].nHeightLast \in Nat /\ info[e].nHeightLast \in Nat /\ Height[b] \in Nat
  BY Zenon, <1>2, RecordParts, BlockStoreAssumption DEF Flat, HasInfo
<1>4. Height[b] <= vinfoBlockFile[e].nHeightLast
  BY Zenon DEF Low, e
<1>5. vinfoBlockFile[e].nHeightLast <= info[e].nHeightLast
  <2>1. CASE e = f
    BY Zenon, <2>1 DEF HasInfo
  <2>2. CASE e # f
    <3>1. info[e] = vinfoBlockFile[e]
      BY Zenon, <1>2, <2>2 DEF HasInfo
    <3> QED BY SMT, <1>3, <3>1
  <2> QED BY Zenon, <2>1, <2>2
<1>6. Height[b] <= info[e].nHeightLast
  BY SMT, <1>3, <1>4, <1>5
<1> QED BY Zenon, <1>6 DEF e

\* No step of the running node makes the chain of the coins unsafe.
LEMMA RunSafe ==
    ASSUME NEW d \in Nat, Roomy(d), Inv, Flat, LayoutOnDisk, RunStep, SafeInMemory(d), Leaving, "index" \notin faults
    PROVE  pc'.at \in {"run", "sync"} /\ Leaving' /\ SafeInMemory(d)'
<1> DEFINE Goal == pc'.at \in {"run", "sync"} /\ Leaving' /\ SafeInMemory(d)'
<1>0. /\ UNCHANGED dbIndex /\ pc.at = "run" /\ coins \in Blocks /\ coins = tip /\ tip \in Blocks
      /\ NoneFailed /\ Kept /\ Low(index, vinfoBlockFile) /\ Safe(d, tip, index)
  <2>1. UNCHANGED dbIndex /\ pc.at = "run" /\ Up /\ tip \in Blocks
    BY Zenon, RunFrame DEF dbVars, Flat
  <2>2. pc.next = NoBlock /\ NoneFailed /\ coins = tip
    BY Zenon, <2>1, BlockStoreAssumption DEF Inv, Types, Coins, Running
  <2>3. Kept
    <3>1. ~(pc.at \in {"sync", "index"})
      BY Zenon, <2>1
    <3> QED BY Zenon, <3>1 DEF SafeInMemory, Pruning
  <2> QED BY Zenon, <2>1, <2>2, <2>3 DEF SafeInMemory
<1>1. ASSUME NEW idx, Flushed(idx), Safe(d, coins', index'),
             \A b \in Blocks : /\ dbIndex[b].data # NoPos => idx[b].data # NoPos
                               /\ dbIndex[b].undo # NoPos => idx[b].undo # NoPos
      PROVE  Goal
  <2>1. Pruning' \/ Kept'
    <3>1. CASE pc'.prune = {}
      BY Zenon, <1>0, <1>1, <3>1 DEF Flushed, Kept
    <3>2. CASE pc'.prune # {}
      BY Zenon, <1>1, <3>2 DEF Flushed, Pruning
    <3> QED BY Zenon, <3>1, <3>2
  <2> QED BY Zenon, <1>1, <2>1 DEF Flushed, Leaving, SafeInMemory
<1>2. ASSUME NEW b \in Blocks, NEW written \in BOOLEAN, AcceptBlock(b, written)
      PROVE  Goal
  <2>1. PICK f, idx, info : Accepted(b, written, f, idx, info)
    BY Zenon, <1>2, AcceptParts
  <2> DEFINE pos == <<f, vinfoBlockFile[f].nSize>>
  <2>2. /\ HasEntry(idx, index, b, TRUE, pos, NoPos, index[b].failed) /\ pos \in Places /\ f \in Files
        /\ HasInfo(info, vinfoBlockFile, f, vinfoBlockFile[f].nSize + 1, vinfoBlockFile[f].nUndoSize)
        /\ Height[b] <= info[f].nHeightLast
        /\ FlushStateToDisk("NONE", NoBlock, idx, info, f, setDirtyBlockIndex \cup {b},
               setDirtyFileInfo \cup {f}, fPruneMode)
    BY Zenon, <2>1 DEF Accepted
  <2>3. index[b].data = NoPos /\ coins' = coins
    BY Zenon, <1>2 DEF AcceptBlock
  <2>4. Typed(NoBlock, idx, info, f, setDirtyBlockIndex \cup {b}, setDirtyFileInfo \cup {f}, fPruneMode)
    BY Zenon, <2>1, BlockStoreAssumption DEF Accepted, HasInfo, Typed, Flat, Nexts
  <2>5. pos # NoPos /\ pos[1] = f
    <3>1. pos = <<pos[1], pos[2]>> /\ pos # NoPos
      BY Zenon, <2>2, PlaceParts
    <3>2. <<f, vinfoBlockFile[f].nSize>>[1] = f
      BY SMT
    <3> QED BY Zenon, <3>1, <3>2
  <2> HIDE DEF pos
  <2>6. /\ idx[b].data = pos
        /\ \A c \in Blocks : c # b => idx[c] = index[c]
    BY Zenon, <2>2 DEF HasEntry
  <2>7. Low(idx, info)
    <3>1. Low(index, info)
      BY Zenon, <1>0, <2>2, LowGrows
    <3> QED BY Zenon, <2>2, <2>5, <2>6, <3>1 DEF Low
  <2>8. Flushed(idx)
    BY Zenon, <2>2, <2>4, <2>7, FlushSpares, BlockStoreAssumption
  <2>9. Safe(d, tip, idx)
    <3>1. NoLess(index, idx)
      BY Zenon, <2>3, <2>5, <2>6 DEF NoLess
    <3> QED BY Zenon, <1>0, <3>1, MoreSafe
  <2>10. Safe(d, coins', index')
    BY Zenon, <1>0, <2>3, <2>8, <2>9, PruneSafe DEF Flushed
  <2>11. dbIndex[b].data = NoPos /\ dbIndex[b].undo = NoPos
    BY Zenon, <1>0, <2>3 DEF Kept, LayoutOnDisk, UndoInRange
  <2> QED BY Zenon, <1>0, <1>1, <2>6, <2>8, <2>10, <2>11 DEF Kept
<1>3. ASSUME NEW b \in Blocks, ConnectTip(b) PROVE Goal
  <2>1. PICK idx, info, db, df, check : Connects(b, idx, info, db, df, check)
    BY Zenon, <1>3, ConnectParts
  <2>2. /\ Typed(b, idx, info, nLastBlockFile, db, df, check)
        /\ FlushStateToDisk("IF_NEEDED", b, idx, info, nLastBlockFile, db, df, check)
    BY Zenon, <2>1 DEF Connects, Nexts, Flat, Typed
  <2>3. index[b].data # NoPos /\ b # Genesis /\ tip = Parent[b] /\ coins' = b
    BY Zenon, <1>3 DEF ConnectTip, OnTheWay, Readable
  <2>4. /\ idx[b].data # NoPos /\ idx[b].undo # NoPos
        /\ \A c \in Blocks : c # b => idx[c] = index[c]
        /\ \A c \in Blocks : idx[c].data = index[c].data
        /\ Low(index, info)
    <3>1. CASE index[b].undo # NoPos
      BY Zenon, <1>0, <2>1, <2>3, <3>1 DEF Connects
    <3>2. CASE index[b].undo = NoPos
      <4> DEFINE f == index[b].data[1]
                 pos == <<f, vinfoBlockFile[f].nUndoSize>>
      <4>1. /\ pos \in UndoPlaces /\ HasEntry(idx, index, b, index[b].known, index[b].data, pos, index[b].failed)
            /\ f \in Files
            /\ HasInfo(info, vinfoBlockFile, f, vinfoBlockFile[f].nSize, vinfoBlockFile[f].nUndoSize + 1)
        BY Zenon, <2>1, <3>2 DEF Connects
      <4>2. pos # NoPos
        BY Zenon, <4>1, PlaceParts
      <4> HIDE DEF f, pos
      <4>3. Low(index, info)
        BY Zenon, <1>0, <4>1, LowGrows
      <4> QED BY Zenon, <2>3, <4>1, <4>2, <4>3 DEF HasEntry
    <3> QED BY Zenon, <3>1, <3>2
  <2>5. Low(idx, info)
    BY Zenon, <2>4 DEF Low
  <2>6. Flushed(idx)
    BY Zenon, <2>2, <2>5, FlushSpares, BlockStoreAssumption
  <2>7. Safe(d, tip, index')
    <3>1. NoLess(index, idx)
      BY Zenon, <2>4 DEF NoLess
    <3>2. Safe(d, tip, idx)
      BY Zenon, <1>0, <3>1, MoreSafe
    <3> QED BY Zenon, <1>0, <2>6, <3>2, PruneSafe DEF Flushed
  <2>8. index'[b] = idx[b]
    <3>1. Height[b] = Height[tip] + 1 /\ Height[tip] \in Nat /\ MIN_BLOCKS_TO_KEEP \in Nat
      BY Zenon, <1>0, <2>3, BlockStoreAssumption
    <3>2. Recent(b, tip)
      BY SMT, <3>1 DEF Recent
    <3> QED BY Zenon, <2>4, <2>6, <3>2 DEF Flushed, Sparing
  <2>9. Safe(d, coins', index')
    BY Zenon, <2>3, <2>4, <2>7, <2>8, ConnectSafe
  <2> QED BY Zenon, <1>0, <1>1, <2>4, <2>6, <2>9 DEF Kept
<1>4. ASSUME NEW b \in Blocks, ConnectWithoutUndo(b) PROVE Goal
  <2>1. /\ UNCHANGED <<index, coins, pc>> /\ index[b].data # NoPos
        /\ vinfoBlockFile[index[b].data[1]].nUndoSize < MaxUndo
        /\ vinfoBlockFile' = UndoCounted(vinfoBlockFile, index[b].data[1])
    BY Zenon, <1>4 DEF ConnectWithoutUndo, Readable
  <2> DEFINE f == index[b].data[1]
  <2>2. /\ f \in Files
        /\ HasInfo(vinfoBlockFile', vinfoBlockFile, f, vinfoBlockFile[f].nSize, vinfoBlockFile[f].nUndoSize + 1)
    BY Zenon, <2>1, UndoPlace
  <2> HIDE DEF f
  <2>3. Low(index, vinfoBlockFile')
    BY Zenon, <1>0, <2>2, LowGrows
  <2>4. Low(index', vinfoBlockFile') /\ Safe(d, coins', index') /\ Kept' /\ Leaving' /\ pc'.at \in {"run", "sync"}
    BY Zenon, <1>0, <2>1, <2>3 DEF Kept, Leaving
  <2> QED BY Zenon, <2>4 DEF SafeInMemory
<1>5. ASSUME NEW b \in Blocks, ConnectFails(b) PROVE Goal
  BY Zenon, <1>0, <1>5 DEF ConnectFails, OnTheWay
<1>6. ASSUME NEW mode, NEW next \in Nexts, next = "exit" => mode = "ALWAYS",
             FlushStateToDisk(mode, next, index, vinfoBlockFile, nLastBlockFile, setDirtyBlockIndex,
                 setDirtyFileInfo, fCheckForPruning)
      PROVE  Flushed(index) /\ Safe(d, tip, index')
  <2>1. Typed(next, index, vinfoBlockFile, nLastBlockFile, setDirtyBlockIndex, setDirtyFileInfo, fCheckForPruning)
    BY Zenon DEF Flat, Typed
  <2>2. Flushed(index)
    BY Zenon, <1>0, <1>6, <2>1, FlushSpares
  <2> QED BY Zenon, <1>0, <2>2, PruneSafe DEF Flushed
<1>7. CASE DisconnectTip
  <2>1. tip # Genesis /\ coins' = Parent[tip] /\ Targets # {} /\ \A c \in Targets : tip \notin Chain[c]
    BY Zenon, <1>7 DEF DisconnectTip, UndoReadable, Inv, Types, IsIndex, Flat
  <2>2. Parent[tip] \in Nexts /\ Parent[tip] # "exit"
    <3>1. Parent[tip] \in Blocks
      BY Zenon, <1>0, <2>1, BlockStoreAssumption
    <3>2. "exit" \notin Blocks
      BY Zenon, BlockStoreAssumption
    <3> QED BY Zenon, <3>1, <3>2 DEF Nexts
  <2>3. Flushed(index) /\ Safe(d, tip, index')
    BY Zenon, <1>6, <1>7, <2>2 DEF DisconnectTip
  <2>4. \A b \in Blocks : index'[b].data # NoPos => index[b].data # NoPos
    BY Zenon, <2>3 DEF Flushed
  <2>5. Safe(d, coins', index')
    BY Zenon, <1>0, <2>1, <2>3, <2>4, DisconnectSafe
  <2> QED BY Zenon, <1>0, <1>1, <2>3, <2>5 DEF Kept
<1>8. ASSUME NEW mode, NEW next \in {NoBlock, "exit"}, next = "exit" => mode = "ALWAYS", Flush(mode, next)
      PROVE  Goal
  <2>1. next \in Nexts /\ coins' = coins
    BY Zenon, <1>8 DEF Nexts, Flush
  <2>2. Flushed(index) /\ Safe(d, tip, index')
    BY Zenon, <1>6, <1>8, <2>1 DEF Flush
  <2> QED BY Zenon, <1>0, <1>1, <2>1, <2>2 DEF Kept
<1>9. ASSUME Flush("PERIODIC", NoBlock) \/ Flush("ALWAYS", "exit") PROVE Goal
  BY Zenon, <1>8, <1>9, BlockStoreAssumption
<1> QED BY Zenon, <1>2, <1>3, <1>4, <1>5, <1>7, <1>9 DEF RunStep

\* Shutdown leaves no sooner than the coins are written.
LEMMA Moves ==
    ASSUME Inv, Leaving, WriteBatchSync \/ UnlinkPrunedFiles \/ FlushCoins \/ FlushBlockFile
    PROVE  Leaving' /\ (WriteBatchSync => pc'.at # "down")
<1>0. ASSUME NEW s, pc' = [pc EXCEPT !.at = s] PROVE Leaving' /\ pc'.at = s
  <2> DEFINE a == pc.at
             u == pc.full
             p == pc.prune
             n == pc.next
  <2>1. pc = [at |-> a, full |-> u, prune |-> p, next |-> n]
    BY Zenon DEF Inv, Types
  <2> HIDE DEF a, u, p, n
  <2>2. pc' = [at |-> s, full |-> u, prune |-> p, next |-> n]
    BY Zenon, <1>0, <2>1
  <2>3. pc'.at = s /\ pc'.full = u /\ pc'.next = n
    BY Zenon, <2>2
  <2> QED BY Zenon, <2>3 DEF u, n, Leaving
<1>1. ASSUME NEW next, Returned(next) PROVE Leaving'
  BY Zenon, <1>1, ReturnFacts, BlockStoreAssumption DEF Returned, Leaving
<1>2. ASSUME WriteBatchSync PROVE Leaving' /\ pc'.at # "down"
  <2>1. CASE pc.full
    BY Zenon, <1>0, <1>2, <2>1 DEF WriteBatchSync
  <2>2. CASE ~pc.full
    <3>1. pc.next # "exit" /\ Returned(pc.next)
      BY Zenon, <1>2, <2>2 DEF WriteBatchSync, Leaving
    <3>2. pc' = At("run")
      BY Zenon, <3>1 DEF Returned
    <3>3. pc'.at = "run" /\ pc'.next = NoBlock
      BY Zenon, <3>2, ReturnFacts
    <3> QED BY Zenon, <3>3, BlockStoreAssumption DEF Leaving
  <2> QED BY Zenon, <2>1, <2>2
<1>3. ASSUME UnlinkPrunedFiles PROVE Leaving'
  BY Zenon, <1>0, <1>3 DEF UnlinkPrunedFiles
<1>4. ASSUME FlushCoins PROVE Leaving'
  BY Zenon, <1>1, <1>4 DEF FlushCoins
<1>5. ASSUME FlushBlockFile PROVE Leaving'
  BY Zenon, <1>0, <1>5 DEF FlushBlockFile
<1> QED BY Zenon, <1>2, <1>3, <1>4, <1>5

\* Every step keeps the chains of the coins safe, in memory and on disk.
LEMMA StepSafe ==
    ASSUME NEW d \in Nat, Roomy(d)
    PROVE  Inv /\ Flat /\ Layout /\ SafeChains(d) /\ [Next]_vars => SafeChains(d)'
<1> SUFFICES ASSUME Inv, Flat, Layout, SafeChains(d), [Next]_vars, faults' \cap {"index", "behind"} = {}
             PROVE  SafeOnDisk(d)' /\ Leaving' /\ (Up' => SafeInMemory(d)')
  BY Zenon DEF SafeChains
<1>0. ASSUME faults \subseteq faults'
      PROVE  /\ LayoutOnDisk /\ (Up => LayoutInMemory) /\ "index" \notin faults
             /\ SafeOnDisk(d) /\ Leaving /\ (Up => SafeInMemory(d))
  BY Zenon, <1>0 DEF Layout, SafeChains
<1>1. CASE RunStep
  <2>1. Up /\ faults \subseteq faults' /\ UNCHANGED <<dbIndex, dbInfo, dbCoins, prevCoins, outdated>>
    BY Zenon, <1>1, RunFrame DEF dbVars
  <2>2. pc'.at \in {"run", "sync"} /\ Leaving' /\ SafeInMemory(d)'
    BY Zenon, <1>0, <1>1, <2>1, RunSafe
  <2>3. SafeOnDisk(d)'
    BY Zenon, <1>0, <2>1, <2>2 DEF SafeOnDisk
  <2> QED BY Zenon, <2>2, <2>3
<1>2. CASE FlushBlockFile \/ UnlinkPrunedFiles
  <2>1. /\ Up /\ UNCHANGED <<faults, index, vinfoBlockFile, coins, dbIndex, dbInfo, dbCoins, prevCoins, outdated>>
        /\ FlushBlockFile => pc'.at = "index" /\ pc'.prune = pc.prune
        /\ UnlinkPrunedFiles => pc.at = "unlink" /\ pc'.at = "coins"
    BY Zenon, <1>2, AfterWrite DEF FlushBlockFile, UnlinkPrunedFiles, memVars, dbVars, faultVars
  <2>2. SafeOnDisk(d) /\ Leaving /\ SafeInMemory(d)
    BY Zenon, <1>0, <2>1
  <2>3. Leaving'
    BY Zenon, <1>2, <2>2, Moves
  <2>4. Pruning' \/ Kept'
    BY Zenon, <1>2, <2>1, <2>2 DEF SafeInMemory, Pruning, Kept
  <2>5. SafeOnDisk(d)'
    BY Zenon, <1>2, <2>1, <2>2 DEF SafeOnDisk
  <2> QED BY Zenon, <2>1, <2>2, <2>3, <2>4, <2>5 DEF SafeInMemory
<1>3. CASE WriteBatchSync
  <2>1. /\ Up /\ UNCHANGED <<faults, index, vinfoBlockFile, coins, dbCoins, prevCoins>>
        /\ outdated' = IF pc.prune = {} THEN outdated ELSE {prevCoins, dbCoins}
    BY Zenon, <1>3, AfterWrite DEF WriteBatchSync, faultVars
  <2>2. LayoutInMemory /\ SafeOnDisk(d) /\ Leaving /\ SafeInMemory(d)
    BY Zenon, <1>0, <2>1
  <2>3. dbIndex' = index /\ dbInfo' = vinfoBlockFile
    BY Zenon, <1>3, <2>2, BatchFacts
  <2>4. Leaving' /\ pc'.at # "down"
    BY Zenon, <1>3, <2>2, Moves
  <2>5. ASSUME NEW t \in {dbCoins, prevCoins}, t \notin outdated' PROVE Safe(d, t, index)
    <3>1. pc.prune = {} /\ t \notin outdated /\ t \in Blocks
      BY Zenon, <2>1, <2>5 DEF Flat
    <3>2. NoLess(dbIndex, index)
      BY Zenon, <2>2, <3>1 DEF SafeInMemory, Pruning, Kept, NoLess
    <3> QED BY Zenon, <2>2, <3>1, <3>2, MoreSafe DEF SafeOnDisk
  <2>6. SafeOnDisk(d)'
    BY Zenon, <2>1, <2>2, <2>3, <2>4, <2>5 DEF SafeOnDisk, SafeInMemory
  <2>7. Kept'
    BY Zenon, <2>1, <2>3 DEF Kept
  <2> QED BY Zenon, <2>1, <2>2, <2>4, <2>6, <2>7 DEF SafeInMemory
<1>4. CASE WriteBatchFails
  BY Zenon, <1>4 DEF WriteBatchFails
<1>5. CASE FlushCoins
  <2>1. /\ Up /\ pc.at = "coins" /\ UNCHANGED <<faults, index, vinfoBlockFile, coins, dbIndex, dbInfo>>
        /\ dbCoins' = coins /\ prevCoins' = dbCoins /\ outdated' = (outdated \cap {dbCoins}) \ {coins}
    BY Zenon, <1>5, AfterWrite DEF FlushCoins, faultVars
  <2>2. LayoutInMemory /\ SafeOnDisk(d) /\ Leaving /\ SafeInMemory(d)
    BY Zenon, <1>0, <2>1
  <2>3. \A b \in Blocks : index[b] = dbIndex[b]
    BY Zenon, <2>1, <2>2 DEF LayoutInMemory, Stage, Mem
  <2>4. Safe(d, coins, dbIndex)
    <3>1. NoLess(index, dbIndex) /\ coins \in Blocks
      BY Zenon, <2>3 DEF NoLess, Flat
    <3> QED BY Zenon, <2>2, <3>1, MoreSafe DEF SafeInMemory
  <2>5. SafeOnDisk(d)'
    BY Zenon, <2>1, <2>2, <2>4 DEF SafeOnDisk
  <2>6. Kept' /\ Leaving'
    BY Zenon, <1>5, <2>1, <2>2, <2>3, Moves DEF Kept
  <2> QED BY Zenon, <2>1, <2>2, <2>5, <2>6 DEF SafeInMemory
<1>6. CASE CrashStep
  <2>1. PICK lost \in {{}, Unsynced}, lostUndo \in {{}, UnsyncedUndo}, c \in {prevCoins, dbCoins} :
                 Crash(lost, lostUndo, c)
    BY Zenon, <1>6 DEF CrashStep
  <2>2. /\ UNCHANGED <<dbIndex, dbInfo>> /\ dbCoins' = c /\ prevCoins' = c /\ outdated' = outdated \cap {c}
        /\ pc' = At("down") /\ faults \subseteq faults' /\ (c \in outdated => "behind" \in faults')
    BY Zenon, <2>1 DEF Crash
  <2>3. pc'.at = "down" /\ pc'.next = NoBlock
    BY Zenon, <2>2, ReturnFacts
  <2>4. ~Up' /\ Leaving'
    BY Zenon, <2>3, BlockStoreAssumption DEF Up, Leaving
  <2>5. SafeOnDisk(d) /\ c \notin outdated
    BY Zenon, <1>0, <2>2
  <2>6. SafeOnDisk(d)'
    BY Zenon, <2>1, <2>2, <2>5 DEF SafeOnDisk
  <2> QED BY Zenon, <2>4, <2>6
<1>7. CASE Restart
  <2>1. /\ UNCHANGED <<dbIndex, dbInfo, dbCoins, prevCoins, outdated, faults>> /\ pc.at = "down"
        /\ index' = dbIndex /\ vinfoBlockFile' = dbInfo /\ coins' = dbCoins
        /\ pc' = At(IF Loads THEN "run" ELSE "corrupt")
    BY Zenon, <1>7 DEF Restart, dbVars, faultVars
  <2>2. SafeOnDisk(d)
    BY Zenon, <1>0, <2>1
  <2>3. pc'.at \in {"run", "corrupt"} /\ pc'.next = NoBlock
    BY Zenon, <2>1, ReturnFacts
  <2>4. Leaving' /\ pc'.at # "down"
    BY Zenon, <2>3, BlockStoreAssumption DEF Leaving
  <2>5. SafeOnDisk(d)' /\ Kept' /\ Safe(d, coins', index') /\ Low(index', vinfoBlockFile')
    BY Zenon, <2>1, <2>2, <2>4 DEF SafeOnDisk, Kept
  <2> QED BY Zenon, <2>4, <2>5 DEF SafeInMemory
<1>8. CASE UNCHANGED vars
  <2>1. UNCHANGED <<index, vinfoBlockFile, coins, pc, dbIndex, dbInfo, dbCoins, prevCoins, outdated, faults>>
    BY Zenon, <1>8 DEF vars, memVars, dbVars, faultVars
  <2>2. SafeOnDisk(d) /\ Leaving /\ (Up => SafeInMemory(d)) /\ Up' = Up
    BY Zenon, <1>0, <2>1 DEF Up
  <2>3. SafeOnDisk(d)' /\ Leaving'
    BY Zenon, <2>1, <2>2 DEF SafeOnDisk, Leaving
  <2>4. SafeInMemory(d) => SafeInMemory(d)'
    BY Zenon, <2>1 DEF SafeInMemory, Pruning, Kept
  <2> QED BY Zenon, <2>2, <2>3, <2>4
<1> QED BY Zenon, <1>1, <1>2, <1>3, <1>4, <1>5, <1>6, <1>7, <1>8 DEF Next, RunStep

\* The chain of the genesis block is safe.
LEMMA InitSafe == ASSUME NEW d PROVE Init => SafeChains(d)
<1> SUFFICES ASSUME Init PROVE SafeChains(d)
  BY Zenon
<1>1. /\ dbIndex = index /\ dbInfo = vinfoBlockFile /\ coins = Genesis /\ dbCoins = Genesis /\ prevCoins = Genesis
      /\ pc = At("run")
      /\ vinfoBlockFile = [f \in Files |-> IF f = 0 THEN [NullInfo EXCEPT !.nSize = 1] ELSE NullInfo]
  BY Zenon DEF Init
<1>2. pc.at = "run" /\ pc.next # "exit"
  <2>1. pc = [at |-> "run", full |-> FALSE, prune |-> {}, next |-> NoBlock]
    BY Zenon, <1>1 DEF At
  <2> QED BY Zenon, <2>1, BlockStoreAssumption
<1>3. Low(index, vinfoBlockFile)
  <2> SUFFICES ASSUME NEW b \in Blocks, index[b].data # NoPos
               PROVE  Height[b] <= vinfoBlockFile[index[b].data[1]].nHeightLast
    BY Zenon DEF Low
  <2>1. b = Genesis /\ index[b].data = <<0, 0>>
    BY Zenon, InitParts
  <2>2. vinfoBlockFile[0] = [NullInfo EXCEPT !.nSize = 1]
    <3>1. 0 \in Files
      BY BlockStoreAssumption DEF Files
    <3> QED BY Zenon, <1>1, <3>1
  <2>3. [NullInfo EXCEPT !.nSize = 1].nHeightLast = 0 /\ <<0, 0>>[1] = 0
    BY DEF NullInfo
  <2>4. Height[b] = 0
    BY Zenon, <2>1, BlockStoreAssumption
  <2>5. vinfoBlockFile[index[b].data[1]].nHeightLast = 0
    BY Zenon, <2>1, <2>2, <2>3
  <2> QED BY SMT, <2>4, <2>5
<1>4. Kept /\ Safe(d, coins, index) /\ Safe(d, dbCoins, dbIndex) /\ Safe(d, prevCoins, dbIndex)
  BY Zenon, <1>1, GenesisSafe DEF Kept
<1>5. SafeInMemory(d) /\ SafeOnDisk(d) /\ Leaving
  BY Zenon, <1>1, <1>2, <1>3, <1>4 DEF SafeInMemory, SafeOnDisk, Leaving
<1> QED BY Zenon, <1>5 DEF SafeChains

\* LoadBlockIndexDB and VerifyDB find what they need.
LEMMA LoadSucceeds ==
    ASSUME NEW d \in Nat, Roomy(d), FilesInv, SafeChains(d), pc.at = "down", faults = {}
    PROVE  Loads
<1>1. /\ OnDisk /\ DbData /\ UndoIn(dbIndex, {}, rev) /\ dbCoins \in Blocks
      /\ Safe(d, dbCoins, dbIndex)
  BY Zenon DEF FilesInv, Inv, Types, DataInv, UndoThere, RevInv, SafeChains, SafeOnDisk
<1>2. dbIndex[dbCoins].known
  BY Zenon, <1>1 DEF OnDisk
<1>3. \A b \in Blocks : dbIndex[b].data # NoPos => dbIndex[b].data[1] \in files /\ blk[dbIndex[b].data] = b
  BY Zenon, <1>1 DEF DbData, Data
<1>4. \A b \in Blocks : dbIndex[b].undo # NoPos => rev[dbIndex[b].undo] = b
  BY Zenon, <1>1 DEF UndoIn
<1>5. VerifyDB(dbCoins)
  <2> SUFFICES ASSUME NEW b \in Chain[dbCoins] \ {Genesis}, Height[b] >= Height[dbCoins] - CheckBlocks
               PROVE  /\ dbIndex[b].data # NoPos /\ blk[dbIndex[b].data] = b
                      /\ dbIndex[b].undo # NoPos /\ rev[dbIndex[b].undo] = b
    BY Zenon DEF VerifyDB
  <2>1. dbIndex[b].data # NoPos /\ dbIndex[b].undo # NoPos /\ b \in Blocks
    BY Zenon, <1>1, LastBlocks, ChainBlocks
  <2> QED BY Zenon, <1>3, <1>4, <2>1
<1> QED BY Zenon, <1>2, <1>3, <1>5 DEF Loads

\* The node is not refused its own databases unless something went wrong.
LEMMA StepRestarts ==
    ASSUME NEW d \in Nat, Roomy(d)
    PROVE  FilesInv /\ SafeChains(d) /\ RestartsUnlessFault /\ [Next]_vars => RestartsUnlessFault'
<1> SUFFICES ASSUME FilesInv, SafeChains(d), RestartsUnlessFault, [Next]_vars, pc'.at = "corrupt"
             PROVE  faults' # {}
  BY Zenon DEF RestartsUnlessFault
<1>0. Inv /\ Flat /\ \A s : At(s).at = s
  <2>1. ASSUME NEW s PROVE At(s).at = s
    BY SMT DEF At
  <2> QED BY Zenon, <2>1 DEF FilesInv
<1>1. CASE RunStep
  <2>1. SUFFICES ASSUME faults' = {} PROVE FALSE
    BY Zenon
  <2>2. Up /\ faults = {}
    BY Zenon, <1>1, <2>1, RunFrame
  <2>3. LayoutOnDisk /\ SafeInMemory(d) /\ Leaving
    BY Zenon, <2>2 DEF FilesInv, Layout, SafeChains
  <2> QED BY Zenon, <1>0, <1>1, <2>2, <2>3, RunSafe
<1>2. CASE WriteBatchSync \/ UnlinkPrunedFiles \/ FlushCoins \/ FlushBlockFile
  BY Zenon, <1>0, <1>2, AfterWrite
<1>3. CASE WriteBatchFails
  BY Zenon, <1>0, <1>3 DEF WriteBatchFails
<1>4. CASE CrashStep
  BY Zenon, <1>0, <1>4 DEF CrashStep, Crash
<1>5. CASE Restart
  <2>1. faults' = faults /\ pc' = At(IF Loads THEN "run" ELSE "corrupt") /\ pc.at = "down"
    BY Zenon, <1>5 DEF Restart, faultVars
  <2>2. ~Loads
    <3>1. ASSUME Loads PROVE pc'.at = "run"
      BY Zenon, <1>0, <2>1, <3>1
    <3>2. "run" # "corrupt"
      OBVIOUS
    <3> QED BY Zenon, <3>1, <3>2
  <2> QED BY Zenon, <2>1, <2>2, LoadSucceeds
<1>6. CASE UNCHANGED vars
  BY Zenon, <1>6 DEF vars, faultVars, RestartsUnlessFault
<1> QED BY Zenon, <1>1, <1>2, <1>3, <1>4, <1>5, <1>6 DEF Next, RunStep

\* A node comes back after a clean shutdown and after any crashes, at any
\* moment, when it does not prune, or when -checkblocks is so far below
\* MIN_BLOCKS_TO_KEEP that no fork of the tree is deeper than the difference:
\* LoadBlockIndexDB and VerifyDB refuse the databases only when the write of a
\* block or of the block index has failed, undo data was lost with the power,
\* or the coins database is older than what was pruned.
THEOREM RestartsWhenPruned ==
    ASSUME NEW d \in Nat, fPruneMode => ShallowForks(d) /\ CheckBlocks + d < MIN_BLOCKS_TO_KEEP
    PROVE  Spec => []RestartsUnlessFault
<1>0. Roomy(d)
  BY Zenon DEF Roomy
<1>1. Init => SafeChains(d) /\ RestartsUnlessFault
  BY Zenon, InitSafe, InitParts DEF RestartsUnlessFault
<1>2. FilesInv /\ SafeChains(d) /\ [Next]_vars => SafeChains(d)'
  BY Zenon, <1>0, StepSafe DEF FilesInv
<1>3. FilesInv /\ SafeChains(d) /\ RestartsUnlessFault /\ [Next]_vars => RestartsUnlessFault'
  BY Zenon, <1>0, StepRestarts
<1> QED BY <1>1, <1>2, <1>3, FilesInvariance, PTL DEF Spec

\* A node that does not prune comes back whatever the depth of the forks and
\* for any -checkblocks.
THEOREM RestartsWithoutPruning ==
    ASSUME ~fPruneMode
    PROVE  Spec => []RestartsUnlessFault
<1>1. 0 \in Nat
  OBVIOUS
<1> QED BY Zenon, <1>1, RestartsWhenPruned
=============================================================================
