-------------------------- MODULE BlockStoreProofs --------------------------
(* Proofs about BlockStore, for any tree of blocks, any file sizes and any *)
(* number of crashes: as long as no write of the block index fails, the    *)
(* coins database stays within the block index database, and no valid      *)
(* block is taken for an invalid one.                                      *)
EXTENDS BlockStore, WellFoundedInduction, TLAPS

-----------------------------------------------------------------------------
(* The inductive invariant.                                                *)

\* The entries of an index are records; the genesis block is never connected
\* and has no undo data.
IsIndex(idx) ==
    /\ idx = [b \in Blocks |-> idx[b]] /\ idx[Genesis].undo = NoPos
    /\ \A b \in Blocks :
           /\ idx[b] = [known |-> idx[b].known, data |-> idx[b].data, undo |-> idx[b].undo, failed |-> idx[b].failed]
           /\ idx[b].known \in BOOLEAN /\ idx[b].failed \in BOOLEAN

\* An index that knows every block it has data of and the parents of those it
\* knows, and has no failed block.
Sound(idx) ==
    /\ \A b \in Blocks : idx[b].data # NoPos => idx[b].known
    /\ \A b \in Blocks \ {Genesis} : idx[b].known => idx[Parent[b]].known
    /\ \A b \in Blocks : ~idx[b].failed

Nexts == Blocks \cup {NoBlock, "exit"}
Up == pc.at \in {"run", "sync", "index", "unlink", "coins"}

Types ==
    /\ IsIndex(index) /\ IsIndex(dbIndex)
    /\ coins \in Blocks /\ tip \in Blocks /\ dbCoins \in Blocks /\ prevCoins \in Blocks
    /\ pc = [at |-> pc.at, full |-> pc.full, prune |-> pc.prune, next |-> pc.next]
    /\ pc.next \in Nexts /\ (Running => pc.next = NoBlock)

\* The databases.
OnDisk == Sound(dbIndex) /\ dbIndex[dbCoins].known /\ dbIndex[prevCoins].known

\* Memory: what is not in the database is dirty, the coins are those of the
\* tip, or of the block UpdateTip is about to make the tip, and the database
\* knows their block before they are written.
InMemory(idx, dirty) ==
    /\ Sound(idx)
    /\ \A b \in Blocks : dbIndex[b].known => idx[b].known
    /\ \A b \in Blocks : idx[b].known /\ b \notin dirty => dbIndex[b].known

Coins ==
    /\ index[coins].known
    /\ coins = IF pc.next \in Blocks THEN pc.next ELSE tip
    /\ pc.at \in {"unlink", "coins"} => dbIndex[coins].known

NoneFailed == \A b \in Blocks : ~index[b].failed

Inv ==
    /\ Types
    /\ "index" \notin faults => OnDisk /\ NoneFailed /\ (Up => InMemory(index, setDirtyBlockIndex) /\ Coins)


-----------------------------------------------------------------------------
(* FlushStateToDisk.                                                       *)

\* Pruning takes data and undo data away and nothing else.
LEMMA PruneFacts ==
    ASSUME NEW idx, IsIndex(idx), NEW fs
    PROVE  /\ IsIndex(PruneIndex(idx, fs))
           /\ \A b \in Blocks :
                  /\ PruneIndex(idx, fs)[b].known = idx[b].known
                  /\ PruneIndex(idx, fs)[b].failed = idx[b].failed
                  /\ PruneIndex(idx, fs)[b].data \in {idx[b].data, NoPos}
                  /\ PruneIndex(idx, fs)[b].undo \in {idx[b].undo, NoPos}
<1> DEFINE new == PruneIndex(idx, fs)
<1>1. new = [b \in Blocks |-> IF b \in InFiles(idx, fs) THEN [idx[b] EXCEPT !.data = NoPos, !.undo = NoPos] ELSE idx[b]]
  BY Zenon DEF PruneIndex
<1> HIDE DEF new
<1>2. \A b \in Blocks : new[b] = IF b \in InFiles(idx, fs) THEN [idx[b] EXCEPT !.data = NoPos, !.undo = NoPos] ELSE idx[b]
  BY Zenon, <1>1
<1>3. ASSUME NEW b \in Blocks
      PROVE  /\ new[b] = [known |-> idx[b].known, data |-> new[b].data, undo |-> new[b].undo, failed |-> idx[b].failed]
             /\ new[b].data \in {idx[b].data, NoPos} /\ new[b].undo \in {idx[b].undo, NoPos}
  <2>1. idx[b] = [known |-> idx[b].known, data |-> idx[b].data, undo |-> idx[b].undo, failed |-> idx[b].failed]
    BY Zenon DEF IsIndex
  <2>2. CASE b \in InFiles(idx, fs)
    <3>1. new[b] = [known |-> idx[b].known, data |-> NoPos, undo |-> NoPos, failed |-> idx[b].failed]
      BY Zenon, <1>2, <2>1, <2>2
    <3> QED BY SMTT(30), <3>1
  <2>3. CASE b \notin InFiles(idx, fs)
    BY Zenon, <1>2, <2>1, <2>3
  <2> QED BY Zenon, <2>2, <2>3
<1>4. ASSUME NEW b \in Blocks PROVE new[b].known = idx[b].known /\ new[b].failed = idx[b].failed
  <2> DEFINE d == new[b].data
  <2> DEFINE u == new[b].undo
  <2>1. new[b] = [known |-> idx[b].known, data |-> d, undo |-> u, failed |-> idx[b].failed]
    BY Zenon, <1>3
  <2> HIDE DEF d, u
  <2> QED BY <2>1
<1>5. new = [b \in Blocks |-> new[b]]
  BY Zenon, <1>1
<1>6. IsIndex(new)
  BY Zenon, <1>3, <1>4, <1>5, BlockStoreAssumption DEF IsIndex
<1> QED BY Zenon, <1>3, <1>4, <1>6 DEF new

\* What the callers of FlushStateToDisk need: it starts writing or returns,
\* and what the caller has put into the index stays known.
LEMMA FlushFacts ==
    ASSUME NEW mode, NEW next \in Nexts, NEW idx, NEW info, NEW last, NEW db, NEW df, NEW check,
           IsIndex(idx), FlushStateToDisk(mode, next, idx, info, last, db, df, check)
    PROVE  /\ IsIndex(index')
           /\ \A b \in Blocks :
                  /\ index'[b].known = idx[b].known /\ index'[b].failed = idx[b].failed
                  /\ index'[b].data \in {idx[b].data, NoPos} /\ index'[b].undo \in {idx[b].undo, NoPos}
           /\ db \subseteq setDirtyBlockIndex'
           /\ \/ tip' = tip /\ pc'.at = "sync" /\ pc'.next = next
              \/ tip' = (IF next \in Blocks THEN next ELSE tip) /\ pc'.at = "run" /\ pc'.next = NoBlock
              \/ next = "exit" /\ tip' = tip /\ pc'.at = "down" /\ pc'.next = NoBlock
           /\ pc' = [at |-> pc'.at, full |-> pc'.full, prune |-> pc'.prune, next |-> pc'.next]
<1>1. PICK P : /\ index' = PruneIndex(idx, P) /\ setDirtyBlockIndex' = db \cup InFiles(idx, P)
               /\ \E extent \in Extents(mode, P) :
                      IF extent = "nothing" THEN Returned(next)
                      ELSE /\ pc' = [at |-> "sync", full |-> extent = "full", prune |-> P, next |-> next]
                           /\ UNCHANGED tip
  BY Zenon DEF FlushStateToDisk
<1>2. PICK extent \in Extents(mode, P) :
         IF extent = "nothing" THEN Returned(next)
         ELSE /\ pc' = [at |-> "sync", full |-> extent = "full", prune |-> P, next |-> next]
              /\ UNCHANGED tip
  BY Zenon, <1>1
<1>3. CASE Returned(next)
  BY <1>1, <1>3, PruneFacts, BlockStoreAssumption DEF Returned, At, Nexts
<1>4. CASE pc' = [at |-> "sync", full |-> extent = "full", prune |-> P, next |-> next] /\ UNCHANGED tip
  BY Zenon, <1>1, <1>4, PruneFacts
<1> QED BY Zenon, <1>2, <1>3, <1>4


\* A caller that hands a sound index and what is dirty in it to
\* FlushStateToDisk, and has set coins to the block the tip will follow to.
LEMMA FlushStep ==
    ASSUME Inv, NEW mode, NEW next \in Nexts, NEW idx, NEW info, NEW last, NEW db, NEW df, NEW check,
           IsIndex(idx), FlushStateToDisk(mode, next, idx, info, last, db, df, check),
           UNCHANGED <<dbIndex, dbCoins, prevCoins>>, coins' \in Blocks,
           "index" \notin faults' => "index" \notin faults,
           "index" \notin faults => InMemory(idx, db) /\ idx[coins'].known
                                    /\ coins' = IF next \in Blocks THEN next ELSE tip
    PROVE  Inv'
<1>1. /\ IsIndex(index')
      /\ \A b \in Blocks :
             /\ index'[b].known = idx[b].known /\ index'[b].failed = idx[b].failed
             /\ index'[b].data \in {idx[b].data, NoPos} /\ index'[b].undo \in {idx[b].undo, NoPos}
      /\ db \subseteq setDirtyBlockIndex'
      /\ \/ tip' = tip /\ pc'.at = "sync" /\ pc'.next = next
         \/ tip' = (IF next \in Blocks THEN next ELSE tip) /\ pc'.at = "run" /\ pc'.next = NoBlock
         \/ next = "exit" /\ tip' = tip /\ pc'.at = "down" /\ pc'.next = NoBlock
      /\ pc' = [at |-> pc'.at, full |-> pc'.full, prune |-> pc'.prune, next |-> pc'.next]
  BY Zenon, FlushFacts
<1>2. Types'
  BY Zenon, <1>1 DEF Inv, Types, Running, Nexts
<1>3. ASSUME "index" \notin faults' PROVE OnDisk' /\ NoneFailed' /\ (Up' => (InMemory(index, setDirtyBlockIndex))' /\ Coins')
  <2>1. OnDisk /\ InMemory(idx, db) /\ idx[coins'].known /\ coins' = IF next \in Blocks THEN next ELSE tip
    BY Zenon, <1>3 DEF Inv
  <2>2. OnDisk'
    BY Zenon, <2>1 DEF OnDisk, Sound
  <2>3. (InMemory(index, setDirtyBlockIndex))'
    BY Zenon, <1>1, <2>1, BlockStoreAssumption DEF InMemory, Sound
  <2>4. Up' => Coins'
    BY Zenon, <1>1, <2>1, BlockStoreAssumption DEF Coins, Up, Nexts
  <2>5. NoneFailed'
    BY Zenon, <2>3 DEF InMemory, Sound, NoneFailed
  <2> QED BY Zenon, <2>2, <2>3, <2>4, <2>5
<1> QED BY Zenon, <1>2, <1>3 DEF Inv

\* PERIODIC and ALWAYS flushes.
LEMMA FlushOnly ==
    ASSUME Inv, NEW mode, NEW next \in {NoBlock, "exit"}, Flush(mode, next)
    PROVE  Inv'
<1>1. /\ Running
      /\ FlushStateToDisk(mode, next, index, vinfoBlockFile, nLastBlockFile, setDirtyBlockIndex,
             setDirtyFileInfo, fCheckForPruning)
      /\ UNCHANGED <<dbIndex, dbCoins, prevCoins, faults, coins>>
  BY Zenon DEF Flush, dbVars, faultVars
<1>2. next \in Nexts /\ next \notin Blocks
  BY Zenon, BlockStoreAssumption DEF Nexts
<1>3. IsIndex(index) /\ coins' \in Blocks
  BY Zenon, <1>1 DEF Inv, Types
<1>4. "index" \notin faults => InMemory(index, setDirtyBlockIndex) /\ index[coins'].known
                               /\ coins' = IF next \in Blocks THEN next ELSE tip
  BY Zenon, <1>1, <1>2, BlockStoreAssumption DEF Inv, Types, Up, Running, Coins
<1> QED BY Zenon, <1>1, <1>2, <1>3, <1>4, FlushStep

\* The tip is disconnected; it is not the genesis block.
LEMMA DisconnectStep ==
    ASSUME Inv, DisconnectTip
    PROVE  Inv'
<1>1. /\ Running /\ coins = tip /\ UndoReadable(tip) /\ coins' = Parent[tip]
      /\ FlushStateToDisk("IF_NEEDED", Parent[tip], index, vinfoBlockFile, nLastBlockFile,
             setDirtyBlockIndex, setDirtyFileInfo, fCheckForPruning)
      /\ UNCHANGED <<dbIndex, dbCoins, prevCoins, faults>>
  BY Zenon DEF DisconnectTip, dbVars, faultVars
<1>2. tip # Genesis
  BY Zenon, <1>1 DEF UndoReadable, Inv, Types, IsIndex
<1>3. tip \in Blocks /\ Parent[tip] \in Blocks /\ Parent[tip] \in Nexts /\ IsIndex(index)
  BY Zenon, <1>2, BlockStoreAssumption DEF Inv, Types, Nexts
<1>4. "index" \notin faults => InMemory(index, setDirtyBlockIndex) /\ index[coins'].known
  BY Zenon, <1>1, <1>2, <1>3 DEF Inv, Up, Running, Coins, InMemory, Sound
<1> QED BY Zenon, <1>1, <1>3, <1>4, FlushStep

\* An index with a new entry for b.
Entry(idx, b, k, d, u, f) == [idx EXCEPT ![b] = [known |-> k, data |-> d, undo |-> u, failed |-> f]]

HasEntry(new, idx, b, k, d, u, f) ==
    /\ IsIndex(new)
    /\ new[b].known = k /\ new[b].data = d /\ new[b].undo = u /\ new[b].failed = f
    /\ \A c \in Blocks : c # b => new[c] = idx[c]

\* It is an index, and the other entries stay.
LEMMA EntryFacts ==
    ASSUME NEW idx, IsIndex(idx), NEW b \in Blocks, NEW k \in BOOLEAN, NEW d, NEW u, NEW f \in BOOLEAN,
           b = Genesis => u = NoPos
    PROVE  HasEntry(Entry(idx, b, k, d, u, f), idx, b, k, d, u, f)
<1> DEFINE new == Entry(idx, b, k, d, u, f)
<1>1. idx = [c \in Blocks |-> idx[c]]
  BY Zenon DEF IsIndex
<1>2. new = [c \in Blocks |-> IF c = b THEN [known |-> k, data |-> d, undo |-> u, failed |-> f] ELSE idx[c]]
  BY Zenon, <1>1 DEF Entry
<1> HIDE DEF new
<1>3. /\ new[b] = [known |-> k, data |-> d, undo |-> u, failed |-> f]
      /\ \A c \in Blocks : c # b => new[c] = idx[c]
      /\ new = [c \in Blocks |-> new[c]]
  BY Zenon, <1>2
<1>4. new[b].known = k /\ new[b].data = d /\ new[b].undo = u /\ new[b].failed = f
  BY <1>3
<1>5. new[b] = [known |-> new[b].known, data |-> new[b].data, undo |-> new[b].undo, failed |-> new[b].failed]
      /\ new[b].known \in BOOLEAN /\ new[b].failed \in BOOLEAN
  BY Zenon, <1>3, <1>4
<1>6. ASSUME NEW c \in Blocks
      PROVE  /\ new[c] = [known |-> new[c].known, data |-> new[c].data, undo |-> new[c].undo, failed |-> new[c].failed]
             /\ new[c].known \in BOOLEAN /\ new[c].failed \in BOOLEAN
  <2>1. CASE c = b
    BY Zenon, <1>5, <2>1
  <2>2. CASE c # b
    <3>1. new[c] = idx[c]
      BY Zenon, <1>3, <2>2
    <3>2. /\ idx[c] = [known |-> idx[c].known, data |-> idx[c].data, undo |-> idx[c].undo, failed |-> idx[c].failed]
          /\ idx[c].known \in BOOLEAN /\ idx[c].failed \in BOOLEAN
      BY Zenon DEF IsIndex
    <3> QED BY Zenon, <3>1, <3>2
  <2> QED BY Zenon, <2>1, <2>2
<1>7. new[Genesis].undo = NoPos
  BY Zenon, <1>3, <1>4, BlockStoreAssumption DEF IsIndex
<1>8. IsIndex(new)
  BY Zenon, <1>3, <1>6, <1>7 DEF IsIndex
<1> QED BY Zenon, <1>3, <1>4, <1>8 DEF HasEntry, new

\* The updates of an entry that the code makes.
Arrived(idx, b, p) == [idx EXCEPT ![b] = [@ EXCEPT !.known = TRUE, !.data = p, !.undo = NoPos]]
Undone(idx, b, p) == [idx EXCEPT ![b].undo = p]
Failed(idx, b) == [idx EXCEPT ![b].failed = TRUE]

\* Each of them replaces the entry of b.
LEMMA UpdateFacts ==
    ASSUME NEW idx, IsIndex(idx), NEW b \in Blocks, NEW p
    PROVE  /\ Arrived(idx, b, p) = Entry(idx, b, TRUE, p, NoPos, idx[b].failed)
           /\ Undone(idx, b, p) = Entry(idx, b, idx[b].known, idx[b].data, p, idx[b].failed)
           /\ Failed(idx, b) = Entry(idx, b, idx[b].known, idx[b].data, idx[b].undo, TRUE)
<1> DEFINE k == idx[b].known
<1> DEFINE d == idx[b].data
<1> DEFINE u == idx[b].undo
<1> DEFINE f == idx[b].failed
<1>1. idx[b] = [known |-> k, data |-> d, undo |-> u, failed |-> f]
  BY Zenon DEF IsIndex
<1> HIDE DEF k, d, u, f
<1>2. [idx[b] EXCEPT !.known = TRUE, !.data = p, !.undo = NoPos] = [known |-> TRUE, data |-> p, undo |-> NoPos, failed |-> f]
  <2>1. ASSUME NEW q, NEW n
        PROVE  [[known |-> k, data |-> d, undo |-> u, failed |-> f] EXCEPT !.known = q, !.data = p, !.undo = n]
                   = [known |-> q, data |-> p, undo |-> n, failed |-> f]
    <3>1. [[known |-> k, data |-> d, undo |-> u, failed |-> f] EXCEPT !.known = q] = [known |-> q, data |-> d, undo |-> u, failed |-> f]
      OBVIOUS
    <3>2. [[known |-> q, data |-> d, undo |-> u, failed |-> f] EXCEPT !.data = p] = [known |-> q, data |-> p, undo |-> u, failed |-> f]
      OBVIOUS
    <3>3. [[known |-> q, data |-> p, undo |-> u, failed |-> f] EXCEPT !.undo = n] = [known |-> q, data |-> p, undo |-> n, failed |-> f]
      OBVIOUS
    <3> QED BY Zenon, <3>1, <3>2, <3>3
  <2> QED BY <1>1, <2>1, Zenon
<1>3. [idx[b] EXCEPT !.undo = p] = [known |-> k, data |-> d, undo |-> p, failed |-> f]
  BY <1>1
<1>4. [idx[b] EXCEPT !.failed = TRUE] = [known |-> k, data |-> d, undo |-> u, failed |-> TRUE]
  <2>1. \A q : [idx[b] EXCEPT !.failed = q] = [known |-> k, data |-> d, undo |-> u, failed |-> q]
    BY <1>1
  <2> QED BY <2>1, Zenon
<1> QED BY Zenon, <1>2, <1>3, <1>4 DEF Entry, Arrived, Undone, Failed, k, d, u, f

\* A block arrives.
LEMMA AcceptStep ==
    ASSUME Inv, NEW b \in Blocks, NEW written \in BOOLEAN, AcceptBlock(b, written)
    PROVE  Inv'
<1> DEFINE f == FileWithRoom
<1> DEFINE pos == <<f, vinfoBlockFile[f].nSize>>
<1> DEFINE idx == Arrived(index, b, pos)
<1> DEFINE info == [vinfoBlockFile EXCEPT ![f].nSize = @ + 1, ![f].nHeightLast = Max({@, Height[b]})]
<1>1. /\ Running /\ b # Genesis /\ index[Parent[b]].known
      /\ FlushStateToDisk("NONE", NoBlock, idx, info, f, setDirtyBlockIndex \cup {b}, setDirtyFileInfo \cup {f}, fPruneMode)
      /\ UNCHANGED <<dbIndex, dbCoins, prevCoins, coins>>
      /\ "index" \notin faults' => "index" \notin faults
  BY Zenon DEF AcceptBlock, Arrived, dbVars
<1> HIDE DEF f, pos, info
<1>2. IsIndex(index) /\ coins' \in Blocks /\ NoBlock \in Nexts /\ NoBlock \notin Blocks /\ index[b].failed \in BOOLEAN
  BY Zenon, <1>1, BlockStoreAssumption DEF Inv, Types, Nexts, IsIndex
<1>3. idx = Entry(index, b, TRUE, pos, NoPos, index[b].failed)
  BY Zenon, <1>2, UpdateFacts
<1> HIDE DEF idx
<1>4. HasEntry(idx, index, b, TRUE, pos, NoPos, index[b].failed)
  BY Zenon, <1>2, <1>3, EntryFacts
<1>5. "index" \notin faults => InMemory(idx, setDirtyBlockIndex \cup {b}) /\ idx[coins'].known
                               /\ coins' = IF NoBlock \in Blocks THEN NoBlock ELSE tip
  <2> SUFFICES ASSUME "index" \notin faults
               PROVE  InMemory(idx, setDirtyBlockIndex \cup {b}) /\ idx[coins'].known
                      /\ coins' = IF NoBlock \in Blocks THEN NoBlock ELSE tip
    BY Zenon
  <2>1. InMemory(index, setDirtyBlockIndex) /\ Coins /\ pc.next = NoBlock
    BY Zenon, <1>1 DEF Inv, Types, Up, Running
  <2>2. \A c \in Blocks : (idx[c].known <=> (index[c].known \/ c = b)) /\ (idx[c].failed <=> index[c].failed)
    BY Zenon, <1>2, <1>4 DEF IsIndex, HasEntry
  <2>3. \A c \in Blocks : idx[c].data # NoPos => idx[c].known
    BY Zenon, <1>4, <2>1 DEF InMemory, Sound, HasEntry
  <2>4. \A c \in Blocks \ {Genesis} : Parent[c] \in Blocks /\ (idx[c].known => idx[Parent[c]].known)
    BY Zenon, <1>1, <2>1, <2>2, BlockStoreAssumption DEF InMemory, Sound
  <2>5. Sound(idx)
    BY Zenon, <2>1, <2>2, <2>3, <2>4 DEF InMemory, Sound
  <2>6. InMemory(idx, setDirtyBlockIndex \cup {b})
    BY Zenon, <2>1, <2>2, <2>5 DEF InMemory
  <2>7. idx[coins'].known /\ coins' = tip
    BY Zenon, <1>1, <1>2, <2>1, <2>2 DEF Coins
  <2> QED BY Zenon, <1>2, <2>6, <2>7
<1> QED BY Zenon, <1>1, <1>2, <1>4, <1>5, FlushStep DEF HasEntry


\* A block is connected: its undo data is new or was there before.
LEMMA ConnectStep ==
    ASSUME Inv, NEW b \in Blocks, ConnectTip(b)
    PROVE  Inv'
<1> DEFINE new == index[b].undo = NoPos
<1> DEFINE pos == <<index[b].data[1], vinfoBlockFile[index[b].data[1]].nUndoSize>>
<1> DEFINE idx == IF new THEN Undone(index, b, pos) ELSE index
<1>1. /\ Running /\ b # Genesis /\ index[b].data # NoPos /\ coins' = b
      /\ \E info, df, check, db : setDirtyBlockIndex \subseteq db
             /\ FlushStateToDisk("IF_NEEDED", b, idx, info, nLastBlockFile, db, df, check)
      /\ UNCHANGED <<dbIndex, dbCoins, prevCoins, faults>>
  <2> DEFINE f == index[b].data[1]
  <2>1. FlushStateToDisk("IF_NEEDED", b, idx,
            IF new THEN UndoCounted(vinfoBlockFile, f) ELSE vinfoBlockFile,
            nLastBlockFile,
            IF new THEN setDirtyBlockIndex \cup {b} ELSE setDirtyBlockIndex,
            IF new THEN setDirtyFileInfo \cup {f} ELSE setDirtyFileInfo,
            fCheckForPruning \/ (new /\ fPruneMode))
    BY Zenon DEF ConnectTip, Undone
  <2>2. setDirtyBlockIndex \subseteq IF new THEN setDirtyBlockIndex \cup {b} ELSE setDirtyBlockIndex
    BY Zenon
  <2>3. \E info, df, check, db : setDirtyBlockIndex \subseteq db
            /\ FlushStateToDisk("IF_NEEDED", b, idx, info, nLastBlockFile, db, df, check)
    <3> HIDE DEF idx, f, new
    <3> QED BY <2>1, <2>2, Zenon
  <2> HIDE DEF idx, new
  <2> QED BY Zenon, <2>3 DEF ConnectTip, OnTheWay, Readable, dbVars, faultVars
<1> HIDE DEF pos
<1>2. PICK info, df, check, db : setDirtyBlockIndex \subseteq db
          /\ FlushStateToDisk("IF_NEEDED", b, idx, info, nLastBlockFile, db, df, check)
  BY Zenon, <1>1
<1>3. IsIndex(index) /\ b \in Nexts /\ coins' \in Blocks /\ index[b].known \in BOOLEAN /\ index[b].failed \in BOOLEAN
  BY Zenon, <1>1 DEF Inv, Types, Nexts, IsIndex
<1>4. IsIndex(idx) /\ \A c \in Blocks :
          idx[c].known = index[c].known /\ idx[c].data = index[c].data /\ idx[c].failed = index[c].failed
  <2>1. CASE new
    <3>1. idx = Entry(index, b, index[b].known, index[b].data, pos, index[b].failed)
      BY Zenon, <1>3, <2>1, UpdateFacts
    <3>2. HasEntry(idx, index, b, index[b].known, index[b].data, pos, index[b].failed)
      BY Zenon, <1>1, <1>3, <3>1, EntryFacts
    <3> HIDE DEF idx
    <3> QED BY Zenon, <3>2 DEF HasEntry
  <2>2. CASE ~new
    BY Zenon, <1>3, <2>2
  <2> QED BY Zenon, <2>1, <2>2
<1> HIDE DEF idx, new
<1>5. "index" \notin faults => InMemory(idx, db) /\ idx[coins'].known
                               /\ coins' = IF b \in Blocks THEN b ELSE tip
  <2> SUFFICES ASSUME "index" \notin faults
               PROVE  InMemory(idx, db) /\ idx[coins'].known
    BY Zenon, <1>1
  <2>1. InMemory(index, setDirtyBlockIndex)
    BY Zenon, <1>1 DEF Inv, Up, Running
  <2>2. Sound(idx)
    BY Zenon, <1>4, <2>1, BlockStoreAssumption DEF InMemory, Sound
  <2>3. InMemory(idx, db)
    BY Zenon, <1>2, <1>4, <2>1, <2>2 DEF InMemory
  <2>4. idx[b].known
    BY Zenon, <1>1, <1>4, <2>1 DEF InMemory, Sound
  <2> QED BY Zenon, <1>1, <2>3, <2>4
<1> QED BY Zenon, <1>1, <1>2, <1>3, <1>4, <1>5, FlushStep

\* The undo data cannot be written, or the coins are ahead of the tip, which
\* takes a failed write of the index.
LEMMA NotConnectedStep ==
    ASSUME Inv, NEW b \in Blocks, ConnectWithoutUndo(b) \/ ConnectFails(b)
    PROVE  Inv'
<1>1. CASE ConnectWithoutUndo(b)
  <2>1. UNCHANGED <<index, setDirtyBlockIndex, coins, tip, pc, dbIndex, dbCoins, prevCoins, faults>>
    BY Zenon, <1>1 DEF ConnectWithoutUndo, dbVars
  <2>2. Types' /\ (OnDisk <=> OnDisk') /\ (Up <=> Up') /\ (Coins <=> Coins') /\ (NoneFailed <=> NoneFailed')
    BY SMTT(30), <2>1 DEF Inv, Types, OnDisk, Sound, Coins, IsIndex, Up, Running, NoneFailed
  <2>3. InMemory(index, setDirtyBlockIndex) => (InMemory(index, setDirtyBlockIndex))'
    BY Zenon, <2>1 DEF InMemory, Sound
  <2> QED BY Zenon, <2>1, <2>2, <2>3 DEF Inv
<1>2. CASE ConnectFails(b)
  <2>1. /\ Running /\ Parent[b] = tip /\ coins # Parent[b] /\ index' = Failed(index, b)
        /\ UNCHANGED <<coins, tip, pc, dbIndex, dbCoins, prevCoins, faults>>
    BY Zenon, <1>2 DEF ConnectFails, OnTheWay, Failed, dbVars, faultVars
  <2>2. "index" \in faults
    BY Zenon, <2>1, BlockStoreAssumption DEF Inv, Types, Running, Up, Coins
  <2>3. IsIndex(index) /\ index[b].known \in BOOLEAN /\ (b = Genesis => index[b].undo = NoPos)
    BY Zenon DEF Inv, Types, IsIndex
  <2>4. index' = Entry(index, b, index[b].known, index[b].data, index[b].undo, TRUE)
    BY Zenon, <2>1, <2>3, UpdateFacts
  <2>5. IsIndex(index')
    <3>1. HasEntry(index', index, b, index[b].known, index[b].data, index[b].undo, TRUE)
      BY Zenon, <2>3, <2>4, EntryFacts
    <3> QED BY Zenon, <3>1 DEF HasEntry
  <2>6. Types'
    BY Zenon, <2>1, <2>5 DEF Inv, Types, IsIndex, Running
  <2> QED BY Zenon, <2>1, <2>2, <2>6 DEF Inv
<1> QED BY Zenon, <1>1, <1>2

-----------------------------------------------------------------------------
(* The steps of FlushStateToDisk.                                          *)

\* pc moves on inside FlushStateToDisk.
LEMMA AdvanceFacts ==
    ASSUME Inv, NEW s, pc' = [pc EXCEPT !.at = s]
    PROVE  /\ pc'.at = s /\ pc'.next = pc.next
           /\ pc' = [at |-> pc'.at, full |-> pc'.full, prune |-> pc'.prune, next |-> pc'.next]
<1> DEFINE a == pc.at
<1> DEFINE f == pc.full
<1> DEFINE p == pc.prune
<1> DEFINE n == pc.next
<1>1. pc = [at |-> a, full |-> f, prune |-> p, next |-> n]
  BY Zenon DEF Inv, Types
<1> HIDE DEF a, f, p, n
<1>2. pc' = [at |-> s, full |-> f, prune |-> p, next |-> n]
  BY Zenon, <1>1
<1>3. pc'.at = s /\ pc'.full = f /\ pc'.prune = p /\ pc'.next = n
  BY <1>2
<1> QED BY Zenon, <1>2, <1>3 DEF n

\* FlushBlockFile and UnlinkPrunedFiles change files only.
LEMMA FileStep ==
    ASSUME Inv, FlushBlockFile \/ UnlinkPrunedFiles
    PROVE  Inv'
<1>1. /\ UNCHANGED <<index, setDirtyBlockIndex, coins, tip, dbIndex, dbCoins, prevCoins, faults>>
      /\ \/ pc.at = "sync" /\ pc' = [pc EXCEPT !.at = "index"]
         \/ pc.at = "unlink" /\ pc' = [pc EXCEPT !.at = "coins"]
  BY Zenon DEF FlushBlockFile, UnlinkPrunedFiles, memVars, dbVars, faultVars
<1>2. /\ \/ pc.at = "sync" /\ pc'.at = "index"
         \/ pc.at = "unlink" /\ pc'.at = "coins"
      /\ pc'.next = pc.next
      /\ pc' = [at |-> pc'.at, full |-> pc'.full, prune |-> pc'.prune, next |-> pc'.next]
  BY Zenon, <1>1, AdvanceFacts
<1>3. Types'
  BY Zenon, <1>1, <1>2 DEF Inv, Types, IsIndex, Running, Nexts
<1>4. ASSUME "index" \notin faults' PROVE OnDisk' /\ NoneFailed' /\ (InMemory(index, setDirtyBlockIndex))' /\ Coins'
  <2>1. OnDisk /\ InMemory(index, setDirtyBlockIndex) /\ Coins
    BY Zenon, <1>1, <1>2, <1>4 DEF Inv, Up
  <2> QED BY Zenon, <1>1, <1>2, <2>1 DEF OnDisk, InMemory, Sound, Coins, NoneFailed
<1> QED BY Zenon, <1>3, <1>4 DEF Inv

\* Returned: pc is a record again, and UpdateTip has been called with next.
LEMMA ReturnFacts ==
    ASSUME NEW s, pc' = At(s)
    PROVE  /\ pc'.at = s /\ pc'.next = NoBlock
           /\ pc' = [at |-> pc'.at, full |-> pc'.full, prune |-> pc'.prune, next |-> pc'.next]
<1>1. pc' = [at |-> s, full |-> FALSE, prune |-> {}, next |-> NoBlock]
  BY Zenon DEF At
<1>2. pc'.at = s /\ pc'.prune = {} /\ pc'.next = NoBlock
  BY <1>1
<1>3. pc'.full = FALSE
  BY <1>1
<1>4. pc' = [at |-> pc'.at, full |-> pc'.full, prune |-> pc'.prune, next |-> pc'.next]
  BY <1>1, <1>2, <1>3, Zenon
<1> QED BY Zenon, <1>2, <1>4

\* The batch is written: the database knows what memory knows.
LEMMA WriteBatchStep ==
    ASSUME Inv, WriteBatchSync
    PROVE  Inv'
<1>1. /\ pc.at = "index" /\ setDirtyBlockIndex' = {}
      /\ dbIndex' = [b \in Blocks |-> IF b \in setDirtyBlockIndex THEN index[b] ELSE dbIndex[b]]
      /\ UNCHANGED <<index, coins, dbCoins, prevCoins, faults>>
      /\ \/ pc' = [pc EXCEPT !.at = IF pc.prune # {} THEN "unlink" ELSE "coins"] /\ UNCHANGED tip
         \/ Returned(pc.next)
  BY Zenon DEF WriteBatchSync, faultVars
<1>2. \/ /\ pc'.at \in {"unlink", "coins"} /\ pc'.next = pc.next /\ UNCHANGED tip
         /\ pc' = [at |-> pc'.at, full |-> pc'.full, prune |-> pc'.prune, next |-> pc'.next]
      \/ /\ pc'.at \in {"run", "down"} /\ pc'.next = NoBlock
         /\ tip' = (IF pc.next \in Blocks THEN pc.next ELSE tip)
         /\ pc' = [at |-> pc'.at, full |-> pc'.full, prune |-> pc'.prune, next |-> pc'.next]
  <2>1. CASE pc' = [pc EXCEPT !.at = IF pc.prune # {} THEN "unlink" ELSE "coins"] /\ UNCHANGED tip
    BY Zenon, <2>1, AdvanceFacts
  <2>2. CASE Returned(pc.next)
    BY Zenon, <2>2, ReturnFacts DEF Returned
  <2> QED BY Zenon, <1>1, <2>1, <2>2
<1>3. /\ \A b \in Blocks : dbIndex'[b] = IF b \in setDirtyBlockIndex THEN index[b] ELSE dbIndex[b]
      /\ dbIndex' = [b \in Blocks |-> dbIndex'[b]]
  BY Zenon, <1>1
<1>4. IsIndex(dbIndex')
  <2>1. \A b \in Blocks : dbIndex'[b] = index[b] \/ dbIndex'[b] = dbIndex[b]
    BY Zenon, <1>3
  <2>2. ASSUME NEW b \in Blocks
        PROVE  /\ dbIndex'[b] = [known |-> dbIndex'[b].known, data |-> dbIndex'[b].data,
                                 undo |-> dbIndex'[b].undo, failed |-> dbIndex'[b].failed]
               /\ dbIndex'[b].known \in BOOLEAN /\ dbIndex'[b].failed \in BOOLEAN
               /\ b = Genesis => dbIndex'[b].undo = NoPos
    <3>1. CASE dbIndex'[b] = index[b]
      BY <3>1, Zenon DEF Inv, Types, IsIndex
    <3>2. CASE dbIndex'[b] = dbIndex[b]
      BY <3>2, Zenon DEF Inv, Types, IsIndex
    <3> QED BY Zenon, <2>1, <3>1, <3>2
  <2> QED BY Zenon, <1>3, <2>2, BlockStoreAssumption DEF IsIndex
<1>5. Types'
  <2>1. IsIndex(index')
    BY Zenon, <1>1 DEF Inv, Types
  <2>2. coins' \in Blocks /\ tip' \in Blocks /\ dbCoins' \in Blocks /\ prevCoins' \in Blocks
    BY Zenon, <1>1, <1>2 DEF Inv, Types
  <2>3. pc'.next \in Nexts /\ (Running' => pc'.next = NoBlock)
    BY Zenon, <1>1, <1>2 DEF Inv, Types, Running, Nexts
  <2> QED BY Zenon, <1>2, <1>4, <2>1, <2>2, <2>3 DEF Types
<1>6. ASSUME "index" \notin faults' PROVE OnDisk' /\ NoneFailed' /\ (Up' => (InMemory(index, setDirtyBlockIndex))' /\ Coins')
  <2>1. OnDisk /\ InMemory(index, setDirtyBlockIndex) /\ Coins
    BY Zenon, <1>1, <1>6 DEF Inv, Up
  <2>2. \A b \in Blocks : (dbIndex'[b].known <=> index[b].known)
    BY Zenon, <1>3, <1>4, <2>1 DEF InMemory, Inv, Types, IsIndex
  <2>3. \A b \in Blocks : (dbIndex'[b].data # NoPos => dbIndex'[b].known) /\ ~dbIndex'[b].failed
    BY Zenon, <1>3, <2>1, <2>2 DEF InMemory, OnDisk, Sound
  <2>4. Sound(dbIndex')
    BY Zenon, <2>1, <2>2, <2>3, BlockStoreAssumption DEF InMemory, Sound
  <2>5. OnDisk'
    BY Zenon, <1>1, <2>1, <2>2, <2>4 DEF OnDisk, InMemory, Inv, Types
  <2>6. (InMemory(index, setDirtyBlockIndex))'
    BY Zenon, <1>1, <2>1, <2>2 DEF InMemory, Sound
  <2>7. Coins'
    BY Zenon, <1>1, <1>2, <2>1, <2>2, BlockStoreAssumption DEF Coins, Inv, Types
  <2>8. NoneFailed'
    BY Zenon, <2>6 DEF InMemory, Sound, NoneFailed
  <2> QED BY Zenon, <2>5, <2>6, <2>7, <2>8
<1> QED BY Zenon, <1>5, <1>6 DEF Inv

\* The batch is not written.
LEMMA WriteFailsStep ==
    ASSUME Inv, WriteBatchFails
    PROVE  Inv'
<1>1. /\ UNCHANGED <<index, coins, tip, dbIndex, dbCoins, prevCoins>> /\ "index" \in faults'
      /\ pc' = At(IF pc.next = "exit" THEN "down" ELSE "run")
  BY Zenon DEF WriteBatchFails, dbVars
<1>2. pc'.next = NoBlock /\ pc' = [at |-> pc'.at, full |-> pc'.full, prune |-> pc'.prune, next |-> pc'.next]
  BY Zenon, <1>1, ReturnFacts
<1>3. Types'
  BY Zenon, <1>1, <1>2 DEF Inv, Types, IsIndex, Nexts
<1> QED BY Zenon, <1>1, <1>3 DEF Inv

\* The coins are written.
LEMMA FlushCoinsStep ==
    ASSUME Inv, FlushCoins
    PROVE  Inv'
<1>1. /\ pc.at = "coins" /\ dbCoins' = coins /\ prevCoins' = dbCoins
      /\ tip' = IF pc.next \in Blocks THEN pc.next ELSE tip
      /\ pc' = At(IF pc.next = "exit" THEN "down" ELSE "run")
      /\ UNCHANGED <<index, setDirtyBlockIndex, coins, dbIndex, faults>>
  BY Zenon DEF FlushCoins, Returned, faultVars
<1>2. /\ pc'.next = NoBlock /\ pc'.at \in {"run", "down"}
      /\ pc' = [at |-> pc'.at, full |-> pc'.full, prune |-> pc'.prune, next |-> pc'.next]
  BY Zenon, <1>1, ReturnFacts
<1>3. Types'
  BY Zenon, <1>1, <1>2 DEF Inv, Types, IsIndex, Nexts
<1>4. ASSUME "index" \notin faults' PROVE OnDisk' /\ NoneFailed' /\ (InMemory(index, setDirtyBlockIndex))' /\ Coins'
  <2>1. OnDisk /\ InMemory(index, setDirtyBlockIndex) /\ Coins /\ dbIndex[coins].known
    BY Zenon, <1>1, <1>4 DEF Inv, Up, Coins
  <2>2. OnDisk' /\ (InMemory(index, setDirtyBlockIndex))'
    BY Zenon, <1>1, <2>1 DEF OnDisk, InMemory, Sound
  <2>3. Coins'
    BY Zenon, <1>1, <1>2, <2>1, BlockStoreAssumption DEF Coins
  <2>4. NoneFailed'
    BY Zenon, <2>2 DEF InMemory, Sound, NoneFailed
  <2> QED BY Zenon, <2>2, <2>3, <2>4
<1> QED BY Zenon, <1>3, <1>4 DEF Inv

-----------------------------------------------------------------------------
(* Crash and restart.                                                      *)

\* Any crash leaves the databases as they are, or with the coins before the
\* last write.
LEMMA CrashedStep ==
    ASSUME Inv, CrashStep
    PROVE  Inv'
<1>1. PICK c \in {prevCoins, dbCoins} : \E lost, lostUndo : Crash(lost, lostUndo, c)
  BY Zenon DEF CrashStep
<1>2. /\ UNCHANGED <<index, coins, tip, dbIndex>> /\ dbCoins' = c /\ prevCoins' = c
      /\ pc' = At("down") /\ faults \subseteq faults'
  BY Zenon, <1>1 DEF Crash, memVars
<1>3. /\ pc'.next = NoBlock /\ pc'.at = "down"
      /\ pc' = [at |-> pc'.at, full |-> pc'.full, prune |-> pc'.prune, next |-> pc'.next]
  BY Zenon, <1>2, ReturnFacts
<1>4. Types'
  BY Zenon, <1>2, <1>3 DEF Inv, Types, IsIndex, Nexts
<1>5. "index" \notin faults' => OnDisk' /\ NoneFailed' /\ ~Up'
  BY Zenon, <1>2, <1>3 DEF Inv, OnDisk, Sound, Up, NoneFailed
<1> QED BY Zenon, <1>4, <1>5 DEF Inv

\* Memory is what the databases say.
LEMMA RestartStep ==
    ASSUME Inv, Restart
    PROVE  Inv'
<1>1. /\ index' = dbIndex /\ setDirtyBlockIndex' = {} /\ coins' = dbCoins /\ tip' = dbCoins
      /\ pc' = At(IF Loads THEN "run" ELSE "corrupt")
      /\ UNCHANGED <<dbIndex, dbCoins, prevCoins, faults>>
  BY Zenon DEF Restart, dbVars, faultVars
<1>2. /\ pc'.next = NoBlock /\ pc'.at \in {"run", "corrupt"}
      /\ pc' = [at |-> pc'.at, full |-> pc'.full, prune |-> pc'.prune, next |-> pc'.next]
  BY Zenon, <1>1, ReturnFacts
<1>3. Types'
  BY Zenon, <1>1, <1>2 DEF Inv, Types, IsIndex, Nexts
<1>4. ASSUME "index" \notin faults' PROVE OnDisk' /\ NoneFailed' /\ (InMemory(index, setDirtyBlockIndex))' /\ Coins'
  <2>1. OnDisk
    BY Zenon, <1>1, <1>4 DEF Inv
  <2>2. OnDisk' /\ (InMemory(index, setDirtyBlockIndex))'
    BY Zenon, <1>1, <2>1 DEF OnDisk, InMemory, Sound
  <2>3. Coins'
    BY Zenon, <1>1, <1>2, <2>1, BlockStoreAssumption DEF Coins, OnDisk
  <2>4. NoneFailed'
    BY Zenon, <2>2 DEF InMemory, Sound, NoneFailed
  <2> QED BY Zenon, <2>2, <2>3, <2>4
<1> QED BY Zenon, <1>3, <1>4 DEF Inv

\* An empty directory.
LEMMA InitInv == Init => Inv
<1> SUFFICES ASSUME Init PROVE Inv
  BY Zenon
<1>1. /\ index = [b \in Blocks |-> IF b = Genesis THEN [Unknown EXCEPT !.known = TRUE, !.data = <<0, 0>>] ELSE Unknown]
      /\ dbIndex = index /\ coins = Genesis /\ tip = Genesis /\ dbCoins = Genesis /\ prevCoins = Genesis
      /\ pc = [at |-> "run", full |-> FALSE, prune |-> {}, next |-> NoBlock]
  BY Zenon DEF Init, At
<1>2. [Unknown EXCEPT !.known = TRUE, !.data = <<0, 0>>] = [known |-> TRUE, data |-> <<0, 0>>, undo |-> NoPos, failed |-> FALSE]
  <2>1. ASSUME NEW n, NEW k, NEW d
        PROVE  [[known |-> n, data |-> NoPos, undo |-> NoPos, failed |-> n] EXCEPT !.known = k, !.data = d]
                   = [known |-> k, data |-> d, undo |-> NoPos, failed |-> n]
    <3>1. [[known |-> n, data |-> NoPos, undo |-> NoPos, failed |-> n] EXCEPT !.known = k]
              = [known |-> k, data |-> NoPos, undo |-> NoPos, failed |-> n]
      OBVIOUS
    <3>2. [[known |-> k, data |-> NoPos, undo |-> NoPos, failed |-> n] EXCEPT !.data = d]
              = [known |-> k, data |-> d, undo |-> NoPos, failed |-> n]
      OBVIOUS
    <3> QED BY <3>1, <3>2, Zenon
  <2> QED BY <2>1, Zenon DEF Unknown
<1>3. \A b \in Blocks : index[b] = IF b = Genesis THEN [known |-> TRUE, data |-> <<0, 0>>, undo |-> NoPos, failed |-> FALSE]
                                    ELSE [known |-> FALSE, data |-> NoPos, undo |-> NoPos, failed |-> FALSE]
  BY Zenon, <1>1, <1>2 DEF Unknown
<1>4. ASSUME NEW b \in Blocks
      PROVE  /\ (index[b].known <=> b = Genesis) /\ index[b].known \in BOOLEAN
             /\ index[b].undo = NoPos /\ index[b].failed = FALSE
             /\ b # Genesis => index[b].data = NoPos
             /\ index[b] = [known |-> index[b].known, data |-> index[b].data,
                            undo |-> index[b].undo, failed |-> index[b].failed]
  <2>1. CASE b = Genesis
    <3>1. index[b] = [known |-> TRUE, data |-> <<0, 0>>, undo |-> NoPos, failed |-> FALSE]
      BY Zenon, <1>3, <2>1
    <3>2. index[b].known = TRUE /\ index[b].data = <<0, 0>> /\ index[b].undo = NoPos /\ index[b].failed = FALSE
      BY <3>1
    <3>3. index[b] = [known |-> index[b].known, data |-> index[b].data, undo |-> index[b].undo, failed |-> index[b].failed]
      BY <3>1, <3>2, Zenon
    <3> QED BY Zenon, <2>1, <3>2, <3>3
  <2>2. CASE b # Genesis
    <3>1. index[b] = [known |-> FALSE, data |-> NoPos, undo |-> NoPos, failed |-> FALSE]
      BY Zenon, <1>3, <2>2
    <3>2. index[b].known = FALSE /\ index[b].data = NoPos /\ index[b].undo = NoPos /\ index[b].failed = FALSE
      BY <3>1
    <3>3. index[b] = [known |-> index[b].known, data |-> index[b].data, undo |-> index[b].undo, failed |-> index[b].failed]
      BY <3>1, <3>2, Zenon
    <3> QED BY Zenon, <2>2, <3>2, <3>3
  <2> QED BY Zenon, <2>1, <2>2
<1>5. IsIndex(index)
  BY Zenon, <1>1, <1>4, BlockStoreAssumption DEF IsIndex
<1>6. pc.at = "run" /\ pc.next = NoBlock /\ pc = [at |-> pc.at, full |-> pc.full, prune |-> pc.prune, next |-> pc.next]
  BY Zenon, <1>1
<1>7. Types
  BY Zenon, <1>1, <1>5, <1>6, BlockStoreAssumption DEF Types, Nexts
<1>8. Sound(index)
  BY Zenon, <1>4, BlockStoreAssumption DEF Sound
<1>9. OnDisk /\ InMemory(index, setDirtyBlockIndex) /\ Coins
  BY Zenon, <1>1, <1>4, <1>6, <1>8, BlockStoreAssumption DEF OnDisk, InMemory, Coins
<1> QED BY Zenon, <1>7, <1>8, <1>9 DEF Inv, Sound, NoneFailed

\* Every step keeps the invariant.
LEMMA StepInv == Inv /\ [Next]_vars => Inv'
<1> SUFFICES ASSUME Inv, [Next]_vars PROVE Inv'
  BY Zenon
<1>1. CASE UNCHANGED vars
  <2>1. UNCHANGED <<index, setDirtyBlockIndex, coins, tip, pc, dbIndex, dbCoins, prevCoins, faults>>
    BY Zenon, <1>1 DEF vars, memVars, dbVars, faultVars
  <2>2. Types' /\ (OnDisk <=> OnDisk') /\ (Up <=> Up') /\ (Coins <=> Coins') /\ (NoneFailed <=> NoneFailed')
    BY SMTT(30), <2>1 DEF Inv, Types, OnDisk, Sound, Coins, IsIndex, Up, Running, NoneFailed
  <2>3. InMemory(index, setDirtyBlockIndex) => (InMemory(index, setDirtyBlockIndex))'
    BY Zenon, <2>1 DEF InMemory, Sound
  <2> QED BY Zenon, <2>1, <2>2, <2>3 DEF Inv
<1>2. CASE \E b \in Blocks : ConnectTip(b) \/ ConnectWithoutUndo(b) \/ ConnectFails(b)
                             \/ \E written \in BOOLEAN : AcceptBlock(b, written)
  BY Zenon, <1>2, ConnectStep, NotConnectedStep, AcceptStep
<1>3. CASE FlushBlockFile \/ WriteBatchSync \/ WriteBatchFails \/ UnlinkPrunedFiles \/ FlushCoins
  BY Zenon, <1>3, FileStep, WriteBatchStep, WriteFailsStep, FlushCoinsStep
<1>4. CASE DisconnectTip \/ Flush("PERIODIC", NoBlock) \/ Flush("ALWAYS", "exit")
  BY Zenon, <1>4, DisconnectStep, FlushOnly
<1>5. CASE CrashStep \/ Restart
  BY Zenon, <1>5, CrashedStep, RestartStep
<1> QED BY Zenon, <1>1, <1>2, <1>3, <1>4, <1>5 DEF Next

-----------------------------------------------------------------------------
(* Theorems.                                                               *)

\* The invariant holds in every reachable state.
THEOREM Invariance == Spec => []Inv
<1> QED BY InitInv, StepInv, PTL DEF Spec

\* As long as no write of the block index has failed, the blocks the coins
\* database belongs to, before and after its last write, are in the block
\* index database with all their ancestors: FlushStateToDisk writes the index
\* first, and what it writes is never behind what pcoinsTip has reached.
THEOREM CoinsWithinIndex == Spec => []CoinsTipIndexed
<1>1. Inv => CoinsTipIndexed
  BY Zenon DEF Inv, OnDisk, Sound, CoinsTipIndexed
<1> QED BY <1>1, Invariance, PTL

\* As long as no write of the block index has failed, pcoinsTip is at the
\* tip whenever ConnectTip starts, so that no valid block is marked as failed.
THEOREM NoValidBlockFails == Spec => []ValidUnlessWriteFailed
<1>1. Inv => ValidUnlessWriteFailed
  BY Zenon DEF Inv, NoneFailed, ValidUnlessWriteFailed
<1> QED BY <1>1, Invariance, PTL

-----------------------------------------------------------------------------
(* Types.                                                                  *)

\* A set of natural numbers that is not empty has a least element.
LEMMA LeastNat ==
    ASSUME NEW S, S \subseteq Nat, S # {}
    PROVE  \E n \in S : \A m \in S : n <= m
<1> DEFINE R == OpToRel(<, Nat)
<1>1. IsWellFoundedOn(R, Nat)
  BY Zenon, NatLessThanWellFounded
<1>2. \A x, y : <<x, y>> \in R <=> x \in Nat /\ y \in Nat /\ x < y
  BY Zenon DEF OpToRel
<1> HIDE DEF R
<1>3. PICK x \in S : \A y \in S : ~ (<<y, x>> \in R)
  BY <1>1, WFMin, Zenon
<1>4. ASSUME NEW y \in S PROVE x <= y
  <2>1. ~(y < x) /\ x \in Nat /\ y \in Nat
    BY <1>2, <1>3, Zenon
  <2> QED BY <2>1
<1> QED
  BY <1>4, Zenon

\* FindFilesToPrune finds files before the last one only, none of them with
\* a block that is to be kept: its loop, a recursive function, is solved and
\* looked at by induction on the file.
LEMMA PrunedBefore ==
    ASSUME NEW info, NEW last \in Nat
    PROVE  /\ FindFilesToPrune(info, last) \subseteq {f \in Nat : f < last}
           /\ \A f \in FindFilesToPrune(info, last) : ~(info[f].nHeightLast > nLastBlockWeCanPrune)
<1> DEFINE size(f) == info[f].nSize + info[f].nUndoSize
           visit(acc, f) ==
               IF \/ info[f].nSize = 0
                  \/ acc.usage + nBuffer < nPruneTarget
                  \/ info[f].nHeightLast > nLastBlockWeCanPrune
               THEN acc
               ELSE [usage |-> acc.usage - size(f), found |-> acc.found \cup {f}]
           first == [usage |-> MapThenSumSet(size, Files), found |-> {}]
           St(g, n) == IF n = 0 THEN first ELSE visit(g[n - 1], n - 1)
           after == CHOOSE g : g = [n \in 0 .. last |-> St(g, n)]
<1>1. FindFilesToPrune(info, last) = IF Height[tip] <= nPruneAfterHeight THEN {} ELSE after[last].found
  BY Zenon DEF FindFilesToPrune
<1>2. ASSUME NEW acc, NEW f
      PROVE  \/ visit(acc, f).found = acc.found
             \/ visit(acc, f).found = acc.found \cup {f} /\ ~(info[f].nHeightLast > nLastBlockWeCanPrune)
  OBVIOUS
<1>3. first.found = {}
  OBVIOUS
<1> HIDE DEF visit, first
<1>4. \E g : g = [n \in 0 .. last |-> St(g, n)]
  <2> DEFINE Upto(g, n) == \A k \in 0 .. last : k <= n => g[k] = St(g, k)
             Fs == {n \in Nat : ~\E g : g = [k \in 0 .. last |-> g[k]] /\ Upto(g, n)}
  <2>1. Fs = {}
    <3> SUFFICES ASSUME Fs # {} PROVE FALSE
      BY Zenon
    <3>1. PICK n \in Fs : \A m \in Fs : n <= m
      <4>1. Fs \subseteq Nat
        BY Zenon
      <4> HIDE DEF Fs
      <4> QED BY <4>1, LeastNat, Zenon
    <3>2. CASE n = 0
      <4> DEFINE g == [k \in 0 .. last |-> first]
      <4>1. \A k \in 0 .. last : k <= 0 => k = 0
        OBVIOUS
      <4>2. Upto(g, n)
        BY Zenon, <3>2, <4>1
      <4>3. g = [k \in 0 .. last |-> g[k]]
        BY Zenon
      <4> QED BY Zenon, <3>1, <4>2, <4>3
    <3>3. CASE n # 0
      <4>1. n - 1 \in Nat /\ n - 1 \notin Fs
        BY <3>1, <3>3
      <4>2. PICK h : h = [k \in 0 .. last |-> h[k]] /\ Upto(h, n - 1)
        BY Zenon, <4>1
      <4> DEFINE g == [k \in 0 .. last |-> IF k = n THEN St(h, k) ELSE h[k]]
      <4>3. ASSUME NEW k \in 0 .. last, k <= n PROVE g[k] = St(g, k)
        <5>1. k # 0 => k - 1 \in 0 .. last /\ k - 1 # n
          BY <3>1, <4>3
        <5>2. k # 0 => g[k - 1] = h[k - 1]
          BY Zenon, <5>1
        <5>3. St(g, k) = St(h, k)
          BY <5>2
        <5>4. k # n => k <= n - 1
          BY <3>1, <4>3
        <5>5. k # n => h[k] = St(h, k)
          BY Zenon, <4>2, <5>4
        <5> HIDE DEF St
        <5> QED BY Zenon, <5>3, <5>5
      <4>4. g = [k \in 0 .. last |-> g[k]] /\ Upto(g, n)
        <5>1. Upto(g, n)
          BY <4>3, Zenon
        <5> QED BY Zenon, <5>1
      <4> HIDE DEF g
      <4> QED BY <3>1, <4>4, Zenon
    <3> QED BY Zenon, <3>2, <3>3
  <2>2. PICK g : g = [k \in 0 .. last |-> g[k]] /\ Upto(g, last)
    BY Zenon, <2>1
  <2>3. \A k \in 0 .. last : k <= last
    OBVIOUS
  <2>4. \A k \in 0 .. last : g[k] = St(g, k)
    BY Zenon, <2>2, <2>3
  <2>5. g = [k \in 0 .. last |-> St(g, k)]
    <3> HIDE DEF St, Upto
    <3> QED BY Zenon, <2>2, <2>4
  <2> QED BY Zenon, <2>5
<1>5. after = [n \in 0 .. last |-> St(after, n)]
  BY Zenon, <1>4
<1> HIDE DEF after
<1>6. \A n \in 0 .. last : after[n] = St(after, n)
  BY Zenon, <1>5
<1> DEFINE Bad == {n \in 0 .. last : ~(/\ after[n].found \subseteq {f \in Nat : f < n}
                                       /\ \A f \in after[n].found : ~(info[f].nHeightLast > nLastBlockWeCanPrune))}
<1>7. Bad = {}
  <2> SUFFICES ASSUME Bad # {} PROVE FALSE
    BY Zenon
  <2>1. Bad \subseteq Nat
    OBVIOUS
  <2>2. PICK n \in Bad : \A m \in Bad : n <= m
    <3> HIDE DEF Bad
    <3> QED BY <2>1, LeastNat, Zenon
  <2>3. CASE n = 0
    BY Zenon, <1>3, <1>6, <2>2, <2>3
  <2>4. CASE n # 0
    <3>1. n - 1 \in 0 .. last /\ n - 1 \notin Bad /\ n - 1 \in Nat /\ n \in Nat
      BY <2>2, <2>4
    <3>2. /\ after[n - 1].found \subseteq {f \in Nat : f < n - 1}
          /\ \A f \in after[n - 1].found : ~(info[f].nHeightLast > nLastBlockWeCanPrune)
      BY Zenon, <3>1
    <3>3. after[n] = visit(after[n - 1], n - 1)
      BY Zenon, <1>6, <2>2, <2>4
    <3> DEFINE k == n - 1
    <3>4. /\ after[n].found \subseteq after[k].found \cup {k}
          /\ k \in after[n].found /\ k \notin after[k].found => ~(info[k].nHeightLast > nLastBlockWeCanPrune)
      <4>1. \/ visit(after[k], k).found = after[k].found
            \/ /\ visit(after[k], k).found = after[k].found \cup {k}
               /\ ~(info[k].nHeightLast > nLastBlockWeCanPrune)
        BY Zenon, <1>2
      <4> HIDE DEF k
      <4>2. after[n] = visit(after[k], k)
        BY Zenon, <3>3 DEF k
      <4> QED BY Zenon, <4>1, <4>2
    <3>5. after[n].found \subseteq {f \in Nat : f < n}
      BY <3>1, <3>2, <3>4
    <3>6. \A f \in after[n].found : ~(info[f].nHeightLast > nLastBlockWeCanPrune)
      BY Zenon, <3>2, <3>4
    <3> QED BY Zenon, <2>2, <3>5, <3>6
  <2> QED BY Zenon, <2>3, <2>4
<1>8. last \in 0 .. last
  OBVIOUS
<1>9. /\ after[last].found \subseteq {f \in Nat : f < last}
      /\ \A f \in after[last].found : ~(info[f].nHeightLast > nLastBlockWeCanPrune)
  BY Zenon, <1>7, <1>8
<1> QED BY Zenon, <1>1, <1>9

\* FlushStateToDisk prunes some of the files before the last one and starts
\* writing, or returns when nothing was pruned.
LEMMA FlushParts ==
    ASSUME NEW mode, NEW next \in Nexts, NEW idx, NEW info, NEW last \in Nat, NEW db, NEW df, NEW check,
           FlushStateToDisk(mode, next, idx, info, last, db, df, check)
    PROVE  \E P : /\ P \subseteq {f \in Nat : f < last} /\ (~fPruneMode => P = {})
                  /\ index' = PruneIndex(idx, P) /\ vinfoBlockFile' = PruneInfo(info, P)
                  /\ nLastBlockFile' = last
                  /\ setDirtyBlockIndex' = db \cup InFiles(idx, P) /\ setDirtyFileInfo' = df \cup P
                  /\ fCheckForPruning' = (check /\ ~fPruneMode)
                  /\ \/ P = {} /\ Returned(next)
                     \/ \E full \in BOOLEAN : /\ pc' = [at |-> "sync", full |-> full, prune |-> P, next |-> next]
                                              /\ UNCHANGED tip
<1> DEFINE P == IF fPruneMode /\ check THEN FindFilesToPrune(info, last) ELSE {}
<1>1. P \subseteq {f \in Nat : f < last} /\ (~fPruneMode => P = {})
  BY Zenon, PrunedBefore
<1>2. /\ index' = PruneIndex(idx, P) /\ vinfoBlockFile' = PruneInfo(info, P)
      /\ nLastBlockFile' = last
      /\ setDirtyBlockIndex' = db \cup InFiles(idx, P) /\ setDirtyFileInfo' = df \cup P
      /\ fCheckForPruning' = (check /\ ~fPruneMode)
      /\ \E extent \in Extents(mode, P) :
             IF extent = "nothing" THEN Returned(next)
             ELSE /\ pc' = [at |-> "sync", full |-> extent = "full", prune |-> P, next |-> next]
                  /\ UNCHANGED tip
  BY Zenon DEF FlushStateToDisk
<1> HIDE DEF P
<1>3. PICK extent \in Extents(mode, P) :
          IF extent = "nothing" THEN Returned(next)
          ELSE /\ pc' = [at |-> "sync", full |-> extent = "full", prune |-> P, next |-> next]
               /\ UNCHANGED tip
  BY Zenon, <1>2
<1>4. extent = "nothing" => P = {}
  BY Zenon DEF Extents
<1>5. (extent = "full") \in BOOLEAN
  BY Zenon
<1>6. \/ P = {} /\ Returned(next)
      \/ \E full \in BOOLEAN : /\ pc' = [at |-> "sync", full |-> full, prune |-> P, next |-> next]
                               /\ UNCHANGED tip
  BY Zenon, <1>3, <1>4, <1>5
<1> QED BY Zenon, <1>1, <1>2, <1>6

\* The parts of an index entry and of a file info.
LEMMA RecordParts ==
    /\ \A e \in Entries : /\ e.known \in BOOLEAN /\ e.failed \in BOOLEAN
                          /\ e.data \in Places \cup {NoPos} /\ e.undo \in UndoPlaces \cup {NoPos}
    /\ \A k \in BOOLEAN, d \in Places \cup {NoPos}, u \in UndoPlaces \cup {NoPos}, f \in BOOLEAN :
           [known |-> k, data |-> d, undo |-> u, failed |-> f] \in Entries
    /\ \A i \in Infos : /\ i = [nSize |-> i.nSize, nUndoSize |-> i.nUndoSize, nHeightLast |-> i.nHeightLast]
                        /\ i.nSize \in 0 .. MAX_BLOCKFILE_SIZE /\ i.nUndoSize \in 0 .. MaxUndo /\ i.nHeightLast \in Nat
    /\ \A s \in 0 .. MAX_BLOCKFILE_SIZE, u \in 0 .. MaxUndo, h \in Nat :
           [nSize |-> s, nUndoSize |-> u, nHeightLast |-> h] \in Infos
<1>1. \A e \in Entries : /\ e.known \in BOOLEAN /\ e.failed \in BOOLEAN
                         /\ e.data \in Places \cup {NoPos} /\ e.undo \in UndoPlaces \cup {NoPos}
  BY Zenon DEF Entries
<1>2. \A k \in BOOLEAN, d \in Places \cup {NoPos}, u \in UndoPlaces \cup {NoPos}, f \in BOOLEAN :
          [known |-> k, data |-> d, undo |-> u, failed |-> f] \in Entries
  BY Zenon DEF Entries
<1>3. \A i \in Infos : /\ i = [nSize |-> i.nSize, nUndoSize |-> i.nUndoSize, nHeightLast |-> i.nHeightLast]
                       /\ i.nSize \in 0 .. MAX_BLOCKFILE_SIZE /\ i.nUndoSize \in 0 .. MaxUndo /\ i.nHeightLast \in Nat
  BY DEF Infos
<1>4. \A s \in 0 .. MAX_BLOCKFILE_SIZE, u \in 0 .. MaxUndo, h \in Nat :
          [nSize |-> s, nUndoSize |-> u, nHeightLast |-> h] \in Infos
  BY Zenon DEF Infos
<1> QED BY Zenon, <1>1, <1>2, <1>3, <1>4

\* The updates of a file info that the code makes.
Grown(info, f, h) == [info EXCEPT ![f].nSize = @ + 1, ![f].nHeightLast = Max({@, h})]

HasInfo(new, info, f, s, u) ==
    /\ new \in [Files -> Infos]
    /\ new[f].nSize = s /\ new[f].nUndoSize = u /\ info[f].nHeightLast <= new[f].nHeightLast
    /\ \A e \in Files : e # f => new[e] = info[e]

\* The greater of two heights is one of them, and not below the other.
LEMMA MaxOfTwo ==
    ASSUME NEW x \in Nat, NEW y \in Nat
    PROVE  Max({x, y}) \in Nat /\ x <= Max({x, y}) /\ y <= Max({x, y})
<1>1. \E m \in {x, y} : \A z \in {x, y} : m >= z
  OBVIOUS
<1>2. Max({x, y}) \in {x, y} /\ \A z \in {x, y} : Max({x, y}) >= z
  <2>1. Max({x, y}) = CHOOSE m \in {x, y} : \A z \in {x, y} : m >= z
    BY Zenon DEF Max
  <2> QED BY Zenon, <1>1, <2>1
<1> HIDE DEF Max
<1> QED BY <1>2

\* A block or undo data is appended to a file.
LEMMA InfoFacts ==
    ASSUME NEW info \in [Files -> Infos], NEW f \in Files, NEW h \in Nat
    PROVE  /\ info[f].nSize < MAX_BLOCKFILE_SIZE =>
                  /\ HasInfo(Grown(info, f, h), info, f, info[f].nSize + 1, info[f].nUndoSize)
                  /\ h <= Grown(info, f, h)[f].nHeightLast
           /\ info[f].nUndoSize < MaxUndo =>
                  HasInfo(UndoCounted(info, f), info, f, info[f].nSize, info[f].nUndoSize + 1)
<1> DEFINE s == info[f].nSize
           u == info[f].nUndoSize
           l == info[f].nHeightLast
<1>1. info[f] = [nSize |-> s, nUndoSize |-> u, nHeightLast |-> l]
      /\ s \in 0 .. MAX_BLOCKFILE_SIZE /\ u \in 0 .. MaxUndo /\ l \in Nat
  BY Zenon, RecordParts
<1>2. MAX_BLOCKFILE_SIZE \in Nat /\ MaxUndo \in Nat
  BY Zenon, BlockStoreAssumption
<1> HIDE DEF s, u, l
<1>3. ASSUME s < MAX_BLOCKFILE_SIZE
      PROVE  HasInfo(Grown(info, f, h), info, f, s + 1, u) /\ h <= Grown(info, f, h)[f].nHeightLast
  <2> DEFINE m == Max({l, h})
             r == [nSize |-> s + 1, nUndoSize |-> u, nHeightLast |-> m]
             new == [info EXCEPT ![f] = r]
  <2>1. m \in Nat /\ l <= m /\ h <= m
    BY Zenon, <1>1, MaxOfTwo
  <2> HIDE DEF m
  <2>2. s + 1 \in 0 .. MAX_BLOCKFILE_SIZE
    BY <1>1, <1>2, <1>3
  <2>3. r \in Infos
    BY Zenon, <1>1, <2>1, <2>2, RecordParts
  <2>4. r.nSize = s + 1 /\ r.nUndoSize = u /\ r.nHeightLast = m
    BY Zenon
  <2>5. Grown(info, f, h) = new
    <3> DEFINE r1 == [nSize |-> s + 1, nUndoSize |-> u, nHeightLast |-> l]
               one == [info EXCEPT ![f].nSize = @ + 1]
    <3>1. [info[f] EXCEPT !.nSize = s + 1] = r1
      BY SMT, <1>1
    <3>2. one = [info EXCEPT ![f] = [info[f] EXCEPT !.nSize = info[f].nSize + 1]]
      BY Zenon
    <3>3. one = [info EXCEPT ![f] = r1]
      BY Zenon, <3>1, <3>2 DEF s
    <3> HIDE DEF one
    <3>4. one[f] = r1 /\ one = [e \in Files |-> IF e = f THEN r1 ELSE info[e]]
      BY Zenon, <3>3
    <3>5. r1.nHeightLast = l /\ [r1 EXCEPT !.nHeightLast = m] = r
      BY SMT
    <3>6. Grown(info, f, h) = [one EXCEPT ![f] = [one[f] EXCEPT !.nHeightLast = Max({one[f].nHeightLast, h})]]
      BY Zenon DEF Grown, one
    <3>7. Grown(info, f, h) = [one EXCEPT ![f] = r]
      BY Zenon, <3>4, <3>5, <3>6 DEF m
    <3> HIDE DEF r, r1
    <3> QED BY Zenon, <3>4, <3>7
  <2> HIDE DEF r
  <2>6. new \in [Files -> Infos] /\ new[f] = r /\ \A e \in Files : e # f => new[e] = info[e]
    BY Zenon, <2>3
  <2> QED BY Zenon, <2>1, <2>4, <2>5, <2>6 DEF HasInfo, l
<1>4. ASSUME u < MaxUndo
      PROVE  HasInfo(UndoCounted(info, f), info, f, s, u + 1)
  <2> DEFINE r == [nSize |-> s, nUndoSize |-> u + 1, nHeightLast |-> l]
             new == [info EXCEPT ![f] = r]
  <2>1. u + 1 \in 0 .. MaxUndo
    BY <1>1, <1>2, <1>4
  <2>2. r \in Infos
    BY Zenon, <1>1, <2>1, RecordParts
  <2>3. r.nSize = s /\ r.nUndoSize = u + 1 /\ r.nHeightLast = l /\ l <= l
    <3>1. l <= l
      BY <1>1
    <3> QED BY Zenon, <3>1
  <2>4. UndoCounted(info, f) = new
    <3>1. [info[f] EXCEPT !.nUndoSize = u + 1] = r
      BY SMT, <1>1
    <3>2. UndoCounted(info, f) = [info EXCEPT ![f] = [info[f] EXCEPT !.nUndoSize = info[f].nUndoSize + 1]]
      BY Zenon DEF UndoCounted
    <3> QED BY Zenon, <3>1, <3>2 DEF u
  <2> HIDE DEF r
  <2>5. new \in [Files -> Infos] /\ new[f] = r /\ \A e \in Files : e # f => new[e] = info[e]
    BY Zenon, <2>2
  <2> QED BY Zenon, <2>3, <2>4, <2>5 DEF HasInfo, l
<1> QED BY Zenon, <1>3, <1>4 DEF s, u

\* TypeOK, one conjunct for each variable.
Flat ==
    /\ index \in [Blocks -> Entries] /\ dbIndex \in [Blocks -> Entries]
    /\ vinfoBlockFile \in [Files -> Infos] /\ dbInfo \in [Files -> Infos]
    /\ nLastBlockFile \in Files /\ dbLast \in Files
    /\ setDirtyBlockIndex \subseteq Blocks /\ setDirtyFileInfo \subseteq Files
    /\ fCheckForPruning \in BOOLEAN
    /\ coins \in Blocks /\ tip \in Blocks /\ dbCoins \in Blocks /\ prevCoins \in Blocks
    /\ pc \in PCs
    /\ blk \in [Places -> Blocks \cup {NoBlock}] /\ blkDisk \in [Places -> Blocks \cup {NoBlock}]
    /\ rev \in [UndoPlaces -> Blocks \cup {NoBlock}] /\ revDisk \in [UndoPlaces -> Blocks \cup {NoBlock}]
    /\ files \subseteq Files
    /\ outdated \subseteq {prevCoins, dbCoins}
    /\ faults \subseteq {"block", "index", "undo", "behind"}
    /\ nFaults \in 0 .. MaxFaults

\* It is the same.
LEMMA FlatTypes == TypeOK <=> Flat
BY Zenon DEF TypeOK, Flat

\* FindBlockPos finds a file with room, from the last one on.
LEMMA RoomFacts ==
    ASSUME Flat, vinfoBlockFile[MaxFile].nSize < MAX_BLOCKFILE_SIZE
    PROVE  /\ FileWithRoom \in Files /\ nLastBlockFile <= FileWithRoom
           /\ vinfoBlockFile[FileWithRoom].nSize < MAX_BLOCKFILE_SIZE
<1> DEFINE S == {f \in nLastBlockFile .. MaxFile : vinfoBlockFile[f].nSize < MAX_BLOCKFILE_SIZE}
<1>1. nLastBlockFile \in 0 .. MaxFile /\ MaxFile \in Nat /\ MAX_BLOCKFILE_SIZE \in Nat
  BY Zenon, BlockStoreAssumption DEF Flat, Files
<1>2. \A f \in nLastBlockFile .. MaxFile : f \in Files /\ f \in Nat /\ nLastBlockFile <= f
  BY <1>1 DEF Files
<1>3. S \subseteq Nat
  BY Zenon, <1>2
<1>4. MaxFile \in S
  BY <1>1
<1>5. PICK f \in S : \A e \in S : f <= e
  <2> HIDE DEF S
  <2> QED BY Zenon, <1>3, <1>4, LeastNat
<1>6. ASSUME NEW e \in nLastBlockFile .. (f - 1) PROVE vinfoBlockFile[e].nSize = MAX_BLOCKFILE_SIZE
  <2>1. e \in nLastBlockFile .. MaxFile /\ ~(f <= e)
    BY <1>1, <1>5
  <2>2. e \notin S
    BY Zenon, <1>5, <2>1
  <2>3. vinfoBlockFile[e].nSize \in 0 .. MAX_BLOCKFILE_SIZE
    BY Zenon, <1>2, <2>1, RecordParts DEF Flat
  <2>4. ~(vinfoBlockFile[e].nSize < MAX_BLOCKFILE_SIZE)
    BY Zenon, <2>1, <2>2
  <2> QED BY <1>1, <2>3, <2>4
<1>7. \E g \in nLastBlockFile .. MaxFile :
          /\ vinfoBlockFile[g].nSize < MAX_BLOCKFILE_SIZE
          /\ \A e \in nLastBlockFile .. (g - 1) : vinfoBlockFile[e].nSize = MAX_BLOCKFILE_SIZE
  BY Zenon, <1>5, <1>6
<1>8. /\ FileWithRoom \in nLastBlockFile .. MaxFile
      /\ vinfoBlockFile[FileWithRoom].nSize < MAX_BLOCKFILE_SIZE
  BY Zenon, <1>7 DEF FileWithRoom
<1> QED BY Zenon, <1>2, <1>8

\* An index and file infos without the files P.
Without(P, idx, info, newIdx, newInfo) ==
    /\ \A b \in Blocks : IF idx[b].data # NoPos /\ idx[b].data[1] \in P
                          THEN newIdx[b].data = NoPos /\ newIdx[b].undo = NoPos
                          ELSE newIdx[b] = idx[b]
    /\ \A f \in Files : newInfo[f] = IF f \in P THEN NullInfo ELSE info[f]

\* An index and file infos stay what they are when files are pruned.
LEMMA PruneTypes ==
    ASSUME NEW idx \in [Blocks -> Entries], NEW info \in [Files -> Infos], NEW P
    PROVE  /\ PruneIndex(idx, P) \in [Blocks -> Entries] /\ InFiles(idx, P) \subseteq Blocks
           /\ PruneInfo(info, P) \in [Files -> Infos]
           /\ Without(P, idx, info, PruneIndex(idx, P), PruneInfo(info, P))
<1>1. ASSUME NEW e \in Entries
      PROVE  /\ [e EXCEPT !.data = NoPos, !.undo = NoPos] \in Entries
             /\ [e EXCEPT !.data = NoPos, !.undo = NoPos].data = NoPos
             /\ [e EXCEPT !.data = NoPos, !.undo = NoPos].undo = NoPos
  <2> DEFINE k == e.known
             d == e.data
             u == e.undo
             f == e.failed
  <2>1. e = [known |-> k, data |-> d, undo |-> u, failed |-> f] /\ k \in BOOLEAN /\ f \in BOOLEAN
    BY SMT DEF Entries
  <2> HIDE DEF k, d, u, f
  <2>2. \A n : [[known |-> k, data |-> d, undo |-> u, failed |-> f] EXCEPT !.data = n]
                   = [known |-> k, data |-> n, undo |-> u, failed |-> f]
    BY SMT
  <2>3. \A n : [[known |-> k, data |-> n, undo |-> u, failed |-> f] EXCEPT !.undo = n]
                   = [known |-> k, data |-> n, undo |-> n, failed |-> f]
    BY SMT
  <2>4. [e EXCEPT !.data = NoPos, !.undo = NoPos] = [known |-> k, data |-> NoPos, undo |-> NoPos, failed |-> f]
    BY Zenon, <2>1, <2>2, <2>3
  <2>5. NoPos \in Places \cup {NoPos} /\ NoPos \in UndoPlaces \cup {NoPos}
    BY Zenon
  <2>6. [known |-> k, data |-> NoPos, undo |-> NoPos, failed |-> f] \in Entries
    BY Zenon, <2>1, <2>5, RecordParts
  <2>7. /\ [known |-> k, data |-> NoPos, undo |-> NoPos, failed |-> f].data = NoPos
        /\ [known |-> k, data |-> NoPos, undo |-> NoPos, failed |-> f].undo = NoPos
    BY SMT
  <2> QED BY Zenon, <2>4, <2>6, <2>7
<1>2. NullInfo \in Infos
  <2>1. 0 \in 0 .. MAX_BLOCKFILE_SIZE /\ 0 \in 0 .. MaxUndo /\ 0 \in Nat
    BY BlockStoreAssumption
  <2> QED BY Zenon, <2>1, RecordParts DEF NullInfo
<1> DEFINE new == PruneIndex(idx, P)
<1>3. new = [b \in Blocks |-> IF b \in InFiles(idx, P) THEN [idx[b] EXCEPT !.data = NoPos, !.undo = NoPos] ELSE idx[b]]
  BY Zenon DEF PruneIndex
<1> HIDE DEF new
<1>4. \A b \in Blocks : new[b] = IF b \in InFiles(idx, P) THEN [idx[b] EXCEPT !.data = NoPos, !.undo = NoPos] ELSE idx[b]
  BY Zenon, <1>3
<1>5. \A b \in Blocks : new[b] \in Entries
  BY Zenon, <1>1, <1>4
<1>6. new \in [Blocks -> Entries]
  BY Zenon, <1>3, <1>5
<1>7. ASSUME NEW b \in Blocks
      PROVE  IF b \in InFiles(idx, P) THEN new[b].data = NoPos /\ new[b].undo = NoPos ELSE new[b] = idx[b]
  <2>1. CASE b \in InFiles(idx, P)
    <3>1. new[b] = [idx[b] EXCEPT !.data = NoPos, !.undo = NoPos] /\ idx[b] \in Entries
      BY Zenon, <1>4, <2>1
    <3> QED BY Zenon, <1>1, <2>1, <3>1
  <2>2. CASE b \notin InFiles(idx, P)
    BY Zenon, <1>4, <2>2
  <2> QED BY Zenon, <2>1, <2>2
<1>8. \A b \in Blocks : b \in InFiles(idx, P) <=> idx[b].data # NoPos /\ idx[b].data[1] \in P
  BY Zenon DEF InFiles
<1>9. /\ PruneInfo(info, P) \in [Files -> Infos]
      /\ \A f \in Files : PruneInfo(info, P)[f] = IF f \in P THEN NullInfo ELSE info[f]
  BY Zenon, <1>2 DEF PruneInfo
<1>10. \A b \in Blocks : IF idx[b].data # NoPos /\ idx[b].data[1] \in P
                         THEN new[b].data = NoPos /\ new[b].undo = NoPos
                         ELSE new[b] = idx[b]
  BY Zenon, <1>7, <1>8
<1>11. InFiles(idx, P) \subseteq Blocks
  BY Zenon DEF InFiles
<1>12. Without(P, idx, info, new, PruneInfo(info, P))
  BY Zenon, <1>9, <1>10 DEF Without
<1> QED BY Zenon, <1>6, <1>9, <1>11, <1>12 DEF new

\* The types of what FlushStateToDisk is called with, and of what it leaves.
Typed(next, idx, info, last, db, df, check) ==
    /\ next \in Nexts /\ idx \in [Blocks -> Entries] /\ info \in [Files -> Infos] /\ last \in Files
    /\ db \subseteq Blocks /\ df \subseteq Files /\ check \in BOOLEAN

MemTypes ==
    /\ index \in [Blocks -> Entries] /\ vinfoBlockFile \in [Files -> Infos]
    /\ nLastBlockFile \in Files /\ setDirtyBlockIndex \subseteq Blocks
    /\ setDirtyFileInfo \subseteq Files /\ fCheckForPruning \in BOOLEAN
    /\ tip \in Blocks /\ pc \in PCs

\* FlushStateToDisk keeps them.
LEMMA FlushTypes ==
    ASSUME Flat, NEW mode, NEW next, NEW idx, NEW info, NEW last, NEW db, NEW df, NEW check,
           Typed(next, idx, info, last, db, df, check),
           FlushStateToDisk(mode, next, idx, info, last, db, df, check)
    PROVE  MemTypes'
<1> USE DEF Typed, MemTypes
<1>1. last \in Nat /\ \A f \in Nat : f < last => f \in Files
  BY BlockStoreAssumption DEF Files
<1>2. PICK P : /\ P \subseteq {f \in Nat : f < last} /\ (~fPruneMode => P = {})
               /\ index' = PruneIndex(idx, P) /\ vinfoBlockFile' = PruneInfo(info, P)
               /\ nLastBlockFile' = last
               /\ setDirtyBlockIndex' = db \cup InFiles(idx, P) /\ setDirtyFileInfo' = df \cup P
               /\ fCheckForPruning' = (check /\ ~fPruneMode)
               /\ \/ P = {} /\ Returned(next)
                  \/ \E full \in BOOLEAN : /\ pc' = [at |-> "sync", full |-> full, prune |-> P, next |-> next]
                                           /\ UNCHANGED tip
  BY Zenon, <1>1, FlushParts
<1>3. P \subseteq Files
  BY Zenon, <1>1, <1>2
<1>4. index' \in [Blocks -> Entries] /\ vinfoBlockFile' \in [Files -> Infos] /\ InFiles(idx, P) \subseteq Blocks
  BY Zenon, <1>2, PruneTypes
<1>5. tip \in Blocks
  BY Zenon DEF Flat
<1>6. tip' \in Blocks /\ pc' \in PCs
  <2>1. CASE Returned(next)
    <3>1. At("run") \in PCs /\ At("down") \in PCs
      BY Zenon DEF At, PCs
    <3> QED BY Zenon, <1>5, <2>1, <3>1 DEF Returned
  <2>2. CASE \E full \in BOOLEAN : /\ pc' = [at |-> "sync", full |-> full, prune |-> P, next |-> next]
                                   /\ UNCHANGED tip
    <3>1. \A full \in BOOLEAN : [at |-> "sync", full |-> full, prune |-> P, next |-> next] \in PCs
      BY Zenon, <1>3 DEF PCs, Nexts
    <3> QED BY Zenon, <1>5, <2>2, <3>1
  <2> QED BY Zenon, <1>2, <2>1, <2>2
<1> QED BY Zenon, <1>2, <1>3, <1>4, <1>6

\* A place is a pair of a file and a number.
LEMMA PlaceParts ==
    /\ \A f \in Files, n \in Nat : /\ n < MAX_BLOCKFILE_SIZE => <<f, n>> \in Places
                                   /\ n < MaxUndo => <<f, n>> \in UndoPlaces
                                   /\ <<f, n>>[1] = f /\ <<f, n>>[2] = n /\ <<f, n>> # NoPos
    /\ \A p \in Places \cup UndoPlaces : /\ p = <<p[1], p[2]>> /\ p[1] \in Files /\ p[2] \in Nat /\ p # NoPos
                                         /\ p \in UndoPlaces => p[2] < MaxUndo
    /\ \A f \in Files : f \in Nat
<1>1. MAX_BLOCKFILE_SIZE \in Nat /\ MaxUndo \in Nat /\ MaxFile \in Nat
  BY Zenon, BlockStoreAssumption
<1>2. ASSUME NEW f, NEW n PROVE <<f, n>>[1] = f /\ <<f, n>>[2] = n /\ <<f, n>> # NoPos
  BY SMT DEF NoPos
<1>3. ASSUME NEW f \in Files, NEW n \in Nat
      PROVE  /\ n < MAX_BLOCKFILE_SIZE => <<f, n>> \in Places
             /\ n < MaxUndo => <<f, n>> \in UndoPlaces
  BY SMT, <1>1 DEF Places, UndoPlaces
<1>4. ASSUME NEW p \in Places \cup UndoPlaces
      PROVE  p = <<p[1], p[2]>> /\ p[1] \in Files /\ p[2] \in Nat /\ (p \in UndoPlaces => p[2] < MaxUndo)
  BY SMT, <1>1 DEF Places, UndoPlaces
<1>5. ASSUME NEW p \in Places \cup UndoPlaces PROVE p # NoPos
  <2>1. <<p[1], p[2]>> # NoPos
    BY Zenon, <1>2
  <2> QED BY Zenon, <1>4, <2>1
<1>6. \A f \in Files : f \in Nat
  BY SMT, <1>1 DEF Files
<1>7. \A p \in Places \cup UndoPlaces : /\ p = <<p[1], p[2]>> /\ p[1] \in Files /\ p[2] \in Nat /\ p # NoPos
                                        /\ p \in UndoPlaces => p[2] < MaxUndo
  BY Zenon, <1>4, <1>5
<1>8. \A f \in Files, n \in Nat : /\ n < MAX_BLOCKFILE_SIZE => <<f, n>> \in Places
                                  /\ n < MaxUndo => <<f, n>> \in UndoPlaces
                                  /\ <<f, n>>[1] = f /\ <<f, n>>[2] = n /\ <<f, n>> # NoPos
  BY Zenon, <1>2, <1>3
<1> QED BY Zenon, <1>6, <1>7, <1>8

\* A file that is left is cut off after its last place, of which it has n.
CutOff(m, p, left, old, n) == IF left /\ p[1] = old /\ p[2] >= n THEN NoBlock ELSE m[p]

\* AcceptBlock puts b into file f, which makes the index idx and the infos info.
Accepted(b, written, f, idx, info) ==
    LET old == nLastBlockFile
        left == f # old
        pos == <<f, vinfoBlockFile[f].nSize>>
        size == vinfoBlockFile[old].nSize
        undoSize == vinfoBlockFile[old].nUndoSize
    IN  /\ f \in Files /\ old <= f /\ pos \in Places
        /\ idx \in [Blocks -> Entries] /\ HasEntry(idx, index, b, TRUE, pos, NoPos, index[b].failed)
        /\ HasInfo(info, vinfoBlockFile, f, vinfoBlockFile[f].nSize + 1, vinfoBlockFile[f].nUndoSize)
        /\ Height[b] <= info[f].nHeightLast
        /\ FlushStateToDisk("NONE", NoBlock, idx, info, f, setDirtyBlockIndex \cup {b},
               setDirtyFileInfo \cup {f}, fPruneMode)
        /\ files' = files \cup {f}
        /\ blk' = [p \in Places |-> IF written /\ p = pos THEN b ELSE CutOff(blk, p, left, old, size)]
        /\ rev' = [p \in UndoPlaces |-> CutOff(rev, p, left, old, undoSize)]
        /\ blkDisk' = [p \in Places |-> IF left /\ p[1] = old THEN CutOff(blk, p, left, old, size) ELSE blkDisk[p]]
        /\ revDisk' = [p \in UndoPlaces |-> IF left /\ p[1] = old THEN CutOff(rev, p, left, old, undoSize) ELSE revDisk[p]]

\* Every block that is accepted is so.
LEMMA AcceptParts ==
    ASSUME Inv, Flat, NEW b \in Blocks, NEW written \in BOOLEAN, AcceptBlock(b, written)
    PROVE  \E f, idx, info : Accepted(b, written, f, idx, info)
<1> DEFINE f == FileWithRoom
           old == nLastBlockFile
           left == f # old
           size == vinfoBlockFile[old].nSize
           undoSize == vinfoBlockFile[old].nUndoSize
           pos == <<f, vinfoBlockFile[f].nSize>>
           idx == Arrived(index, b, pos)
           info == Grown(vinfoBlockFile, f, Height[b])
           cut == [p \in Places |-> IF left /\ p[1] = old /\ p[2] >= size THEN NoBlock ELSE blk[p]]
           cutRev == [p \in UndoPlaces |-> IF left /\ p[1] = old /\ p[2] >= undoSize THEN NoBlock ELSE rev[p]]
<1>1. /\ vinfoBlockFile[MaxFile].nSize < MAX_BLOCKFILE_SIZE
      /\ blk' = IF written THEN [cut EXCEPT ![pos] = b] ELSE cut
      /\ rev' = cutRev
      /\ blkDisk' = IF left THEN SyncedBlk(old, blkDisk, cut) ELSE blkDisk
      /\ revDisk' = IF left THEN SyncedRev(old, revDisk, cutRev) ELSE revDisk
      /\ files' = files \cup {f}
      /\ FlushStateToDisk("NONE", NoBlock, idx, info, f, setDirtyBlockIndex \cup {b},
             setDirtyFileInfo \cup {f}, fPruneMode)
  BY Zenon DEF AcceptBlock, Arrived, Grown
<1>2. f \in Files /\ old <= f /\ vinfoBlockFile[f].nSize < MAX_BLOCKFILE_SIZE
  BY Zenon, <1>1, RoomFacts
<1>3. vinfoBlockFile \in [Files -> Infos] /\ Height[b] \in Nat /\ IsIndex(index) /\ index[b].failed \in BOOLEAN
      /\ index \in [Blocks -> Entries]
  BY Zenon, BlockStoreAssumption DEF Flat, Inv, Types, IsIndex
<1>4. vinfoBlockFile[f].nSize \in Nat
  <2>1. vinfoBlockFile[f].nSize \in 0 .. MAX_BLOCKFILE_SIZE
    BY Zenon, <1>2, <1>3, RecordParts
  <2> QED BY <2>1, BlockStoreAssumption
<1>5. blk = [p \in Places |-> blk[p]] /\ rev = [p \in UndoPlaces |-> rev[p]]
      /\ blkDisk = [p \in Places |-> blkDisk[p]] /\ revDisk = [p \in UndoPlaces |-> revDisk[p]]
  BY Zenon DEF Flat
<1>6. /\ HasInfo(info, vinfoBlockFile, f, vinfoBlockFile[f].nSize + 1, vinfoBlockFile[f].nUndoSize)
      /\ Height[b] <= info[f].nHeightLast
  BY Zenon, <1>2, <1>3, InfoFacts
<1> HIDE DEF f, info
<1>7. pos \in Places
  BY Zenon, <1>2, <1>4, PlaceParts
<1>8. idx = Entry(index, b, TRUE, pos, NoPos, index[b].failed)
  BY Zenon, <1>3, UpdateFacts
<1> HIDE DEF pos
<1>9. HasEntry(Entry(index, b, TRUE, pos, NoPos, index[b].failed), index, b, TRUE, pos, NoPos, index[b].failed)
  BY Zenon, <1>3, EntryFacts
<1>10. Entry(index, b, TRUE, pos, NoPos, index[b].failed) \in [Blocks -> Entries]
  <2>1. [known |-> TRUE, data |-> pos, undo |-> NoPos, failed |-> index[b].failed] \in Entries
    BY Zenon, <1>3, <1>7, RecordParts
  <2> QED BY Zenon, <1>3, <2>1 DEF Entry
<1> HIDE DEF idx
<1>11. idx \in [Blocks -> Entries] /\ HasEntry(idx, index, b, TRUE, pos, NoPos, index[b].failed)
  BY Zenon, <1>8, <1>9, <1>10
<1> DEFINE c == [p \in Places |-> CutOff(blk, p, left, old, size)]
           d == [p \in UndoPlaces |-> CutOff(rev, p, left, old, undoSize)]
<1>12. cut = c /\ cutRev = d
  BY Zenon DEF CutOff
<1> HIDE DEF cut, cutRev
<1>13. blk' = [p \in Places |-> IF written /\ p = pos THEN b ELSE CutOff(blk, p, left, old, size)]
  <2>1. CASE written
    BY Zenon, <1>1, <1>7, <1>12, <2>1
  <2>2. CASE ~written
    BY Zenon, <1>1, <1>12, <2>2
  <2> QED BY Zenon, <2>1, <2>2
<1>14. blkDisk' = [p \in Places |-> IF left /\ p[1] = old THEN CutOff(blk, p, left, old, size) ELSE blkDisk[p]]
  <2>1. CASE left
    <3>1. blkDisk' = [p \in Places |-> IF p[1] = old THEN c[p] ELSE blkDisk[p]]
      BY Zenon, <1>1, <1>12, <2>1 DEF SyncedBlk
    <3> QED BY Zenon, <2>1, <3>1
  <2>2. CASE ~left
    BY Zenon, <1>1, <1>5, <2>2
  <2> QED BY Zenon, <2>1, <2>2
<1>15. revDisk' = [p \in UndoPlaces |-> IF left /\ p[1] = old THEN CutOff(rev, p, left, old, undoSize) ELSE revDisk[p]]
  <2>1. CASE left
    <3>1. revDisk' = [p \in UndoPlaces |-> IF p[1] = old THEN d[p] ELSE revDisk[p]]
      BY Zenon, <1>1, <1>12, <2>1 DEF SyncedRev
    <3> QED BY Zenon, <2>1, <3>1
  <2>2. CASE ~left
    BY Zenon, <1>1, <1>5, <2>2
  <2> QED BY Zenon, <2>1, <2>2
<1>16. rev' = d
  BY Zenon, <1>1, <1>12
<1>17. Accepted(b, written, f, idx, info)
  BY Zenon, <1>1, <1>2, <1>6, <1>7, <1>11, <1>13, <1>14, <1>15, <1>16 DEF Accepted, pos
<1> QED BY Zenon, <1>17

\* ConnectTip writes undo data for b unless it is there, which makes the index
\* idx and the infos info, with db and df dirty.
Connects(b, idx, info, db, df, check) ==
    LET f == index[b].data[1]
        pos == <<f, vinfoBlockFile[f].nUndoSize>>
    IN  /\ index[b].data \in Places /\ f \in Files
        /\ IF index[b].undo = NoPos
           THEN /\ pos \in UndoPlaces
                /\ HasEntry(idx, index, b, index[b].known, index[b].data, pos, index[b].failed)
                /\ HasInfo(info, vinfoBlockFile, f, vinfoBlockFile[f].nSize, vinfoBlockFile[f].nUndoSize + 1)
                /\ rev' = [p \in UndoPlaces |-> IF p = pos THEN b ELSE rev[p]]
                /\ db = setDirtyBlockIndex \cup {b} /\ df = setDirtyFileInfo \cup {f}
           ELSE idx = index /\ info = vinfoBlockFile /\ rev' = rev /\ db = setDirtyBlockIndex /\ df = setDirtyFileInfo
        /\ idx \in [Blocks -> Entries] /\ info \in [Files -> Infos] /\ check \in BOOLEAN
        /\ FlushStateToDisk("IF_NEEDED", b, idx, info, nLastBlockFile, db, df, check)

\* The file of a block with data, which has room for undo data.
LEMMA UndoPlace ==
    ASSUME Inv, Flat, NEW b \in Blocks, index[b].data # NoPos
    PROVE  LET f == index[b].data[1]
           IN  /\ index[b].data \in Places /\ f \in Files /\ vinfoBlockFile[f].nUndoSize \in Nat
               /\ vinfoBlockFile[f].nSize \in Nat
               /\ vinfoBlockFile[f].nUndoSize < MaxUndo =>
                      /\ <<f, vinfoBlockFile[f].nUndoSize>> \in UndoPlaces
                      /\ HasInfo(UndoCounted(vinfoBlockFile, f), vinfoBlockFile, f, vinfoBlockFile[f].nSize,
                                 vinfoBlockFile[f].nUndoSize + 1)
<1> DEFINE f == index[b].data[1]
<1>1. index[b] \in Entries /\ vinfoBlockFile \in [Files -> Infos]
  BY Zenon DEF Flat
<1>2. index[b].data \in Places
  BY Zenon, <1>1, RecordParts
<1>3. f \in Files
  BY Zenon, <1>2, PlaceParts
<1> HIDE DEF f
<1>4. vinfoBlockFile[f].nUndoSize \in 0 .. MaxUndo /\ vinfoBlockFile[f].nSize \in 0 .. MAX_BLOCKFILE_SIZE
  BY Zenon, <1>1, <1>3, RecordParts
<1>5. vinfoBlockFile[f].nUndoSize \in Nat /\ vinfoBlockFile[f].nSize \in Nat
  BY <1>4, BlockStoreAssumption
<1>6. vinfoBlockFile[f].nUndoSize < MaxUndo =>
          HasInfo(UndoCounted(vinfoBlockFile, f), vinfoBlockFile, f, vinfoBlockFile[f].nSize, vinfoBlockFile[f].nUndoSize + 1)
  <2>1. 0 \in Nat
    OBVIOUS
  <2> QED BY Zenon, <1>1, <1>3, <2>1, InfoFacts
<1>7. vinfoBlockFile[f].nUndoSize < MaxUndo => <<f, vinfoBlockFile[f].nUndoSize>> \in UndoPlaces
  BY Zenon, <1>3, <1>5, PlaceParts
<1> QED BY Zenon, <1>2, <1>3, <1>5, <1>6, <1>7 DEF f

\* Every block that is connected is so.
LEMMA ConnectParts ==
    ASSUME Inv, Flat, NEW b \in Blocks, ConnectTip(b)
    PROVE  \E idx, info, db, df, check : Connects(b, idx, info, db, df, check)
<1> DEFINE f == index[b].data[1]
           pos == <<f, vinfoBlockFile[f].nUndoSize>>
           new == index[b].undo = NoPos
           idx == IF new THEN Undone(index, b, pos) ELSE index
           info == IF new THEN UndoCounted(vinfoBlockFile, f) ELSE vinfoBlockFile
           db == IF new THEN setDirtyBlockIndex \cup {b} ELSE setDirtyBlockIndex
           df == IF new THEN setDirtyFileInfo \cup {f} ELSE setDirtyFileInfo
           check == fCheckForPruning \/ (new /\ fPruneMode)
<1>1. /\ b # Genesis /\ index[b].data # NoPos
      /\ new => vinfoBlockFile[f].nUndoSize < MaxUndo
      /\ rev' = IF new THEN [rev EXCEPT ![pos] = b] ELSE rev
      /\ FlushStateToDisk("IF_NEEDED", b, idx, info, nLastBlockFile, db, df, check)
  BY Zenon DEF ConnectTip, Undone, OnTheWay, Readable
<1>2. /\ index \in [Blocks -> Entries] /\ vinfoBlockFile \in [Files -> Infos] /\ IsIndex(index)
      /\ index[b].known \in BOOLEAN /\ index[b].failed \in BOOLEAN /\ rev \in [UndoPlaces -> Blocks \cup {NoBlock}]
      /\ fCheckForPruning \in BOOLEAN /\ fPruneMode \in BOOLEAN
  BY Zenon, BlockStoreAssumption DEF Flat, Inv, Types, IsIndex
<1>3. /\ index[b].data \in Places /\ f \in Files
      /\ new => pos \in UndoPlaces
      /\ new => HasInfo(UndoCounted(vinfoBlockFile, f), vinfoBlockFile, f, vinfoBlockFile[f].nSize,
                        vinfoBlockFile[f].nUndoSize + 1)
  BY Zenon, <1>1, UndoPlace
<1>4. check \in BOOLEAN
  BY Zenon, <1>2
<1> HIDE DEF f, check
<1>5. CASE new
  <2>1. idx = Entry(index, b, index[b].known, index[b].data, pos, index[b].failed)
    BY Zenon, <1>2, <1>5, UpdateFacts
  <2>2. HasEntry(Entry(index, b, index[b].known, index[b].data, pos, index[b].failed), index, b, index[b].known, index[b].data, pos, index[b].failed)
    BY Zenon, <1>1, <1>2, EntryFacts
  <2>3. Entry(index, b, index[b].known, index[b].data, pos, index[b].failed) \in [Blocks -> Entries]
    <3>1. [known |-> index[b].known, data |-> index[b].data, undo |-> pos, failed |-> index[b].failed] \in Entries
      BY Zenon, <1>2, <1>3, <1>5, RecordParts
    <3> QED BY Zenon, <1>2, <3>1 DEF Entry
  <2>4. /\ info = UndoCounted(vinfoBlockFile, f) /\ db = setDirtyBlockIndex \cup {b} /\ df = setDirtyFileInfo \cup {f}
        /\ rev' = [rev EXCEPT ![pos] = b]
    BY Zenon, <1>1, <1>5
  <2> HIDE DEF pos, idx, info, db, df
  <2>5. rev' = [p \in UndoPlaces |-> IF p = pos THEN b ELSE rev[p]]
    BY Zenon, <1>2, <1>3, <1>5, <2>4
  <2>6. Connects(b, idx, info, db, df, check)
    BY Zenon, <1>1, <1>3, <1>4, <1>5, <2>1, <2>2, <2>3, <2>4, <2>5 DEF Connects, HasInfo, pos, f
  <2> QED BY Zenon, <2>6
<1>6. CASE ~new
  <2>1. idx = index /\ info = vinfoBlockFile /\ rev' = rev /\ db = setDirtyBlockIndex /\ df = setDirtyFileInfo
    BY Zenon, <1>1, <1>6
  <2> HIDE DEF idx, info, db, df
  <2>2. Connects(b, idx, info, db, df, check)
    BY Zenon, <1>1, <1>2, <1>3, <1>4, <1>6, <2>1 DEF Connects, f
  <2> QED BY Zenon, <2>2
<1> QED BY Zenon, <1>5, <1>6

\* Where FlushStateToDisk may be.
LEMMA PcTypes ==
    /\ \A s \in {"run", "down", "corrupt"} : At(s) \in PCs
    /\ \A p \in PCs, s \in {"index", "unlink", "coins"} : [p EXCEPT !.at = s] \in PCs
    /\ \A p \in PCs : p.prune \subseteq Files /\ p.next \in Nexts /\ p.full \in BOOLEAN
<1>1. \A s \in {"run", "down", "corrupt"} : At(s) \in PCs
  BY Zenon DEF At, PCs
<1>2. \A p \in PCs, s \in {"index", "unlink", "coins"} : [p EXCEPT !.at = s] \in PCs
  BY SMT DEF PCs
<1>3. \A p \in PCs : p.prune \subseteq Files /\ p.next \in Nexts /\ p.full \in BOOLEAN
  BY Zenon DEF PCs, Nexts
<1> QED BY Zenon, <1>1, <1>2, <1>3

\* AcceptBlock keeps the types.
LEMMA AcceptTypes ==
    ASSUME Inv, Flat, NEW b \in Blocks, NEW written \in BOOLEAN, AcceptBlock(b, written)
    PROVE  Flat'
<1>1. PICK f, idx, info : Accepted(b, written, f, idx, info)
  BY Zenon, AcceptParts
<1>2. /\ UNCHANGED <<coins, dbVars>>
      /\ written \/ nFaults < MaxFaults
      /\ nFaults' = IF written THEN nFaults ELSE nFaults + 1
      /\ faults' = IF written THEN faults ELSE faults \cup {"block"}
  BY Zenon DEF AcceptBlock
<1>3. \A m, p, left, old, n : CutOff(m, p, left, old, n) \in {m[p], NoBlock}
  BY Zenon DEF CutOff
<1>4. /\ blk' \in [Places -> Blocks \cup {NoBlock}] /\ blkDisk' \in [Places -> Blocks \cup {NoBlock}]
      /\ rev' \in [UndoPlaces -> Blocks \cup {NoBlock}] /\ revDisk' \in [UndoPlaces -> Blocks \cup {NoBlock}]
  <2>1. /\ \A p \in Places : blk[p] \in Blocks \cup {NoBlock} /\ blkDisk[p] \in Blocks \cup {NoBlock}
        /\ \A p \in UndoPlaces : rev[p] \in Blocks \cup {NoBlock} /\ revDisk[p] \in Blocks \cup {NoBlock}
    BY Zenon DEF Flat
  <2> DEFINE old == nLastBlockFile
             left == f # old
             size == vinfoBlockFile[old].nSize
             undoSize == vinfoBlockFile[old].nUndoSize
             pos == <<f, vinfoBlockFile[f].nSize>>
  <2>2. /\ blk' = [p \in Places |-> IF written /\ p = pos THEN b ELSE CutOff(blk, p, left, old, size)]
        /\ rev' = [p \in UndoPlaces |-> CutOff(rev, p, left, old, undoSize)]
        /\ blkDisk' = [p \in Places |-> IF left /\ p[1] = old THEN CutOff(blk, p, left, old, size) ELSE blkDisk[p]]
        /\ revDisk' = [p \in UndoPlaces |-> IF left /\ p[1] = old THEN CutOff(rev, p, left, old, undoSize) ELSE revDisk[p]]
    BY Zenon, <1>1 DEF Accepted
  <2> HIDE DEF old, left, size, undoSize, pos
  <2>3. /\ \A p \in Places : CutOff(blk, p, left, old, size) \in Blocks \cup {NoBlock}
        /\ \A p \in UndoPlaces : CutOff(rev, p, left, old, undoSize) \in Blocks \cup {NoBlock}
    BY Zenon, <1>3, <2>1
  <2>4. blk' \in [Places -> Blocks \cup {NoBlock}] /\ rev' \in [UndoPlaces -> Blocks \cup {NoBlock}]
    BY SMT, <2>2, <2>3
  <2>5. blkDisk' \in [Places -> Blocks \cup {NoBlock}] /\ revDisk' \in [UndoPlaces -> Blocks \cup {NoBlock}]
    BY SMT, <2>1, <2>2, <2>3
  <2> QED BY Zenon, <2>4, <2>5
<1>5. /\ Typed(NoBlock, idx, info, f, setDirtyBlockIndex \cup {b}, setDirtyFileInfo \cup {f}, fPruneMode)
      /\ FlushStateToDisk("NONE", NoBlock, idx, info, f, setDirtyBlockIndex \cup {b}, setDirtyFileInfo \cup {f}, fPruneMode)
      /\ files' \subseteq Files
  BY Zenon, <1>1, BlockStoreAssumption DEF Accepted, HasInfo, Nexts, Flat, Typed
<1>6. MemTypes'
  BY Zenon, <1>5, FlushTypes
<1>7. nFaults' \in 0 .. MaxFaults
  BY <1>2, BlockStoreAssumption DEF Flat
<1>8. faults' \subseteq {"block", "index", "undo", "behind"}
  BY Zenon, <1>2 DEF Flat
<1> QED BY Zenon, <1>2, <1>4, <1>5, <1>6, <1>7, <1>8 DEF Flat, MemTypes, dbVars

\* So do ConnectTip, DisconnectTip and the flushes of ActivateBestChain and
\* Shutdown.
LEMMA ConnectTypes ==
    ASSUME Inv, Flat,
           \/ \E b \in Blocks : ConnectTip(b)
           \/ DisconnectTip \/ Flush("PERIODIC", NoBlock) \/ Flush("ALWAYS", "exit")
    PROVE  Flat'
<1>1. ASSUME NEW b \in Blocks, ConnectTip(b) PROVE Flat'
  <2>1. PICK idx, info, db, df, check : Connects(b, idx, info, db, df, check)
    BY Zenon, <1>1, ConnectParts
  <2>2. coins' = b /\ UNCHANGED <<blk, blkDisk, revDisk, files, dbVars, faultVars>>
    BY Zenon, <1>1 DEF ConnectTip
  <2>3. /\ Typed(b, idx, info, nLastBlockFile, db, df, check)
        /\ FlushStateToDisk("IF_NEEDED", b, idx, info, nLastBlockFile, db, df, check)
    BY Zenon, <2>1 DEF Connects, Nexts, Flat, Typed
  <2>4. rev' \in [UndoPlaces -> Blocks \cup {NoBlock}]
    <3>1. CASE index[b].undo = NoPos
      BY Zenon, <2>1, <3>1 DEF Connects, Flat
    <3>2. CASE index[b].undo # NoPos
      BY Zenon, <2>1, <3>2 DEF Connects, Flat
    <3> QED BY Zenon, <3>1, <3>2
  <2>5. MemTypes'
    BY Zenon, <2>3, FlushTypes
  <2> QED BY Zenon, <2>2, <2>4, <2>5 DEF Flat, MemTypes, dbVars, faultVars
<1>2. ASSUME NEW mode, NEW next \in Nexts, coins' \in Blocks, UNCHANGED <<fileVars, dbVars, faultVars>>,
             FlushStateToDisk(mode, next, index, vinfoBlockFile, nLastBlockFile, setDirtyBlockIndex,
                 setDirtyFileInfo, fCheckForPruning)
      PROVE  Flat'
  <2>1. Typed(next, index, vinfoBlockFile, nLastBlockFile, setDirtyBlockIndex, setDirtyFileInfo, fCheckForPruning)
    BY Zenon, <1>2 DEF Flat, Typed
  <2>2. MemTypes'
    BY Zenon, <1>2, <2>1, FlushTypes
  <2> QED BY Zenon, <1>2, <2>2 DEF Flat, MemTypes, fileVars, dbVars, faultVars
<1>3. ASSUME NEW mode, NEW next \in {NoBlock, "exit"}, Flush(mode, next) PROVE Flat'
  <2>1. next \in Nexts /\ coins' \in Blocks
    BY Zenon, <1>3 DEF Flush, Flat, Nexts
  <2> QED BY Zenon, <1>2, <1>3, <2>1 DEF Flush
<1>4. CASE DisconnectTip
  <2>1. tip # Genesis /\ tip \in Blocks
    BY Zenon, <1>4 DEF DisconnectTip, UndoReadable, Inv, Types, IsIndex, Flat
  <2>2. Parent[tip] \in Blocks /\ Parent[tip] \in Nexts /\ coins' = Parent[tip]
    BY Zenon, <1>4, <2>1, BlockStoreAssumption DEF DisconnectTip, Nexts
  <2> QED BY Zenon, <1>2, <1>4, <2>2 DEF DisconnectTip
<1> QED BY Zenon, <1>1, <1>3, <1>4

\* The steps of FlushStateToDisk keep the types.
LEMMA WriteTypes ==
    ASSUME Inv, Flat, FlushBlockFile \/ WriteBatchSync \/ WriteBatchFails \/ UnlinkPrunedFiles \/ FlushCoins
    PROVE  Flat'
<1>0. pc \in PCs /\ tip \in Blocks
  BY Zenon DEF Flat
<1>1. CASE FlushBlockFile
  <2>1. pc' \in PCs
    BY Zenon, <1>0, <1>1, PcTypes DEF FlushBlockFile
  <2>2. blkDisk' \in [Places -> Blocks \cup {NoBlock}] /\ revDisk' \in [UndoPlaces -> Blocks \cup {NoBlock}]
    BY SMT, <1>1 DEF FlushBlockFile, SyncedBlk, SyncedRev, Flat
  <2> QED BY Zenon, <1>1, <2>1, <2>2 DEF FlushBlockFile, Flat, memVars, dbVars, faultVars
<1>2. ASSUME NEW next, Returned(next) PROVE tip' \in Blocks /\ pc' \in PCs
  BY Zenon, <1>0, <1>2, PcTypes DEF Returned
<1>3. CASE WriteBatchSync
  <2>1. tip' \in Blocks /\ pc' \in PCs
    <3>1. CASE pc.full
      BY Zenon, <1>0, <1>3, <3>1, PcTypes DEF WriteBatchSync
    <3>2. CASE ~pc.full
      BY Zenon, <1>2, <1>3, <3>2 DEF WriteBatchSync
    <3> QED BY Zenon, <3>1, <3>2
  <2>2. dbIndex' \in [Blocks -> Entries] /\ dbInfo' \in [Files -> Infos]
    BY SMT, <1>3 DEF WriteBatchSync, Flat
  <2>3. outdated' \subseteq {prevCoins', dbCoins'}
    BY Zenon, <1>3 DEF WriteBatchSync, Flat
  <2>4. /\ dbLast' = nLastBlockFile /\ setDirtyBlockIndex' = {} /\ setDirtyFileInfo' = {}
        /\ UNCHANGED <<index, vinfoBlockFile, nLastBlockFile, fCheckForPruning, coins, fileVars,
                       dbCoins, prevCoins, faultVars>>
    BY Zenon, <1>3 DEF WriteBatchSync
  <2> QED BY Zenon, <2>1, <2>2, <2>3, <2>4 DEF Flat, fileVars, faultVars
<1>4. CASE WriteBatchFails
  <2>1. pc' \in PCs
    BY Zenon, <1>4, PcTypes DEF WriteBatchFails
  <2>2. nFaults' \in 0 .. MaxFaults
    BY SMT, <1>4, BlockStoreAssumption DEF WriteBatchFails, Flat
  <2>3. faults' \subseteq {"block", "index", "undo", "behind"}
    BY Zenon, <1>4 DEF WriteBatchFails, Flat
  <2>4. /\ setDirtyBlockIndex' = {} /\ setDirtyFileInfo' = {}
        /\ UNCHANGED <<index, vinfoBlockFile, nLastBlockFile, fCheckForPruning, coins, tip, fileVars, dbVars>>
    BY Zenon, <1>4 DEF WriteBatchFails
  <2> QED BY Zenon, <2>1, <2>2, <2>3, <2>4 DEF Flat, fileVars, dbVars
<1>5. CASE UnlinkPrunedFiles
  <2>1. pc' \in PCs
    BY Zenon, <1>0, <1>5, PcTypes DEF UnlinkPrunedFiles
  <2>2. blk' \in [Places -> Blocks \cup {NoBlock}] /\ blkDisk' \in [Places -> Blocks \cup {NoBlock}]
    BY SMT, <1>5 DEF UnlinkPrunedFiles, Flat
  <2>3. rev' \in [UndoPlaces -> Blocks \cup {NoBlock}] /\ revDisk' \in [UndoPlaces -> Blocks \cup {NoBlock}]
    BY SMT, <1>5 DEF UnlinkPrunedFiles, Flat
  <2>4. files' \subseteq Files
    BY Zenon, <1>5 DEF UnlinkPrunedFiles, Flat
  <2> QED BY Zenon, <1>5, <2>1, <2>2, <2>3, <2>4 DEF UnlinkPrunedFiles, Flat, memVars, dbVars, faultVars
<1>6. CASE FlushCoins
  <2>1. tip' \in Blocks /\ pc' \in PCs
    BY Zenon, <1>2, <1>6 DEF FlushCoins
  <2>2. outdated' \subseteq {prevCoins', dbCoins'}
    BY Zenon, <1>6 DEF FlushCoins, Flat
  <2>3. /\ dbCoins' = coins /\ prevCoins' = dbCoins
        /\ UNCHANGED <<index, vinfoBlockFile, nLastBlockFile, setDirtyBlockIndex, setDirtyFileInfo,
                       fCheckForPruning, coins, fileVars, dbIndex, dbInfo, dbLast, faultVars>>
    BY Zenon, <1>6 DEF FlushCoins
  <2> QED BY Zenon, <2>1, <2>2, <2>3 DEF Flat, fileVars, faultVars
<1> QED BY Zenon, <1>1, <1>3, <1>4, <1>5, <1>6

\* A failed connection, a crash and a restart keep the types.
LEMMA OtherTypes ==
    ASSUME Inv, Flat,
           (\E b \in Blocks : ConnectWithoutUndo(b) \/ ConnectFails(b)) \/ CrashStep \/ Restart
    PROVE  Flat'
<1>1. ASSUME NEW b \in Blocks, ConnectWithoutUndo(b) PROVE Flat'
  <2> DEFINE f == index[b].data[1]
  <2>1. /\ index[b].data # NoPos /\ vinfoBlockFile[f].nUndoSize < MaxUndo /\ nFaults < MaxFaults
        /\ vinfoBlockFile' = UndoCounted(vinfoBlockFile, f)
        /\ setDirtyFileInfo' = setDirtyFileInfo \cup {f}
        /\ fCheckForPruning' = fPruneMode /\ nFaults' = nFaults + 1
        /\ UNCHANGED <<index, nLastBlockFile, setDirtyBlockIndex, coins, tip, pc, fileVars, dbVars, faults>>
    BY Zenon, <1>1 DEF ConnectWithoutUndo, Readable
  <2>2. f \in Files /\ vinfoBlockFile' \in [Files -> Infos]
    BY Zenon, <2>1, UndoPlace DEF HasInfo
  <2> HIDE DEF f
  <2>3. nFaults' \in 0 .. MaxFaults
    BY SMT, <2>1, BlockStoreAssumption DEF Flat
  <2> QED BY Zenon, <2>1, <2>2, <2>3, BlockStoreAssumption DEF Flat, fileVars, dbVars
<1>2. ASSUME NEW b \in Blocks, ConnectFails(b) PROVE Flat'
  <2>1. /\ index' = Failed(index, b) /\ setDirtyBlockIndex' = setDirtyBlockIndex \cup {b}
        /\ UNCHANGED <<vinfoBlockFile, nLastBlockFile, setDirtyFileInfo, fCheckForPruning, coins, tip,
                       pc, fileVars, dbVars, faultVars>>
    BY Zenon, <1>2 DEF ConnectFails, Failed
  <2>2. index' = Entry(index, b, index[b].known, index[b].data, index[b].undo, TRUE)
    BY Zenon, <2>1, UpdateFacts DEF Inv, Types
  <2>3. [known |-> index[b].known, data |-> index[b].data, undo |-> index[b].undo, failed |-> TRUE] \in Entries
    BY Zenon, RecordParts DEF Flat
  <2>4. index' \in [Blocks -> Entries]
    BY Zenon, <2>2, <2>3 DEF Entry, Flat
  <2> QED BY Zenon, <2>1, <2>4 DEF Flat, fileVars, dbVars, faultVars
<1>3. CASE CrashStep
  <2>1. PICK lost \in {{}, Unsynced}, lostUndo \in {{}, UnsyncedUndo}, c \in {prevCoins, dbCoins} :
                 Crash(lost, lostUndo, c)
    BY Zenon, <1>3 DEF CrashStep
  <2>2. /\ blk' \in [Places -> Blocks \cup {NoBlock}] /\ rev' \in [UndoPlaces -> Blocks \cup {NoBlock}]
    BY SMT, <2>1 DEF Crash, Flat
  <2>3. nFaults' \in 0 .. MaxFaults
    BY SMT, <2>1, BlockStoreAssumption DEF Crash, Flat
  <2>4. faults' \subseteq {"block", "index", "undo", "behind"}
    BY Zenon, <2>1 DEF Crash, Flat
  <2>5. /\ dbCoins' = c /\ prevCoins' = c /\ outdated' \subseteq {c} /\ pc' = At("down")
        /\ UNCHANGED <<memVars, blkDisk, revDisk, files, dbIndex, dbInfo, dbLast>>
    BY Zenon, <2>1 DEF Crash
  <2>6. pc' \in PCs /\ c \in Blocks /\ outdated' \subseteq {prevCoins', dbCoins'}
    BY Zenon, <2>5, PcTypes DEF Flat
  <2> QED BY Zenon, <2>2, <2>3, <2>4, <2>5, <2>6 DEF Flat, memVars
<1>4. CASE Restart
  <2>1. pc' \in PCs
    BY Zenon, <1>4, PcTypes DEF Restart
  <2> QED BY Zenon, <1>4, <2>1 DEF Restart, Flat, fileVars, dbVars, faultVars
<1> QED BY Zenon, <1>1, <1>2, <1>3, <1>4

\* Every variable has its type after every step, and in an empty directory.
LEMMA StepTypes == Inv /\ Flat /\ [Next]_vars => Flat'
<1> SUFFICES ASSUME Inv, Flat, [Next]_vars PROVE Flat'
  BY Zenon
<1>1. CASE UNCHANGED vars
  BY Zenon, <1>1 DEF vars, memVars, fileVars, dbVars, faultVars, Flat
<1>2. CASE Next
  BY Zenon, <1>2, AcceptTypes, ConnectTypes, WriteTypes, OtherTypes DEF Next
<1> QED BY Zenon, <1>1, <1>2

LEMMA InitTypes == Init => Flat
<1> SUFFICES ASSUME Init PROVE Flat
  BY Zenon
<1>1. /\ 0 \in Files /\ <<0, 0>> \in Places /\ 0 \in 0 .. MaxFaults
      /\ 0 \in 0 .. MAX_BLOCKFILE_SIZE /\ 1 \in 0 .. MAX_BLOCKFILE_SIZE /\ 0 \in 0 .. MaxUndo /\ 0 \in Nat
  BY SMT, BlockStoreAssumption DEF Files, Places
<1> DEFINE p0 == <<0, 0>>
<1>2. Unknown \in Entries /\ [Unknown EXCEPT !.known = TRUE, !.data = p0] \in Entries
  <2>1. p0 \in Places
    BY Zenon, <1>1
  <2> HIDE DEF p0
  <2>2. [Unknown EXCEPT !.known = TRUE, !.data = p0]
            = [known |-> TRUE, data |-> p0, undo |-> NoPos, failed |-> FALSE]
    <3>1. ASSUME NEW n, NEW k
          PROVE  [[known |-> n, data |-> NoPos, undo |-> NoPos, failed |-> n] EXCEPT !.known = k, !.data = p0]
                     = [known |-> k, data |-> p0, undo |-> NoPos, failed |-> n]
      <4>1. [[known |-> n, data |-> NoPos, undo |-> NoPos, failed |-> n] EXCEPT !.known = k]
                = [known |-> k, data |-> NoPos, undo |-> NoPos, failed |-> n]
        OBVIOUS
      <4>2. [[known |-> k, data |-> NoPos, undo |-> NoPos, failed |-> n] EXCEPT !.data = p0]
                = [known |-> k, data |-> p0, undo |-> NoPos, failed |-> n]
        OBVIOUS
      <4> QED BY Zenon, <4>1, <4>2
    <3> QED BY Zenon, <3>1 DEF Unknown
  <2> QED BY Zenon, <2>1, <2>2 DEF Unknown, Entries
<1>3. NullInfo \in Infos /\ [NullInfo EXCEPT !.nSize = 1] \in Infos
  BY SMT, <1>1 DEF NullInfo, Infos
<1>4. index \in [Blocks -> Entries] /\ vinfoBlockFile \in [Files -> Infos]
  BY Zenon, <1>2, <1>3 DEF Init
<1>5. blk \in [Places -> Blocks \cup {NoBlock}] /\ rev \in [UndoPlaces -> Blocks \cup {NoBlock}]
  BY Zenon, BlockStoreAssumption DEF Init
<1>6. pc \in PCs
  BY Zenon, PcTypes DEF Init
<1> QED BY Zenon, <1>1, <1>4, <1>5, <1>6, BlockStoreAssumption DEF Init, Flat

\* Every variable keeps its type.
THEOREM TypeCorrect == Spec => []TypeOK
<1>1. Init => Inv /\ Flat
  BY Zenon, InitInv, InitTypes
<1>2. Inv /\ Flat /\ [Next]_vars => (Inv /\ Flat)'
  BY Zenon, StepInv, StepTypes
<1>3. Flat => TypeOK
  BY Zenon, FlatTypes
<1> QED BY <1>1, <1>2, <1>3, PTL DEF Spec
=============================================================================
