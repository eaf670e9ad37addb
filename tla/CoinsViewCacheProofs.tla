------------------------ MODULE CoinsViewCacheProofs ------------------------
(* Proofs about CoinsViewCache, for any transactions, outputs, nullifiers, *)
(* roots and blocks.                                                       *)
EXTENDS CoinsViewCache, TLAPS

USE CoinsAssumption

-----------------------------------------------------------------------------
(* Coins.                                                                  *)

\* A coin entry of a well-typed cache is either absent or a CoinsEntry.
LEMMA CoinsEntryType ==
    ASSUME NEW cache \in Caches(Txids, CoinsEntry), NEW k \in Txids, cache[k] # NoEntry
    PROVE  /\ cache[k] \in CoinsEntry
           /\ cache[k].coins \in Coins
           /\ cache[k].dirty \in BOOLEAN
           /\ cache[k].fresh \in BOOLEAN
BY Zenon DEF Caches, CoinsEntry

\* pcoinsTip after a lookup: same answers, and the entry is there unless the
\* database has nothing.
LEMMA FetchTipFacts ==
    ASSUME CoinsInv, NEW k \in Txids
    PROVE  /\ FetchTip(k) \in Caches(Txids, CoinsEntry)
           /\ CoinsAgree(FetchTip(k), dbCoins)
           /\ CoinsOver(FetchTip(k), dbCoins) = TipCoins
           /\ \A j \in Txids : tipCoins[j] # NoEntry => FetchTip(k)[j] = tipCoins[j]
           /\ FetchTip(k)[k] = NoEntry => dbCoins[k] = Pruned
<1> DEFINE f == FetchTip(k)
<1>1. CASE tipCoins[k] # NoEntry \/ dbCoins[k] = Pruned
  BY Zenon, <1>1 DEF CoinsInv, FetchTip, TipCoins
<1>2. CASE tipCoins[k] = NoEntry /\ dbCoins[k] # Pruned
  <2>1. f = [tipCoins EXCEPT ![k] = Copy(dbCoins[k])]
    BY Zenon, <1>2 DEF FetchTip
  <2>2. Copy(dbCoins[k]) \in CoinsEntry
    BY Zenon DEF CoinsInv, Copy, CoinsEntry, Coins
  <2>3. f \in Caches(Txids, CoinsEntry)
    BY Zenon, <2>1, <2>2 DEF CoinsInv, Caches
  <2>4. f[k] = Copy(dbCoins[k]) /\ \A j \in Txids : j # k => f[j] = tipCoins[j]
    BY Zenon, <2>1 DEF CoinsInv, Caches
  <2>5. f[k] # NoEntry
    BY Zenon, <2>4, <2>2
  <2>6. f[k].coins = dbCoins[k] /\ ~f[k].dirty /\ ~f[k].fresh
    <3>1. f[k] = [coins |-> dbCoins[k], dirty |-> FALSE, fresh |-> FALSE]
      BY Zenon, <2>4, <1>2 DEF Copy
    <3> QED BY <3>1
  <2>7. CoinsAgree(f, dbCoins)
    BY Zenon, <2>4, <2>6 DEF CoinsInv, CoinsAgree
  <2>8. CoinsOver(f, dbCoins) = TipCoins
    BY Zenon, <1>2, <2>4, <2>5, <2>6 DEF CoinsOver, TipCoins
  <2> QED BY Zenon, <1>2, <2>3, <2>4, <2>5, <2>7, <2>8
<1> QED BY Zenon, <1>1, <1>2

\* A lookup through pcoinsTip changes no answer.
LEMMA AccessTipCoinsStep ==
    ASSUME CoinsInv, NEW k \in Txids, AccessTipCoins(k)
    PROVE  CoinsInv' /\ TipCoins' = TipCoins /\ ViewCoins' = ViewCoins
<1>1. tipCoins' = FetchTip(k) /\ viewCoins' = viewCoins /\ dbCoins' = dbCoins /\ viewOpen' = viewOpen
  BY Zenon DEF AccessTipCoins, dbVars
<1>2. TipCoins' = TipCoins
  BY Zenon, <1>1, FetchTipFacts DEF TipCoins
<1>3. ViewCoins' = ViewCoins
  BY Zenon, <1>1, <1>2 DEF ViewCoins
<1>4. CoinsAgree(tipCoins, dbCoins)' /\ CoinsAgree(viewCoins, TipCoins)'
  BY Zenon, <1>1, <1>2, FetchTipFacts DEF CoinsInv, CoinsAgree
<1>5. FreshUnlessPulledIn'
  BY Zenon, <1>1, FetchTipFacts DEF CoinsInv, FreshUnlessPulledIn
<1> QED BY Zenon, <1>1, <1>2, <1>3, <1>4, <1>5, FetchTipFacts DEF CoinsInv

\* A lookup through the view changes no answer.
LEMMA AccessCoinsStep ==
    ASSUME CoinsInv, NEW k \in Txids, AccessCoins(k)
    PROVE  CoinsInv' /\ TipCoins' = TipCoins /\ ViewCoins' = ViewCoins
<1> DEFINE e == IF tipCoins'[k] = NoEntry THEN NoEntry ELSE Copy(tipCoins'[k].coins)
<1>1. /\ tipCoins' = FetchTip(k) /\ dbCoins' = dbCoins /\ viewOpen' = viewOpen /\ viewOpen
      /\ viewCoins' = [viewCoins EXCEPT ![k] = e]
      /\ viewCoins[k] = NoEntry
  BY Zenon DEF AccessCoins, dbVars
<1>2. TipCoins' = TipCoins
  BY Zenon, <1>1, FetchTipFacts DEF TipCoins
<1>3. tipCoins' \in Caches(Txids, CoinsEntry)
  BY Zenon, <1>1, FetchTipFacts
<1>4. e # NoEntry => /\ e \in CoinsEntry
                     /\ e.coins = tipCoins'[k].coins
                     /\ ~e.dirty
                     /\ e.fresh <=> tipCoins'[k].coins = Pruned
                     /\ tipCoins'[k] # NoEntry
  <2>1. SUFFICES ASSUME e # NoEntry
                 PROVE  /\ e \in CoinsEntry
                        /\ e.coins = tipCoins'[k].coins
                        /\ ~e.dirty
                        /\ e.fresh <=> tipCoins'[k].coins = Pruned
                        /\ tipCoins'[k] # NoEntry
    BY Zenon
  <2>2. tipCoins'[k] # NoEntry /\ e = Copy(tipCoins'[k].coins)
    BY Zenon, <2>1
  <2>3. tipCoins'[k].coins \in Coins
    BY Zenon, <2>2, <1>3, CoinsEntryType
  <2>4. e = [coins |-> tipCoins'[k].coins, dirty |-> FALSE, fresh |-> tipCoins'[k].coins = Pruned]
    BY Zenon, <2>2 DEF Copy
  <2>5. (tipCoins'[k].coins = Pruned) \in BOOLEAN
    BY Zenon
  <2> HIDE DEF e
  <2>6. e \in CoinsEntry
    BY Zenon, <2>3, <2>4, <2>5 DEF CoinsEntry
  <2>7. e.coins = tipCoins'[k].coins /\ e.dirty = FALSE
    BY Zenon, <2>4
  <2>8. e.fresh = (tipCoins'[k].coins = Pruned)
    BY Zenon, <2>4
  <2> QED BY Zenon, <2>2, <2>6, <2>7, <2>8
<1>5. viewCoins'[k] = e /\ \A j \in Txids : j # k => viewCoins'[j] = viewCoins[j]
  BY Zenon, <1>1 DEF CoinsInv, Caches
<1>6. viewCoins' \in Caches(Txids, CoinsEntry)
  BY Zenon, <1>1, <1>4 DEF CoinsInv, Caches
<1>7. tipCoins'[k] # NoEntry => TipCoins[k] = tipCoins'[k].coins
  BY Zenon, <1>2 DEF TipCoins, CoinsOver
<1>8. CoinsAgree(tipCoins, dbCoins)' /\ CoinsAgree(viewCoins, TipCoins)'
  BY <1>1, <1>2, <1>4, <1>5, <1>7, FetchTipFacts DEF CoinsInv, CoinsAgree
<1>9. FreshUnlessPulledIn'
  BY Zenon, <1>1, <1>4, <1>5, FetchTipFacts DEF CoinsInv, FreshUnlessPulledIn
<1>10. ViewCoins' = ViewCoins
  BY <1>1, <1>2, <1>4, <1>5, <1>7 DEF ViewCoins, CoinsOver
<1> QED BY Zenon, <1>1, <1>2, <1>3, <1>6, <1>8, <1>9, <1>10 DEF CoinsInv

\* ModifyCoins changes the answer for one transaction, in the view only,
\* whatever entries and flags the two caches held for it.
LEMMA ModifyCoinsStep ==
    ASSUME CoinsInv, NEW k \in Txids, NEW new \in Coins, ModifyCoins(k, new)
    PROVE  CoinsInv' /\ TipCoins' = TipCoins /\ ViewCoins' = [ViewCoins EXCEPT ![k] = new]
<1> DEFINE fresh == IF viewCoins[k] = NoEntry THEN FreshOver(tipCoins'[k]) ELSE viewCoins[k].fresh
           e == IF fresh /\ new = Pruned THEN NoEntry
                ELSE [coins |-> new, dirty |-> TRUE, fresh |-> fresh]
<1>1. /\ tipCoins' = IF viewCoins[k] = NoEntry THEN FetchTip(k) ELSE tipCoins
      /\ dbCoins' = dbCoins /\ viewOpen' = viewOpen /\ viewOpen
      /\ viewCoins' = [viewCoins EXCEPT ![k] = e]
  BY Zenon DEF ModifyCoins, dbVars
<1>2. /\ tipCoins' \in Caches(Txids, CoinsEntry)
      /\ CoinsAgree(tipCoins', dbCoins)
      /\ TipCoins' = TipCoins
      /\ \A j \in Txids : tipCoins[j] # NoEntry => tipCoins'[j] # NoEntry
  BY Zenon, <1>1, FetchTipFacts DEF CoinsInv, TipCoins
<1>3. fresh \in BOOLEAN
  BY Zenon, CoinsEntryType DEF CoinsInv, FreshOver
<1>4. fresh => TipCoins[k] = Pruned
  <2>1. CASE viewCoins[k] # NoEntry
    BY Zenon, <2>1 DEF CoinsInv, CoinsAgree
  <2>2. CASE viewCoins[k] = NoEntry /\ tipCoins'[k] # NoEntry
    BY Zenon, <2>2, <1>2 DEF FreshOver, TipCoins, CoinsOver
  <2>3. CASE viewCoins[k] = NoEntry /\ tipCoins'[k] = NoEntry
    BY Zenon, <2>3, <1>1, <1>2, FetchTipFacts DEF TipCoins, CoinsOver
  <2> QED BY Zenon, <2>1, <2>2, <2>3
<1>5. tipCoins'[k] = NoEntry => fresh
  BY Zenon, <1>1, <1>2 DEF FreshOver, CoinsInv, FreshUnlessPulledIn
<1>6. e # NoEntry => /\ e \in CoinsEntry
                     /\ e.coins = new
                     /\ e.dirty
                     /\ e.fresh <=> fresh
  <2>1. SUFFICES ASSUME e # NoEntry
                 PROVE  e \in CoinsEntry /\ e.coins = new /\ e.dirty /\ (e.fresh <=> fresh)
    BY Zenon
  <2>2. e = [coins |-> new, dirty |-> TRUE, fresh |-> fresh]
    BY Zenon, <2>1
  <2> HIDE DEF e, fresh
  <2>3. e \in CoinsEntry /\ e.coins = new /\ e.dirty = TRUE /\ e.fresh = fresh
    <3>1. e \in CoinsEntry
      BY Zenon, <2>2, <1>3 DEF CoinsEntry
    <3>2. e.coins = new /\ e.dirty = TRUE
      BY Zenon, <2>2
    <3>3. e.fresh = fresh
      BY Zenon, <2>2
    <3> QED BY Zenon, <3>1, <3>2, <3>3
  <2> QED BY Zenon, <2>3
<1>7. [coins |-> new, dirty |-> TRUE, fresh |-> fresh] \in CoinsEntry
  BY Zenon, <1>3 DEF CoinsEntry
<1>8. e = NoEntry => fresh /\ new = Pruned
  BY Zenon, <1>7
<1> HIDE DEF e, fresh
<1>9. viewCoins'[k] = e /\ \A j \in Txids : j # k => viewCoins'[j] = viewCoins[j]
  BY Zenon, <1>1 DEF CoinsInv, Caches
<1>10. viewCoins' \in Caches(Txids, CoinsEntry)
  BY Zenon, <1>1, <1>6 DEF CoinsInv, Caches
<1>11. CoinsAgree(viewCoins', TipCoins)
  BY Zenon, <1>4, <1>6, <1>9 DEF CoinsInv, CoinsAgree
<1>12. FreshUnlessPulledIn'
  BY Zenon, <1>2, <1>5, <1>6, <1>9 DEF CoinsInv, FreshUnlessPulledIn
<1>13. ViewCoins' = [ViewCoins EXCEPT ![k] = new]
  <2>1. ViewCoins' = [j \in Txids |-> IF viewCoins'[j] = NoEntry THEN TipCoins[j] ELSE viewCoins'[j].coins]
    BY Zenon, <1>2 DEF ViewCoins, CoinsOver
  <2>2. ViewCoins = [j \in Txids |-> IF viewCoins[j] = NoEntry THEN TipCoins[j] ELSE viewCoins[j].coins]
    BY Zenon DEF ViewCoins, CoinsOver
  <2>3. viewCoins'[k] = NoEntry => TipCoins[k] = new
    BY Zenon, <1>4, <1>8, <1>9
  <2>4. viewCoins'[k] # NoEntry => viewCoins'[k].coins = new
    BY Zenon, <1>6, <1>9
  <2> QED BY Zenon, <2>1, <2>2, <2>3, <2>4, <1>9
<1>14. CoinsAgree(viewCoins, TipCoins)' /\ CoinsAgree(tipCoins, dbCoins)'
  BY Zenon, <1>1, <1>2, <1>11
<1> QED BY Zenon, <1>1, <1>2, <1>10, <1>12, <1>13, <1>14 DEF CoinsInv

\* What BatchWrite leaves in pcoinsTip for one transaction: an entry that
\* agrees with the database and answers what the view answered.
LEMMA WriteCoinsFacts ==
    ASSUME CoinsInv, NEW k \in Txids
    PROVE  LET w == WriteCoins(viewCoins[k], tipCoins[k])
           IN  /\ w \in CoinsEntry \cup {NoEntry}
               /\ w # NoEntry => /\ w.fresh => dbCoins[k] = Pruned
                                 /\ ~w.dirty => w.coins = dbCoins[k]
               /\ (IF w = NoEntry THEN dbCoins[k] ELSE w.coins) = ViewCoins[k]
<1> DEFINE v == viewCoins[k]
           t == tipCoins[k]
           w == WriteCoins(v, t)
<1> SUFFICES /\ w \in CoinsEntry \cup {NoEntry}
             /\ w # NoEntry => /\ w.fresh => dbCoins[k] = Pruned
                               /\ ~w.dirty => w.coins = dbCoins[k]
             /\ (IF w = NoEntry THEN dbCoins[k] ELSE w.coins) = ViewCoins[k]
  BY Zenon
<1>1. TipCoins[k] = IF t = NoEntry THEN dbCoins[k] ELSE t.coins
  BY Zenon DEF TipCoins, CoinsOver
<1>2. ViewCoins[k] = IF v = NoEntry THEN TipCoins[k] ELSE v.coins
  BY Zenon DEF ViewCoins, CoinsOver
<1>3. t # NoEntry => /\ t \in CoinsEntry /\ t.fresh \in BOOLEAN
                     /\ t.fresh => dbCoins[k] = Pruned
                     /\ ~t.dirty => t.coins = dbCoins[k]
  BY Zenon, CoinsEntryType DEF CoinsInv, CoinsAgree
<1>4. v # NoEntry => /\ v.coins \in Coins
                     /\ v.fresh => TipCoins[k] = Pruned
                     /\ ~v.dirty => v.coins = TipCoins[k]
                     /\ t = NoEntry => v.fresh
  BY Zenon, CoinsEntryType DEF CoinsInv, CoinsAgree, FreshUnlessPulledIn
<1>5. t \in CoinsEntry \cup {NoEntry}
  BY Zenon DEF CoinsInv, Caches
<1> HIDE DEF v, t
<1>6. CASE v = NoEntry \/ ~v.dirty
  <2>1. w = t
    BY Zenon, <1>6 DEF WriteCoins
  <2> QED BY Zenon, <2>1, <1>1, <1>2, <1>3, <1>4, <1>5, <1>6
<1>7. CASE v # NoEntry /\ v.dirty /\ v.coins = Pruned /\ (t = NoEntry \/ t.fresh)
  <2>1. w = NoEntry
    BY Zenon, <1>7 DEF WriteCoins
  <2> QED BY Zenon, <2>1, <1>1, <1>2, <1>3, <1>4, <1>7
<1>8. CASE v # NoEntry /\ v.dirty /\ v.coins # Pruned /\ t = NoEntry
  <2>1. w = [coins |-> v.coins, dirty |-> TRUE, fresh |-> TRUE]
    BY Zenon, <1>8 DEF WriteCoins
  <2>2. w \in CoinsEntry
    BY <2>1, <1>4, <1>8 DEF CoinsEntry
  <2>3. w.coins = v.coins /\ w.dirty
    BY <2>1
  <2> HIDE DEF w
  <2> QED BY Zenon, <2>2, <2>3, <1>1, <1>2, <1>4, <1>8
<1>9. CASE v # NoEntry /\ v.dirty /\ t # NoEntry /\ ~(t.fresh /\ v.coins = Pruned)
  <2>1. w = [coins |-> v.coins, dirty |-> TRUE, fresh |-> t.fresh]
    BY Zenon, <1>9 DEF WriteCoins
  <2>2. w \in CoinsEntry
    BY <2>1, <1>3, <1>4, <1>9 DEF CoinsEntry
  <2>3. w.coins = v.coins /\ w.dirty
    BY <2>1
  <2>4. w.fresh = t.fresh
    BY <2>1
  <2> HIDE DEF w
  <2> QED BY Zenon, <2>2, <2>3, <2>4, <1>2, <1>3, <1>9
<1> QED BY Zenon, <1>3, <1>6, <1>7, <1>8, <1>9

\* The destructor of the view: its answers become those of pcoinsTip.
LEMMA DropViewCoins ==
    ASSUME DropView, tipCoins' \in Caches(Txids, CoinsEntry)
    PROVE  /\ viewCoins' \in Caches(Txids, CoinsEntry)
           /\ CoinsAgree(viewCoins, TipCoins)'
           /\ FreshUnlessPulledIn'
           /\ viewCoins' = EmptyCache(Txids)
           /\ ViewCoins' = TipCoins'
<1>1. viewCoins' = [k \in Txids |-> NoEntry]
  BY Zenon DEF DropView, EmptyCache
<1>2. ViewCoins' = [k \in Txids |-> IF viewCoins'[k] = NoEntry THEN TipCoins'[k] ELSE viewCoins'[k].coins]
  BY Zenon DEF ViewCoins, CoinsOver
<1>3. TipCoins' = [k \in Txids |-> TipCoins'[k]]
  BY Zenon DEF TipCoins, CoinsOver
<1> QED BY Zenon, <1>1, <1>2, <1>3 DEF CoinsAgree, FreshUnlessPulledIn, Caches, EmptyCache

\* view.Flush(): pcoinsTip now answers what the view answered.
LEMMA FlushViewCoins ==
    ASSUME CoinsInv, FlushView
    PROVE  CoinsInv' /\ TipCoins' = ViewCoins /\ ViewCoins' = ViewCoins
<1>1. /\ tipCoins' = [k \in Txids |-> WriteCoins(viewCoins[k], tipCoins[k])]
      /\ dbCoins' = dbCoins /\ DropView
  BY Zenon DEF FlushView, dbVars
<1>2. \A k \in Txids : tipCoins'[k] = WriteCoins(viewCoins[k], tipCoins[k])
  BY Zenon, <1>1
<1>3. tipCoins' \in Caches(Txids, CoinsEntry)
  BY Zenon, <1>1, <1>2, WriteCoinsFacts DEF Caches
<1>4. CoinsAgree(tipCoins, dbCoins)'
  BY Zenon, <1>1, <1>2, WriteCoinsFacts DEF CoinsAgree
<1>5. TipCoins' = ViewCoins
  <2>1. TipCoins' = [k \in Txids |-> IF tipCoins'[k] = NoEntry THEN dbCoins[k] ELSE tipCoins'[k].coins]
    BY Zenon, <1>1 DEF TipCoins, CoinsOver
  <2>2. ViewCoins = [k \in Txids |-> ViewCoins[k]]
    BY Zenon DEF ViewCoins, CoinsOver
  <2> QED BY Zenon, <2>1, <2>2, <1>2, WriteCoinsFacts
<1> QED BY Zenon, <1>1, <1>3, <1>4, <1>5, DropViewCoins DEF CoinsInv

\* The view is dropped: pcoinsTip is what it was.
LEMMA DiscardViewCoins ==
    ASSUME CoinsInv, DiscardView
    PROVE  CoinsInv' /\ TipCoins' = TipCoins /\ ViewCoins' = TipCoins
<1>1. tipCoins' = tipCoins /\ dbCoins' = dbCoins /\ DropView
  BY Zenon DEF DiscardView, dbVars, tipVars
<1>2. TipCoins' = TipCoins
  BY Zenon, <1>1 DEF TipCoins
<1> QED BY Zenon, <1>1, <1>2, DropViewCoins DEF CoinsInv, CoinsAgree

\* pcoinsTip->Flush(): the database holds what pcoinsTip answered.
LEMMA FlushTipCoins ==
    ASSUME CoinsInv, FlushTip
    PROVE  CoinsInv' /\ dbCoins' = TipCoins /\ TipCoins' = TipCoins /\ ViewCoins' = ViewCoins
<1>1. /\ dbCoins' = [k \in Txids |-> CoinsWritten(tipCoins[k], dbCoins[k])]
      /\ tipCoins' = [k \in Txids |-> NoEntry]
      /\ viewCoins' = viewCoins /\ viewOpen' = viewOpen
      /\ viewCoins = EmptyCache(Txids)
  BY Zenon DEF FlushTip, WriteTip, ClearTip, EmptyCache, viewVars, CoinsInv
<1>2. \A k \in Txids : CoinsWritten(tipCoins[k], dbCoins[k]) = TipCoins[k]
  BY Zenon DEF CoinsInv, CoinsAgree, CoinsWritten, TipCoins, CoinsOver
<1>3. TipCoins = [k \in Txids |-> TipCoins[k]]
  BY Zenon DEF TipCoins, CoinsOver
<1>4. dbCoins' = TipCoins
  BY Zenon, <1>1, <1>2, <1>3
<1>5. TipCoins' = [k \in Txids |-> IF tipCoins'[k] = NoEntry THEN dbCoins'[k] ELSE tipCoins'[k].coins]
  BY Zenon DEF TipCoins, CoinsOver
<1>6. TipCoins' = TipCoins
  BY Zenon, <1>1, <1>3, <1>4, <1>5
<1>7. ViewCoins' = ViewCoins
  BY Zenon, <1>1, <1>6 DEF ViewCoins
<1>8. dbCoins' \in [Txids -> Coins]
  BY Zenon, <1>4, CoinsEntryType DEF CoinsInv, TipCoins, CoinsOver
<1>9. tipCoins' \in Caches(Txids, CoinsEntry)
  BY Zenon, <1>1 DEF Caches
<1> QED
  BY Zenon, <1>1, <1>4, <1>6, <1>7, <1>8, <1>9
  DEF CoinsInv, CoinsAgree, FreshUnlessPulledIn, EmptyCache

\* The process ends: every view answers what the database answers.
LEMMA CrashCoins ==
    ASSUME CoinsInv, Crash
    PROVE  CoinsInv' /\ TipCoins' = dbCoins /\ ViewCoins' = dbCoins
<1>1. dbCoins' = dbCoins /\ tipCoins' = [k \in Txids |-> NoEntry] /\ DropView
  BY Zenon DEF Crash, ClearTip, EmptyCache, dbVars
<1>2. tipCoins' \in Caches(Txids, CoinsEntry)
  BY Zenon, <1>1 DEF Caches
<1>3. TipCoins' = [k \in Txids |-> IF tipCoins'[k] = NoEntry THEN dbCoins[k] ELSE tipCoins'[k].coins]
  BY Zenon, <1>1 DEF TipCoins, CoinsOver
<1>4. TipCoins' = dbCoins
  BY Zenon, <1>1, <1>3 DEF CoinsInv
<1> QED BY Zenon, <1>1, <1>2, <1>4, DropViewCoins DEF CoinsInv, CoinsAgree

-----------------------------------------------------------------------------
(* Caches of flags, for nullifiers and anchors alike.                      *)

\* A flag entry of a well-typed cache is either absent or a FlagEntry.
LEMMA FlagEntryType ==
    ASSUME NEW K, NEW cache \in Caches(K, FlagEntry), NEW k \in K, cache[k] # NoEntry
    PROVE  cache[k] \in FlagEntry /\ cache[k].entered \in BOOLEAN /\ cache[k].dirty \in BOOLEAN
BY Zenon DEF Caches, FlagEntry

\* The two kinds of entry the code makes.
LEMMA FlagEntryFacts ==
    ASSUME NEW b \in BOOLEAN
    PROVE  /\ Written(b) \in FlagEntry /\ Written(b) # NoEntry
           /\ Written(b).entered = b /\ Written(b).dirty
           /\ Remembered(b) \in FlagEntry /\ Remembered(b) # NoEntry
           /\ Remembered(b).entered = b /\ ~Remembered(b).dirty
<1>1. Written(b) = [entered |-> b, dirty |-> TRUE]
  BY Zenon DEF Written
<1>2. Remembered(b) = [entered |-> b, dirty |-> FALSE]
  BY Zenon DEF Remembered
<1>3. Written(b) \in FlagEntry /\ Remembered(b) \in FlagEntry
  BY <1>1, <1>2 DEF FlagEntry
<1>4. Written(b).entered = b /\ Written(b).dirty = TRUE
  BY <1>1
<1>5. Remembered(b).entered = b /\ Remembered(b).dirty = FALSE
  BY <1>2
<1> QED BY Zenon, <1>3, <1>4, <1>5

\* What a cache answers is Boolean.
LEMMA FlagsOverType ==
    ASSUME NEW K, NEW cache \in Caches(K, FlagEntry), NEW base \in [K -> BOOLEAN]
    PROVE  FlagsOver(cache, base, K) \in [K -> BOOLEAN]
BY Zenon, FlagEntryType DEF FlagsOver

\* An empty cache answers what its base answers.
LEMMA FlagsEmpty ==
    ASSUME NEW K, NEW base \in [K -> BOOLEAN]
    PROVE  /\ EmptyCache(K) \in Caches(K, FlagEntry)
           /\ FlagsAgree(EmptyCache(K), base, K)
           /\ FlagsOver(EmptyCache(K), base, K) = base
BY Zenon DEF EmptyCache, Caches, FlagsAgree, FlagsOver

\* BatchWriteNullifiers and BatchWriteAnchors: the parent answers what the
\* child answered, and still agrees with its own base.
LEMMA FlagsMerge ==
    ASSUME NEW K, NEW child \in Caches(K, FlagEntry), NEW parent \in Caches(K, FlagEntry),
           NEW base \in [K -> BOOLEAN], FlagsAgree(parent, base, K),
           FlagsAgree(child, FlagsOver(parent, base, K), K)
    PROVE  LET m == [k \in K |-> WriteFlag(child[k], parent[k])]
           IN  /\ m \in Caches(K, FlagEntry)
               /\ FlagsAgree(m, base, K)
               /\ FlagsOver(m, base, K) = FlagsOver(child, FlagsOver(parent, base, K), K)
<1> DEFINE m == [k \in K |-> WriteFlag(child[k], parent[k])]
           over == FlagsOver(parent, base, K)
<1>1. ASSUME NEW k \in K
      PROVE  /\ m[k] \in FlagEntry \cup {NoEntry}
             /\ m[k] # NoEntry /\ ~m[k].dirty => m[k].entered = base[k]
             /\ (IF m[k] = NoEntry THEN base[k] ELSE m[k].entered)
                   = (IF child[k] = NoEntry THEN over[k] ELSE child[k].entered)
  <2>1. over[k] = IF parent[k] = NoEntry THEN base[k] ELSE parent[k].entered
    BY Zenon DEF FlagsOver
  <2>2. m[k] = WriteFlag(child[k], parent[k])
    BY Zenon
  <2>3. parent[k] \in FlagEntry \cup {NoEntry} /\ child[k] \in FlagEntry \cup {NoEntry}
    BY Zenon DEF Caches
  <2>4. parent[k] # NoEntry /\ ~parent[k].dirty => parent[k].entered = base[k]
    BY Zenon DEF FlagsAgree
  <2>5. child[k] # NoEntry /\ ~child[k].dirty => child[k].entered = over[k]
    BY Zenon DEF FlagsAgree
  <2>6. CASE child[k] = NoEntry \/ ~child[k].dirty \/ (parent[k] # NoEntry /\ parent[k].entered = child[k].entered)
    <3>1. m[k] = parent[k]
      BY Zenon, <2>2, <2>6 DEF WriteFlag
    <3> QED BY Zenon, <2>1, <2>3, <2>4, <2>5, <2>6, <3>1
  <2>7. CASE /\ child[k] # NoEntry /\ child[k].dirty
             /\ ~(parent[k] # NoEntry /\ parent[k].entered = child[k].entered)
    <3>1. m[k] = Written(child[k].entered)
      BY Zenon, <2>2, <2>7 DEF WriteFlag
    <3>2. child[k].entered \in BOOLEAN
      BY Zenon, <2>7, FlagEntryType
    <3> QED BY Zenon, <2>7, <3>1, <3>2, FlagEntryFacts
  <2> QED BY Zenon, <2>6, <2>7
<1>2. m \in Caches(K, FlagEntry)
  BY Zenon, <1>1 DEF Caches
<1>3. FlagsAgree(m, base, K)
  BY Zenon, <1>1 DEF FlagsAgree
<1>4. FlagsOver(m, base, K) = FlagsOver(child, over, K)
  <2> HIDE DEF m, over
  <2> QED BY Zenon, <1>1 DEF FlagsOver
<1> QED BY Zenon, <1>2, <1>3, <1>4

\* What CCoinsViewDB::BatchWrite writes is what the cache answered.
LEMMA FlagsDrained ==
    ASSUME NEW K, NEW cache \in Caches(K, FlagEntry), NEW base \in [K -> BOOLEAN],
           FlagsAgree(cache, base, K), NEW k \in K
    PROVE  FlagWritten(cache[k], base[k]) = FlagsOver(cache, base, K)[k]
BY Zenon DEF FlagWritten, FlagsOver, FlagsAgree

-----------------------------------------------------------------------------
(* Nullifiers.                                                             *)

\* What the three views answer about nullifiers is Boolean.
LEMMA NullifiersTypes ==
    ASSUME NullifiersInv
    PROVE  TipNullifiers \in [Nullifiers -> BOOLEAN] /\ ViewNullifiers \in [Nullifiers -> BOOLEAN]
BY Zenon, FlagsOverType DEF NullifiersInv, TipNullifiers, ViewNullifiers

\* A lookup of a nullifier changes no answer.
LEMMA GetNullifierStep ==
    ASSUME NullifiersInv, NEW n \in Nullifiers, GetNullifier(n)
    PROVE  NullifiersInv' /\ TipNullifiers' = TipNullifiers /\ ViewNullifiers' = ViewNullifiers
<1> DEFINE e == Remembered(dbNullifiers[n])
           f == Remembered(tipNullifiers'[n].entered)
<1>1. /\ viewOpen' /\ dbNullifiers' = dbNullifiers
      /\ viewNullifiers[n] = NoEntry
      /\ tipNullifiers' = IF tipNullifiers[n] # NoEntry THEN tipNullifiers
                          ELSE [tipNullifiers EXCEPT ![n] = e]
      /\ viewNullifiers' = [viewNullifiers EXCEPT ![n] = f]
  BY Zenon DEF GetNullifier, dbVars
<1>2. e \in FlagEntry /\ e.entered = dbNullifiers[n]
  BY Zenon, FlagEntryFacts DEF NullifiersInv
<1> HIDE DEF e
<1>3. /\ tipNullifiers' \in Caches(Nullifiers, FlagEntry)
      /\ FlagsAgree(tipNullifiers', dbNullifiers, Nullifiers)
      /\ tipNullifiers'[n] # NoEntry
      /\ TipNullifiers' = TipNullifiers
  <2>1. CASE tipNullifiers[n] # NoEntry
    BY Zenon, <1>1, <2>1 DEF NullifiersInv, TipNullifiers
  <2>2. CASE tipNullifiers[n] = NoEntry
    <3>1. tipNullifiers' = [tipNullifiers EXCEPT ![n] = e]
      BY Zenon, <1>1, <2>2
    <3>2. /\ tipNullifiers' \in Caches(Nullifiers, FlagEntry)
          /\ tipNullifiers'[n] = e /\ e # NoEntry
          /\ \A j \in Nullifiers : j # n => tipNullifiers'[j] = tipNullifiers[j]
      BY Zenon, <3>1, <1>2 DEF NullifiersInv, Caches
    <3>3. FlagsAgree(tipNullifiers', dbNullifiers, Nullifiers)
      BY Zenon, <1>2, <3>2 DEF NullifiersInv, FlagsAgree
    <3>4. TipNullifiers' = TipNullifiers
      BY <1>1, <1>2, <2>2, <3>2 DEF TipNullifiers, FlagsOver
    <3> QED BY Zenon, <3>2, <3>3, <3>4
  <2> QED BY Zenon, <2>1, <2>2
<1>4. f \in FlagEntry /\ f.entered = TipNullifiers[n]
  <2>1. tipNullifiers'[n].entered \in BOOLEAN
    BY Zenon, <1>3, FlagEntryType
  <2>2. f \in FlagEntry /\ f.entered = tipNullifiers'[n].entered
    BY Zenon, <2>1, FlagEntryFacts
  <2>3. tipNullifiers'[n].entered = TipNullifiers'[n]
    BY Zenon, <1>3 DEF TipNullifiers, FlagsOver
  <2> QED BY Zenon, <1>3, <2>2, <2>3
<1> HIDE DEF f
<1>5. /\ viewNullifiers' \in Caches(Nullifiers, FlagEntry)
      /\ viewNullifiers'[n] = f /\ f # NoEntry
      /\ \A j \in Nullifiers : j # n => viewNullifiers'[j] = viewNullifiers[j]
  BY Zenon, <1>1, <1>4 DEF NullifiersInv, Caches
<1>6. FlagsAgree(viewNullifiers', TipNullifiers, Nullifiers)
  BY Zenon, <1>4, <1>5 DEF NullifiersInv, FlagsAgree
<1>7. ViewNullifiers' = ViewNullifiers
  BY <1>1, <1>3, <1>4, <1>5 DEF ViewNullifiers, FlagsOver
<1> QED BY Zenon, <1>1, <1>3, <1>5, <1>6, <1>7 DEF NullifiersInv

\* SetNullifiers changes one answer of the view.
LEMMA SetNullifiersStep ==
    ASSUME NullifiersInv, NEW n \in Nullifiers, NEW spent \in BOOLEAN, SetNullifiers(n, spent)
    PROVE  /\ NullifiersInv'
           /\ TipNullifiers' = TipNullifiers
           /\ ViewNullifiers' = [ViewNullifiers EXCEPT ![n] = spent]
<1> DEFINE e == Written(spent)
<1>1. /\ viewOpen' /\ dbNullifiers' = dbNullifiers /\ tipNullifiers' = tipNullifiers
      /\ viewNullifiers' = [viewNullifiers EXCEPT ![n] = e]
  BY Zenon DEF SetNullifiers, dbVars
<1>2. TipNullifiers' = TipNullifiers
  BY Zenon, <1>1 DEF TipNullifiers
<1>3. e \in FlagEntry /\ e.dirty /\ e.entered = spent
  BY Zenon, FlagEntryFacts
<1> HIDE DEF e
<1>4. /\ viewNullifiers' \in Caches(Nullifiers, FlagEntry)
      /\ viewNullifiers'[n] = e /\ e # NoEntry
      /\ \A j \in Nullifiers : j # n => viewNullifiers'[j] = viewNullifiers[j]
  BY Zenon, <1>1, <1>3 DEF NullifiersInv, Caches
<1>5. FlagsAgree(viewNullifiers', TipNullifiers, Nullifiers)
  BY Zenon, <1>3, <1>4 DEF NullifiersInv, FlagsAgree
<1>6. ViewNullifiers' = [ViewNullifiers EXCEPT ![n] = spent]
  BY Zenon, <1>2, <1>3, <1>4 DEF ViewNullifiers, FlagsOver
<1> QED BY Zenon, <1>1, <1>2, <1>4, <1>5, <1>6 DEF NullifiersInv

\* view.Flush(): pcoinsTip now answers what the view answered.
LEMMA FlushViewNullifiers ==
    ASSUME NullifiersInv, FlushView
    PROVE  /\ NullifiersInv'
           /\ TipNullifiers' = ViewNullifiers /\ ViewNullifiers' = ViewNullifiers
<1>1. /\ tipNullifiers' = [n \in Nullifiers |-> WriteFlag(viewNullifiers[n], tipNullifiers[n])]
      /\ dbNullifiers' = dbNullifiers /\ viewNullifiers' = EmptyCache(Nullifiers)
  BY Zenon DEF FlushView, DropView, dbVars
<1>2. /\ tipNullifiers' \in Caches(Nullifiers, FlagEntry)
      /\ FlagsAgree(tipNullifiers', dbNullifiers, Nullifiers)
      /\ FlagsOver(tipNullifiers', dbNullifiers, Nullifiers) = ViewNullifiers
  BY <1>1, FlagsMerge DEF NullifiersInv, ViewNullifiers, TipNullifiers
<1>3. TipNullifiers' = ViewNullifiers
  BY Zenon, <1>1, <1>2 DEF TipNullifiers
<1>4. /\ viewNullifiers' \in Caches(Nullifiers, FlagEntry)
      /\ FlagsAgree(viewNullifiers', ViewNullifiers, Nullifiers)
      /\ FlagsOver(viewNullifiers', ViewNullifiers, Nullifiers) = ViewNullifiers
  BY Zenon, <1>1, FlagsEmpty, NullifiersTypes
<1>5. ViewNullifiers' = ViewNullifiers
  BY Zenon, <1>3, <1>4 DEF ViewNullifiers
<1> QED BY Zenon, <1>1, <1>2, <1>3, <1>4, <1>5 DEF NullifiersInv

\* The view is dropped.
LEMMA DiscardViewNullifiers ==
    ASSUME NullifiersInv, DiscardView
    PROVE  /\ NullifiersInv'
           /\ TipNullifiers' = TipNullifiers /\ ViewNullifiers' = TipNullifiers
<1>1. /\ tipNullifiers' = tipNullifiers /\ dbNullifiers' = dbNullifiers
      /\ viewNullifiers' = EmptyCache(Nullifiers)
  BY Zenon DEF DiscardView, DropView, dbVars, tipVars
<1>2. TipNullifiers' = TipNullifiers
  BY Zenon, <1>1 DEF TipNullifiers
<1>3. /\ viewNullifiers' \in Caches(Nullifiers, FlagEntry)
      /\ FlagsAgree(viewNullifiers', TipNullifiers, Nullifiers)
      /\ FlagsOver(viewNullifiers', TipNullifiers, Nullifiers) = TipNullifiers
  BY Zenon, <1>1, FlagsEmpty, NullifiersTypes
<1>4. ViewNullifiers' = TipNullifiers
  BY Zenon, <1>2, <1>3 DEF ViewNullifiers
<1> QED BY Zenon, <1>1, <1>2, <1>3, <1>4 DEF NullifiersInv

\* pcoinsTip->Flush(): the database holds what pcoinsTip answered.
LEMMA FlushTipNullifiers ==
    ASSUME NullifiersInv, FlushTip
    PROVE  /\ NullifiersInv' /\ dbNullifiers' = TipNullifiers
           /\ TipNullifiers' = TipNullifiers /\ ViewNullifiers' = ViewNullifiers
<1>1. /\ dbNullifiers' = [n \in Nullifiers |-> FlagWritten(tipNullifiers[n], dbNullifiers[n])]
      /\ tipNullifiers' = EmptyCache(Nullifiers)
      /\ viewNullifiers' = viewNullifiers /\ viewOpen' = viewOpen /\ ~viewOpen
      /\ viewNullifiers = EmptyCache(Nullifiers)
  BY Zenon DEF FlushTip, WriteTip, ClearTip, viewVars, NullifiersInv
<1>2. \A n \in Nullifiers : FlagWritten(tipNullifiers[n], dbNullifiers[n]) = TipNullifiers[n]
  BY Zenon, FlagsDrained DEF NullifiersInv, TipNullifiers
<1>3. dbNullifiers' = TipNullifiers
  BY Zenon, <1>1, <1>2, NullifiersTypes
<1>4. /\ tipNullifiers' \in Caches(Nullifiers, FlagEntry)
      /\ FlagsAgree(tipNullifiers', dbNullifiers', Nullifiers)
      /\ FlagsOver(tipNullifiers', dbNullifiers', Nullifiers) = TipNullifiers
  BY Zenon, <1>1, <1>3, FlagsEmpty, NullifiersTypes
<1>5. TipNullifiers' = TipNullifiers
  BY Zenon, <1>4 DEF TipNullifiers
<1>6. ViewNullifiers' = ViewNullifiers
  BY Zenon, <1>1, <1>5 DEF ViewNullifiers
<1> QED BY Zenon, <1>1, <1>3, <1>4, <1>5, <1>6, NullifiersTypes DEF NullifiersInv

\* The process ends.
LEMMA CrashNullifiers ==
    ASSUME NullifiersInv, Crash
    PROVE  /\ NullifiersInv' /\ TipNullifiers' = dbNullifiers
           /\ ViewNullifiers' = dbNullifiers
<1>1. /\ dbNullifiers' = dbNullifiers
      /\ tipNullifiers' = EmptyCache(Nullifiers) /\ viewNullifiers' = EmptyCache(Nullifiers)
  BY Zenon DEF Crash, ClearTip, DropView, dbVars
<1>2. /\ EmptyCache(Nullifiers) \in Caches(Nullifiers, FlagEntry)
      /\ FlagsAgree(EmptyCache(Nullifiers), dbNullifiers, Nullifiers)
      /\ FlagsOver(EmptyCache(Nullifiers), dbNullifiers, Nullifiers) = dbNullifiers
  BY Zenon, FlagsEmpty DEF NullifiersInv
<1>3. TipNullifiers' = dbNullifiers
  BY Zenon, <1>1, <1>2 DEF TipNullifiers
<1>4. ViewNullifiers' = dbNullifiers
  BY Zenon, <1>1, <1>2, <1>3 DEF ViewNullifiers
<1> QED BY Zenon, <1>1, <1>2, <1>3, <1>4 DEF NullifiersInv

-----------------------------------------------------------------------------
(* Anchors, and the hashes of the best block and the best anchor.          *)

\* What the three views answer is of the right type, and an open view
\* answers its own hashes.
LEMMA HashesTypes ==
    ASSUME HashesInv
    PROVE  /\ TipRoot \in Roots /\ ViewRoot \in Roots
           /\ TipBlock \in Blocks \cup {NullHash} /\ ViewBlock \in Blocks \cup {NullHash}
           /\ viewOpen => ViewRoot = viewRoot /\ ViewBlock = viewBlock
           /\ ~viewOpen => ViewRoot = TipRoot /\ ViewBlock = TipBlock
BY Zenon DEF HashesInv, TipRoot, ViewRoot, TipBlock, ViewBlock, HashOver

\* What the views answer about anchors is Boolean.
LEMMA AnchorsTypes ==
    ASSUME AnchorsInv
    PROVE  TipAnchors \in [Roots -> BOOLEAN] /\ ViewAnchors \in [Roots -> BOOLEAN]
BY Zenon, FlagsOverType DEF AnchorsInv, TipAnchors, ViewAnchors

\* pcoinsTip after a lookup of an anchor: same answers.
LEMMA FetchTipAnchorFacts ==
    ASSUME AnchorsInv, NEW r \in Roots
    PROVE  /\ FetchTipAnchor(r) \in Caches(Roots, FlagEntry)
           /\ FlagsAgree(FetchTipAnchor(r), dbAnchors, Roots)
           /\ FlagsOver(FetchTipAnchor(r), dbAnchors, Roots) = TipAnchors
<1> DEFINE f == FetchTipAnchor(r)
           e == Remembered(TRUE)
<1>1. CASE viewAnchors[r] # NoEntry \/ tipAnchors[r] # NoEntry \/ ~dbAnchors[r]
  BY Zenon, <1>1 DEF AnchorsInv, FetchTipAnchor, FetchAnchor, TipAnchors
<1>2. CASE viewAnchors[r] = NoEntry /\ tipAnchors[r] = NoEntry /\ dbAnchors[r]
  <2>1. f = [tipAnchors EXCEPT ![r] = e]
    BY Zenon, <1>2 DEF FetchTipAnchor, FetchAnchor
  <2>2. e \in FlagEntry /\ e.entered
    BY Zenon, FlagEntryFacts
  <2> HIDE DEF f, e
  <2>3. /\ f \in Caches(Roots, FlagEntry)
        /\ f[r] = e /\ e # NoEntry /\ \A j \in Roots : j # r => f[j] = tipAnchors[j]
    BY Zenon, <2>1, <2>2 DEF AnchorsInv, Caches
  <2>4. e.entered = dbAnchors[r]
    <3>1. e.entered \in BOOLEAN /\ dbAnchors[r] \in BOOLEAN
      BY Zenon, <2>2 DEF AnchorsInv, FlagEntry
    <3> QED BY Zenon, <1>2, <2>2, <3>1
  <2>5. FlagsAgree(f, dbAnchors, Roots)
    BY Zenon, <2>3, <2>4 DEF AnchorsInv, FlagsAgree
  <2>6. FlagsOver(f, dbAnchors, Roots) = TipAnchors
    BY Zenon, <1>2, <2>3, <2>4 DEF TipAnchors, FlagsOver
  <2> QED BY Zenon, <2>3, <2>5, <2>6 DEF f
<1> QED BY Zenon, <1>1, <1>2 DEF AnchorsInv

\* A lookup of an anchor changes no answer.
LEMMA GetSaplingAnchorAtStep ==
    ASSUME AnchorsInv, NEW r \in Roots, GetSaplingAnchorAt(r)
    PROVE  AnchorsInv' /\ TipAnchors' = TipAnchors /\ ViewAnchors' = ViewAnchors
<1> DEFINE e == Remembered(TRUE)
<1>1. /\ viewOpen' /\ dbAnchors' = dbAnchors /\ tipAnchors' = FetchTipAnchor(r)
      /\ dbRoot' = dbRoot /\ tipRoot' = tipRoot /\ viewRoot' = viewRoot
      /\ viewAnchors' = IF viewAnchors[r] # NoEntry \/ ~TipAnchors[r] THEN viewAnchors
                        ELSE [viewAnchors EXCEPT ![r] = e]
  BY Zenon DEF GetSaplingAnchorAt, FetchAnchor, dbVars, hashVars
<1>2. TipAnchors' = TipAnchors
  BY Zenon, <1>1, FetchTipAnchorFacts DEF TipAnchors
<1>3. e \in FlagEntry /\ e.entered /\ e.entered \in BOOLEAN /\ TipAnchors[r] \in BOOLEAN
  BY Zenon, FlagEntryFacts, AnchorsTypes
<1> HIDE DEF e
<1>4. /\ viewAnchors' \in Caches(Roots, FlagEntry)
      /\ FlagsAgree(viewAnchors', TipAnchors, Roots)
      /\ ViewAnchors' = ViewAnchors
  <2>1. CASE viewAnchors[r] # NoEntry \/ ~TipAnchors[r]
    BY Zenon, <1>1, <1>2, <2>1 DEF AnchorsInv, ViewAnchors
  <2>2. CASE viewAnchors[r] = NoEntry /\ TipAnchors[r]
    <3>1. /\ viewAnchors' \in Caches(Roots, FlagEntry)
          /\ viewAnchors'[r] = e /\ e # NoEntry
          /\ \A j \in Roots : j # r => viewAnchors'[j] = viewAnchors[j]
      BY Zenon, <1>1, <1>3, <2>2 DEF AnchorsInv, Caches
    <3>2. e.entered = TipAnchors[r]
      BY Zenon, <1>3, <2>2
    <3>3. FlagsAgree(viewAnchors', TipAnchors, Roots)
      BY Zenon, <3>1, <3>2 DEF AnchorsInv, FlagsAgree
    <3>4. ViewAnchors' = ViewAnchors
      BY Zenon, <1>2, <2>2, <3>1, <3>2 DEF ViewAnchors, FlagsOver
    <3> QED BY Zenon, <3>1, <3>3, <3>4
  <2> QED BY Zenon, <2>1, <2>2, <1>3
<1>5. TipRoot' = TipRoot /\ ViewRoot' = ViewRoot
  BY Zenon, <1>1 DEF TipRoot, ViewRoot
<1> QED BY Zenon, <1>1, <1>2, <1>4, <1>5, FetchTipAnchorFacts DEF AnchorsInv, BestAnchorKnown

\* PushAnchor makes one anchor known and the best one.
LEMMA PushAnchorStep ==
    ASSUME AnchorsInv, HashesInv, NEW r \in Roots, PushAnchor(r)
    PROVE  /\ AnchorsInv' /\ HashesInv'
           /\ TipAnchors' = TipAnchors /\ ViewAnchors' = [ViewAnchors EXCEPT ![r] = TRUE]
           /\ TipRoot' = TipRoot /\ ViewRoot' = r
           /\ TipBlock' = TipBlock /\ ViewBlock' = ViewBlock
<1> DEFINE e == Written(TRUE)
<1>1. /\ viewOpen /\ viewOpen' = viewOpen /\ viewRoot' = r
      /\ dbAnchors' = dbAnchors /\ tipAnchors' = tipAnchors
      /\ viewAnchors' = [viewAnchors EXCEPT ![r] = e]
      /\ dbRoot' = dbRoot /\ tipRoot' = tipRoot
      /\ dbBlock' = dbBlock /\ tipBlock' = tipBlock /\ viewBlock' = viewBlock
  BY Zenon DEF PushAnchor, dbVars, HashesInv
<1>2. TipAnchors' = TipAnchors /\ TipRoot' = TipRoot /\ TipBlock' = TipBlock /\ ViewBlock' = ViewBlock
  BY Zenon, <1>1 DEF TipAnchors, TipRoot, TipBlock, ViewBlock
<1>3. HashesInv' /\ ViewRoot' = r
  BY Zenon, <1>1 DEF HashesInv, ViewRoot, HashOver
<1>4. e \in FlagEntry /\ e.dirty /\ e.entered = TRUE
  BY Zenon, FlagEntryFacts
<1> HIDE DEF e
<1>5. /\ viewAnchors' \in Caches(Roots, FlagEntry)
      /\ viewAnchors'[r] = e /\ e # NoEntry
      /\ \A j \in Roots : j # r => viewAnchors'[j] = viewAnchors[j]
  BY Zenon, <1>1, <1>4 DEF AnchorsInv, Caches
<1>6. FlagsAgree(viewAnchors', TipAnchors, Roots)
  BY Zenon, <1>4, <1>5 DEF AnchorsInv, FlagsAgree
<1>7. ViewAnchors' = [ViewAnchors EXCEPT ![r] = TRUE]
  BY Zenon, <1>2, <1>4, <1>5 DEF ViewAnchors, FlagsOver
<1>8. ViewAnchors'[r] /\ ViewAnchors'[EmptyRoot]
  BY Zenon, <1>7, AnchorsTypes DEF AnchorsInv
<1> QED
  BY Zenon, <1>1, <1>2, <1>3, <1>5, <1>6, <1>7, <1>8 DEF AnchorsInv, BestAnchorKnown

\* PopAnchor forgets the best anchor and goes back to one that is known.
LEMMA PopAnchorStep ==
    ASSUME AnchorsInv, HashesInv, NEW r \in Roots, PopAnchor(r)
    PROVE  /\ AnchorsInv' /\ HashesInv'
           /\ TipAnchors' = TipAnchors /\ ViewAnchors' = [ViewAnchors EXCEPT ![ViewRoot] = FALSE]
           /\ TipRoot' = TipRoot /\ ViewRoot' = r
           /\ TipBlock' = TipBlock /\ ViewBlock' = ViewBlock
<1> DEFINE e == Written(FALSE)
<1>1. /\ viewOpen /\ viewOpen' = viewOpen /\ viewRoot' = r
      /\ dbAnchors' = dbAnchors /\ tipAnchors' = FetchTipAnchor(viewRoot)
      /\ viewAnchors' = [viewAnchors EXCEPT ![viewRoot] = e]
      /\ dbRoot' = dbRoot /\ tipRoot' = tipRoot
      /\ dbBlock' = dbBlock /\ tipBlock' = tipBlock /\ viewBlock' = viewBlock
      /\ viewRoot # EmptyRoot /\ r # viewRoot /\ ViewAnchors[r]
  BY Zenon DEF PopAnchor, dbVars, HashesInv
<1>2. viewRoot \in Roots /\ ViewRoot = viewRoot
  BY Zenon, <1>1, HashesTypes DEF HashesInv
<1>3. TipAnchors' = TipAnchors /\ TipRoot' = TipRoot /\ TipBlock' = TipBlock /\ ViewBlock' = ViewBlock
  BY Zenon, <1>1, <1>2, FetchTipAnchorFacts DEF TipAnchors, TipRoot, TipBlock, ViewBlock
<1>4. HashesInv' /\ ViewRoot' = r
  BY Zenon, <1>1 DEF HashesInv, ViewRoot, HashOver
<1>5. e \in FlagEntry /\ e.dirty /\ e.entered = FALSE
  BY Zenon, FlagEntryFacts
<1> HIDE DEF e
<1>6. /\ viewAnchors' \in Caches(Roots, FlagEntry)
      /\ viewAnchors'[viewRoot] = e /\ e # NoEntry
      /\ \A j \in Roots : j # viewRoot => viewAnchors'[j] = viewAnchors[j]
  BY Zenon, <1>1, <1>2, <1>5 DEF AnchorsInv, Caches
<1>7. FlagsAgree(viewAnchors', TipAnchors, Roots)
  BY Zenon, <1>5, <1>6 DEF AnchorsInv, FlagsAgree
<1>8. ViewAnchors' = [ViewAnchors EXCEPT ![viewRoot] = FALSE]
  BY Zenon, <1>2, <1>3, <1>5, <1>6 DEF ViewAnchors, FlagsOver
<1>9. ViewAnchors'[r] /\ ViewAnchors'[EmptyRoot]
  BY Zenon, <1>1, <1>8, AnchorsTypes DEF AnchorsInv
<1> QED
  BY Zenon, <1>1, <1>2, <1>3, <1>4, <1>6, <1>7, <1>8, <1>9, FetchTipAnchorFacts DEF AnchorsInv, BestAnchorKnown

\* view.Flush(): pcoinsTip now answers what the view answered.
LEMMA FlushViewAnchors ==
    ASSUME AnchorsInv, HashesInv, FlushView
    PROVE  /\ AnchorsInv' /\ HashesInv'
           /\ TipAnchors' = ViewAnchors /\ ViewAnchors' = ViewAnchors
           /\ TipRoot' = ViewRoot /\ ViewRoot' = ViewRoot
           /\ TipBlock' = ViewBlock /\ ViewBlock' = ViewBlock
<1>1. /\ tipAnchors' = [r \in Roots |-> WriteFlag(viewAnchors[r], tipAnchors[r])]
      /\ dbAnchors' = dbAnchors /\ viewAnchors' = EmptyCache(Roots)
      /\ viewOpen /\ ~viewOpen' /\ viewOpen' \in BOOLEAN
      /\ tipRoot' = viewRoot /\ tipBlock' = viewBlock
      /\ viewRoot' = NullHash /\ viewBlock' = NullHash
      /\ dbRoot' = dbRoot /\ dbBlock' = dbBlock
  BY Zenon DEF FlushView, DropView, dbVars
<1>2. HashesInv'
  BY Zenon, <1>1 DEF HashesInv
<1>3. /\ TipRoot' = ViewRoot /\ ViewRoot' = ViewRoot
      /\ TipBlock' = ViewBlock /\ ViewBlock' = ViewBlock
  BY Zenon, <1>1 DEF HashesInv, TipRoot, ViewRoot, TipBlock, ViewBlock, HashOver
<1>4. /\ tipAnchors' \in Caches(Roots, FlagEntry)
      /\ FlagsAgree(tipAnchors', dbAnchors, Roots)
      /\ FlagsOver(tipAnchors', dbAnchors, Roots) = ViewAnchors
  BY <1>1, FlagsMerge DEF AnchorsInv, ViewAnchors, TipAnchors
<1>5. TipAnchors' = ViewAnchors
  BY Zenon, <1>1, <1>4 DEF TipAnchors
<1>6. /\ viewAnchors' \in Caches(Roots, FlagEntry)
      /\ FlagsAgree(viewAnchors', ViewAnchors, Roots)
      /\ FlagsOver(viewAnchors', ViewAnchors, Roots) = ViewAnchors
  BY Zenon, <1>1, FlagsEmpty, AnchorsTypes
<1>7. ViewAnchors' = ViewAnchors
  BY Zenon, <1>5, <1>6 DEF ViewAnchors
<1> QED BY Zenon, <1>1, <1>2, <1>3, <1>4, <1>5, <1>6, <1>7 DEF AnchorsInv, BestAnchorKnown

\* The view is dropped.
LEMMA DiscardViewAnchors ==
    ASSUME AnchorsInv, HashesInv, DiscardView
    PROVE  /\ AnchorsInv' /\ HashesInv'
           /\ TipAnchors' = TipAnchors /\ ViewAnchors' = TipAnchors
           /\ TipRoot' = TipRoot /\ ViewRoot' = TipRoot
           /\ TipBlock' = TipBlock /\ ViewBlock' = TipBlock
<1>1. /\ tipAnchors' = tipAnchors /\ dbAnchors' = dbAnchors /\ viewAnchors' = EmptyCache(Roots)
      /\ ~viewOpen' /\ viewOpen' \in BOOLEAN
      /\ tipRoot' = tipRoot /\ tipBlock' = tipBlock
      /\ viewRoot' = NullHash /\ viewBlock' = NullHash
      /\ dbRoot' = dbRoot /\ dbBlock' = dbBlock
  BY Zenon DEF DiscardView, DropView, dbVars, tipVars
<1>2. HashesInv'
  BY Zenon, <1>1 DEF HashesInv
<1>3. /\ TipAnchors' = TipAnchors /\ TipRoot' = TipRoot /\ ViewRoot' = TipRoot
      /\ TipBlock' = TipBlock /\ ViewBlock' = TipBlock
  BY Zenon, <1>1 DEF TipAnchors, TipRoot, ViewRoot, TipBlock, ViewBlock, HashOver
<1>4. /\ viewAnchors' \in Caches(Roots, FlagEntry)
      /\ FlagsAgree(viewAnchors', TipAnchors, Roots)
      /\ FlagsOver(viewAnchors', TipAnchors, Roots) = TipAnchors
  BY Zenon, <1>1, FlagsEmpty, AnchorsTypes
<1>5. ViewAnchors' = TipAnchors
  BY Zenon, <1>3, <1>4 DEF ViewAnchors
<1> QED BY Zenon, <1>1, <1>2, <1>3, <1>4, <1>5 DEF AnchorsInv, BestAnchorKnown

\* pcoinsTip->Flush(): the database holds what pcoinsTip answered.  The
\* empty tree is the one anchor the database never stores.
LEMMA FlushTipAnchors ==
    ASSUME AnchorsInv, HashesInv, FlushTip
    PROVE  /\ AnchorsInv' /\ HashesInv'
           /\ dbAnchors' = TipAnchors /\ TipAnchors' = TipAnchors /\ ViewAnchors' = ViewAnchors
           /\ dbRoot' = TipRoot /\ TipRoot' = TipRoot /\ ViewRoot' = ViewRoot
           /\ dbBlock' = TipBlock /\ TipBlock' = TipBlock /\ ViewBlock' = ViewBlock
<1>1. /\ dbAnchors' = [r \in Roots |-> r = EmptyRoot \/ FlagWritten(tipAnchors[r], dbAnchors[r])]
      /\ tipAnchors' = EmptyCache(Roots)
      /\ viewAnchors' = viewAnchors /\ viewAnchors = EmptyCache(Roots)
      /\ viewOpen' = viewOpen /\ ~viewOpen
      /\ tipRoot' = tipRoot /\ tipBlock' = tipBlock
      /\ viewRoot' = viewRoot /\ viewBlock' = viewBlock
      /\ dbBlock' = HashWritten(tipBlock, dbBlock) /\ dbRoot' = HashWritten(tipRoot, dbRoot)
  BY Zenon DEF FlushTip, WriteTip, ClearTip, viewVars, AnchorsInv
<1>2. HashesInv'
  BY Zenon, <1>1 DEF HashesInv, HashWritten
<1>3. /\ dbRoot' = TipRoot /\ TipRoot' = TipRoot /\ ViewRoot' = ViewRoot
      /\ dbBlock' = TipBlock /\ TipBlock' = TipBlock /\ ViewBlock' = ViewBlock
  BY Zenon, <1>1 DEF HashesInv, HashWritten, TipRoot, ViewRoot, TipBlock, ViewBlock, HashOver
<1>4. \A r \in Roots : FlagWritten(tipAnchors[r], dbAnchors[r]) = TipAnchors[r]
  BY Zenon, FlagsDrained DEF AnchorsInv, TipAnchors
<1>5. dbAnchors' = TipAnchors
  <2>1. TipAnchors \in [Roots -> BOOLEAN] /\ TipAnchors[EmptyRoot]
    BY Zenon, AnchorsTypes DEF AnchorsInv
  <2>2. \A r \in Roots : dbAnchors'[r] = TipAnchors[r]
    BY Zenon, <1>1, <1>4, <2>1
  <2> QED BY Zenon, <1>1, <2>1, <2>2
<1>6. /\ tipAnchors' \in Caches(Roots, FlagEntry)
      /\ FlagsAgree(tipAnchors', TipAnchors, Roots)
      /\ FlagsOver(tipAnchors', TipAnchors, Roots) = TipAnchors
  BY Zenon, <1>1, FlagsEmpty, AnchorsTypes
<1>7. TipAnchors' = TipAnchors
  BY Zenon, <1>5, <1>6 DEF TipAnchors
<1>8. ViewAnchors' = ViewAnchors
  BY Zenon, <1>1, <1>7 DEF ViewAnchors
<1> QED BY Zenon, <1>1, <1>2, <1>3, <1>5, <1>6, <1>7, <1>8, AnchorsTypes DEF AnchorsInv, BestAnchorKnown

\* The process ends.
LEMMA CrashAnchors ==
    ASSUME AnchorsInv, HashesInv, Crash
    PROVE  /\ AnchorsInv' /\ HashesInv'
           /\ TipAnchors' = dbAnchors /\ ViewAnchors' = dbAnchors
           /\ TipRoot' = dbRoot /\ ViewRoot' = dbRoot
           /\ TipBlock' = dbBlock /\ ViewBlock' = dbBlock
<1>1. /\ dbAnchors' = dbAnchors /\ dbRoot' = dbRoot /\ dbBlock' = dbBlock
      /\ tipAnchors' = EmptyCache(Roots) /\ viewAnchors' = EmptyCache(Roots)
      /\ tipRoot' = NullHash /\ tipBlock' = NullHash
      /\ viewRoot' = NullHash /\ viewBlock' = NullHash
      /\ ~viewOpen' /\ viewOpen' \in BOOLEAN
  BY Zenon DEF Crash, ClearTip, DropView, dbVars
<1>2. HashesInv'
  BY Zenon, <1>1 DEF HashesInv
<1>3. /\ TipRoot' = dbRoot /\ ViewRoot' = dbRoot
      /\ TipBlock' = dbBlock /\ ViewBlock' = dbBlock
  BY Zenon, <1>1 DEF TipRoot, ViewRoot, TipBlock, ViewBlock, HashOver
<1>4. /\ EmptyCache(Roots) \in Caches(Roots, FlagEntry)
      /\ FlagsAgree(EmptyCache(Roots), dbAnchors, Roots)
      /\ FlagsOver(EmptyCache(Roots), dbAnchors, Roots) = dbAnchors
  BY Zenon, FlagsEmpty DEF AnchorsInv
<1>5. TipAnchors' = dbAnchors
  BY Zenon, <1>1, <1>4 DEF TipAnchors
<1>6. ViewAnchors' = dbAnchors
  BY Zenon, <1>1, <1>4, <1>5 DEF ViewAnchors
<1> QED BY Zenon, <1>1, <1>2, <1>3, <1>4, <1>5, <1>6 DEF AnchorsInv, BestAnchorKnown

-----------------------------------------------------------------------------
(* Steps that leave a kind of data alone.                                  *)

\* Coins are untouched by a step of the nullifiers, anchors or hashes.
LEMMA CoinsKept ==
    ASSUME CoinsInv, UNCHANGED <<dbCoins, tipCoins, viewCoins>>, viewOpen' = viewOpen \/ viewOpen'
    PROVE  CoinsInv' /\ TipCoins' = TipCoins /\ ViewCoins' = ViewCoins
<1>1. TipCoins' = TipCoins /\ ViewCoins' = ViewCoins
  BY Zenon DEF TipCoins, ViewCoins
<1> QED BY Zenon, <1>1 DEF CoinsInv, CoinsAgree, FreshUnlessPulledIn

\* Nullifiers are untouched by a step of the coins, anchors or hashes.
LEMMA NullifiersKept ==
    ASSUME NullifiersInv, UNCHANGED <<dbNullifiers, tipNullifiers, viewNullifiers>>,
           viewOpen' = viewOpen \/ viewOpen'
    PROVE  NullifiersInv' /\ TipNullifiers' = TipNullifiers /\ ViewNullifiers' = ViewNullifiers
<1>1. TipNullifiers' = TipNullifiers /\ ViewNullifiers' = ViewNullifiers
  BY Zenon DEF TipNullifiers, ViewNullifiers
<1> QED BY Zenon, <1>1 DEF NullifiersInv

\* Anchors are untouched by a step after which the views answer the same roots.
LEMMA AnchorsKept ==
    ASSUME AnchorsInv, UNCHANGED <<dbAnchors, tipAnchors, viewAnchors, dbRoot>>,
           viewOpen' = viewOpen \/ viewOpen', TipRoot' = TipRoot, ViewRoot' = ViewRoot
    PROVE  AnchorsInv' /\ TipAnchors' = TipAnchors /\ ViewAnchors' = ViewAnchors
<1>1. TipAnchors' = TipAnchors /\ ViewAnchors' = ViewAnchors
  BY Zenon DEF TipAnchors, ViewAnchors
<1> QED BY Zenon, <1>1 DEF AnchorsInv, BestAnchorKnown

\* Hashes are untouched by a step of the coins, nullifiers or lookups.
LEMMA HashesKept ==
    ASSUME HashesInv, UNCHANGED <<dbBlock, dbRoot, tipBlock, tipRoot, viewBlock, viewRoot, viewOpen>>
    PROVE  /\ HashesInv' /\ TipRoot' = TipRoot /\ ViewRoot' = ViewRoot
           /\ TipBlock' = TipBlock /\ ViewBlock' = ViewBlock
BY Zenon DEF HashesInv, TipRoot, ViewRoot, TipBlock, ViewBlock

\* A view is opened: nobody sees a difference.
LEMMA OpenViewHashes ==
    ASSUME HashesInv, OpenView
    PROVE  /\ HashesInv' /\ TipRoot' = TipRoot /\ ViewRoot' = ViewRoot
           /\ TipBlock' = TipBlock /\ ViewBlock' = ViewBlock
<1>1. /\ ~viewOpen /\ viewOpen' = TRUE /\ TipBlock # NullHash
      /\ tipBlock' = TipBlock /\ viewBlock' = TipBlock
      /\ tipRoot' = TipRoot /\ viewRoot' = TipRoot
      /\ dbBlock' = dbBlock /\ dbRoot' = dbRoot
  BY Zenon DEF OpenView, dbVars
<1>2. /\ TipRoot \in Roots /\ ViewRoot = TipRoot
      /\ TipBlock \in Blocks /\ ViewBlock = TipBlock
  BY Zenon, <1>1, HashesTypes
<1>3. HashesInv'
  BY Zenon, <1>1, <1>2 DEF HashesInv
<1> QED BY Zenon, <1>1, <1>2, <1>3 DEF TipRoot, ViewRoot, TipBlock, ViewBlock, HashOver

\* The genesis block: a best block, and still the empty tree of the database.
LEMMA ConnectGenesisHashes ==
    ASSUME HashesInv, NEW b \in Blocks, ConnectGenesis(b)
    PROVE  /\ HashesInv' /\ TipRoot' = TipRoot /\ ViewRoot' = ViewRoot
           /\ TipBlock = NullHash /\ TipBlock' = b /\ ViewBlock' = b
<1>1. /\ ~viewOpen /\ viewOpen' = viewOpen /\ TipBlock = NullHash
      /\ tipBlock' = b /\ tipRoot' = NullHash
      /\ viewBlock' = viewBlock /\ viewRoot' = viewRoot
      /\ dbBlock' = dbBlock /\ dbRoot' = dbRoot
  BY Zenon DEF ConnectGenesis, dbVars
<1>2. tipBlock = NullHash /\ tipRoot = NullHash /\ viewBlock = NullHash /\ viewRoot = NullHash
  BY Zenon, <1>1 DEF HashesInv, TipBlock, HashOver
<1>3. HashesInv'
  BY Zenon, <1>1, <1>2 DEF HashesInv
<1> QED BY Zenon, <1>1, <1>2, <1>3 DEF TipRoot, ViewRoot, TipBlock, ViewBlock, HashOver

\* SetBestBlock changes the best block of the view.
LEMMA SetBestBlockHashes ==
    ASSUME HashesInv, NEW b \in Blocks, SetBestBlock(b)
    PROVE  /\ HashesInv' /\ TipRoot' = TipRoot /\ ViewRoot' = ViewRoot
           /\ TipBlock' = TipBlock /\ ViewBlock' = b
<1>1. /\ viewOpen /\ viewOpen' = viewOpen /\ viewBlock' = b
      /\ tipBlock' = tipBlock /\ tipRoot' = tipRoot /\ viewRoot' = viewRoot
      /\ dbBlock' = dbBlock /\ dbRoot' = dbRoot
  BY Zenon DEF SetBestBlock, dbVars, tipVars
<1>2. HashesInv'
  BY Zenon, <1>1 DEF HashesInv
<1> QED BY Zenon, <1>1, <1>2 DEF TipRoot, ViewRoot, TipBlock, ViewBlock, HashOver

-----------------------------------------------------------------------------
(* Every step preserves the invariant and is a step of the flat model.     *)

\* What the view answers about coins is well typed.
LEMMA ViewCoinsType ==
    ASSUME CoinsInv
    PROVE  ViewCoins \in [Txids -> Coins]
<1>1. TipCoins \in [Txids -> Coins]
  BY Zenon, CoinsEntryType DEF CoinsInv, TipCoins, CoinsOver
<1> QED BY Zenon, <1>1, CoinsEntryType DEF CoinsInv, ViewCoins, CoinsOver

\* A step after which the three views answer as before.
LEMMA ReadStep ==
    ASSUME UNCHANGED dbVars,
           TipCoins' = TipCoins, ViewCoins' = ViewCoins,
           TipNullifiers' = TipNullifiers, ViewNullifiers' = ViewNullifiers,
           TipAnchors' = TipAnchors, ViewAnchors' = ViewAnchors,
           TipBlock' = TipBlock, ViewBlock' = ViewBlock,
           TipRoot' = TipRoot, ViewRoot' = ViewRoot
    PROVE  UNCHANGED Flat!vars
BY Zenon DEF dbVars, Flat!vars

\* A step of ModifyCoins, whoever calls it.
LEMMA ModifyCoinsSimulated ==
    ASSUME IInv, NEW k \in Txids, NEW new \in Coins, ModifyCoins(k, new)
    PROVE  IInv' /\ Flat!ModifyCoins(k, new)
<1>1. /\ UNCHANGED <<dbNullifiers, tipNullifiers, viewNullifiers, dbAnchors, tipAnchors, viewAnchors>>
      /\ UNCHANGED <<dbBlock, dbRoot, tipBlock, tipRoot, viewBlock, viewRoot, viewOpen>>
      /\ UNCHANGED dbCoins
  BY Zenon DEF ModifyCoins, dbVars, nullifierVars, anchorVars, hashVars
<1>2. CoinsInv' /\ TipCoins' = TipCoins /\ ViewCoins' = [ViewCoins EXCEPT ![k] = new]
  BY Zenon, ModifyCoinsStep DEF IInv
<1>3. NullifiersInv' /\ TipNullifiers' = TipNullifiers /\ ViewNullifiers' = ViewNullifiers
  BY Zenon, <1>1, NullifiersKept DEF IInv
<1>4. /\ HashesInv' /\ TipRoot' = TipRoot /\ ViewRoot' = ViewRoot
      /\ TipBlock' = TipBlock /\ ViewBlock' = ViewBlock
  BY Zenon, <1>1, HashesKept DEF IInv
<1>5. AnchorsInv' /\ TipAnchors' = TipAnchors /\ ViewAnchors' = ViewAnchors
  BY Zenon, <1>1, <1>4, AnchorsKept DEF IInv
<1>6. Flat!ModifyCoins(k, new)
  BY <1>1, <1>2, <1>3, <1>4, <1>5 DEF Flat!ModifyCoins, Flat!UpdateView
<1> QED BY Zenon, <1>2, <1>3, <1>4, <1>5, <1>6 DEF IInv

\* Steps of the coins.
LEMMA CoinsSimulated ==
    ASSUME IInv, NEW k \in Txids,
           \/ AccessTipCoins(k) \/ AccessCoins(k) \/ ClearCoins(k)
           \/ \E o \in Outputs : Spend(k, o) \/ ApplyTxInUndo(k, o)
           \/ \E outs \in Coins : FromTx(k, outs)
    PROVE  IInv' /\ [Flat!Next]_(Flat!vars)
<1>1. CASE AccessTipCoins(k) \/ AccessCoins(k)
  <2>1. /\ UNCHANGED <<dbNullifiers, tipNullifiers, viewNullifiers, dbAnchors, tipAnchors, viewAnchors>>
        /\ UNCHANGED <<dbBlock, dbRoot, tipBlock, tipRoot, viewBlock, viewRoot, viewOpen>>
        /\ UNCHANGED dbVars
    BY Zenon, <1>1 DEF AccessTipCoins, AccessCoins, dbVars, nullifierVars, anchorVars, hashVars
  <2>2. CoinsInv' /\ TipCoins' = TipCoins /\ ViewCoins' = ViewCoins
    BY Zenon, <1>1, AccessTipCoinsStep, AccessCoinsStep DEF IInv
  <2>3. NullifiersInv' /\ TipNullifiers' = TipNullifiers /\ ViewNullifiers' = ViewNullifiers
    BY Zenon, <2>1, NullifiersKept DEF IInv
  <2>4. /\ HashesInv' /\ TipRoot' = TipRoot /\ ViewRoot' = ViewRoot
        /\ TipBlock' = TipBlock /\ ViewBlock' = ViewBlock
    BY Zenon, <2>1, HashesKept DEF IInv
  <2>5. AnchorsInv' /\ TipAnchors' = TipAnchors /\ ViewAnchors' = ViewAnchors
    BY Zenon, <2>1, <2>4, AnchorsKept DEF IInv
  <2> QED BY Zenon, <2>1, <2>2, <2>3, <2>4, <2>5, ReadStep DEF IInv
<1>2. ASSUME NEW new \in Coins, ModifyCoins(k, new)
      PROVE  IInv' /\ [Flat!Next]_(Flat!vars)
  <2>1. IInv' /\ Flat!ModifyCoins(k, new)
    BY Zenon, <1>2, ModifyCoinsSimulated
  <2> QED BY Zenon, <2>1 DEF Flat!Next, Flat!Coins, Coins
<1>3. ViewCoins[k] \in Coins
  BY Zenon, ViewCoinsType DEF IInv
<1>4. CASE ClearCoins(k)
  BY Zenon, <1>2, <1>4 DEF ClearCoins, Coins, Pruned
<1>5. ASSUME NEW o \in Outputs, Spend(k, o) \/ ApplyTxInUndo(k, o)
      PROVE  IInv' /\ [Flat!Next]_(Flat!vars)
  <2>1. ViewCoins[k] \ {o} \in Coins /\ ViewCoins[k] \cup {o} \in Coins
    BY Zenon, <1>3 DEF Coins
  <2> QED BY Zenon, <1>2, <1>5, <2>1 DEF Spend, ApplyTxInUndo
<1>6. ASSUME NEW outs \in Coins, FromTx(k, outs)
      PROVE  IInv' /\ [Flat!Next]_(Flat!vars)
  BY Zenon, <1>2, <1>6 DEF FromTx
<1> QED BY Zenon, <1>1, <1>4, <1>5, <1>6

\* Steps of the nullifiers.
LEMMA NullifiersSimulated ==
    ASSUME IInv, NEW n \in Nullifiers,
           GetNullifier(n) \/ \E spent \in BOOLEAN : SetNullifiers(n, spent)
    PROVE  IInv' /\ [Flat!Next]_(Flat!vars)
<1>1. /\ UNCHANGED <<dbCoins, tipCoins, viewCoins, dbAnchors, tipAnchors, viewAnchors>>
      /\ UNCHANGED <<dbBlock, dbRoot, tipBlock, tipRoot, viewBlock, viewRoot, viewOpen>>
      /\ UNCHANGED dbVars
  BY Zenon DEF GetNullifier, SetNullifiers, dbVars, coinVars, anchorVars, hashVars
<1>2. CoinsInv' /\ TipCoins' = TipCoins /\ ViewCoins' = ViewCoins
  BY Zenon, <1>1, CoinsKept DEF IInv
<1>3. /\ HashesInv' /\ TipRoot' = TipRoot /\ ViewRoot' = ViewRoot
      /\ TipBlock' = TipBlock /\ ViewBlock' = ViewBlock
  BY Zenon, <1>1, HashesKept DEF IInv
<1>4. AnchorsInv' /\ TipAnchors' = TipAnchors /\ ViewAnchors' = ViewAnchors
  BY Zenon, <1>1, <1>3, AnchorsKept DEF IInv
<1>5. CASE GetNullifier(n)
  <2>1. NullifiersInv' /\ TipNullifiers' = TipNullifiers /\ ViewNullifiers' = ViewNullifiers
    BY Zenon, <1>5, GetNullifierStep DEF IInv
  <2> QED BY Zenon, <2>1, <1>1, <1>2, <1>3, <1>4, ReadStep DEF IInv
<1>6. ASSUME NEW spent \in BOOLEAN, SetNullifiers(n, spent)
      PROVE  IInv' /\ [Flat!Next]_(Flat!vars)
  <2>1. /\ NullifiersInv' /\ TipNullifiers' = TipNullifiers
        /\ ViewNullifiers' = [ViewNullifiers EXCEPT ![n] = spent]
    BY Zenon, <1>6, SetNullifiersStep DEF IInv
  <2>2. Flat!SetNullifier(n, spent)
    BY <1>1, <1>2, <1>3, <1>4, <2>1 DEF Flat!SetNullifier, Flat!UpdateView, dbVars
  <2>3. Flat!Next
    BY Zenon, <2>2 DEF Flat!Next
  <2> QED BY Zenon, <1>2, <1>3, <1>4, <2>1, <2>3 DEF IInv
<1> QED BY Zenon, <1>5, <1>6

\* Steps of the anchors.
LEMMA AnchorsSimulated ==
    ASSUME IInv, NEW r \in Roots, GetSaplingAnchorAt(r) \/ PushAnchor(r) \/ PopAnchor(r)
    PROVE  IInv' /\ [Flat!Next]_(Flat!vars)
<1>1. /\ UNCHANGED <<dbCoins, tipCoins, viewCoins, dbNullifiers, tipNullifiers, viewNullifiers, viewOpen>>
      /\ UNCHANGED dbVars
  BY Zenon DEF GetSaplingAnchorAt, PushAnchor, PopAnchor, dbVars, coinVars, nullifierVars
<1>2. CoinsInv' /\ TipCoins' = TipCoins /\ ViewCoins' = ViewCoins
  BY Zenon, <1>1, CoinsKept DEF IInv
<1>3. NullifiersInv' /\ TipNullifiers' = TipNullifiers /\ ViewNullifiers' = ViewNullifiers
  BY Zenon, <1>1, NullifiersKept DEF IInv
<1>4. CASE GetSaplingAnchorAt(r)
  <2>1. AnchorsInv' /\ TipAnchors' = TipAnchors /\ ViewAnchors' = ViewAnchors
    BY Zenon, <1>4, GetSaplingAnchorAtStep DEF IInv
  <2>2. UNCHANGED <<dbBlock, dbRoot, tipBlock, tipRoot, viewBlock, viewRoot, viewOpen>>
    BY Zenon, <1>4 DEF GetSaplingAnchorAt, dbVars, hashVars
  <2>3. /\ HashesInv' /\ TipRoot' = TipRoot /\ ViewRoot' = ViewRoot
        /\ TipBlock' = TipBlock /\ ViewBlock' = ViewBlock
    BY Zenon, <2>2, HashesKept DEF IInv
  <2> QED BY Zenon, <1>1, <1>2, <1>3, <2>1, <2>3, ReadStep DEF IInv
<1>5. CASE PushAnchor(r)
  <2>1. /\ AnchorsInv' /\ HashesInv'
        /\ TipAnchors' = TipAnchors /\ ViewAnchors' = [ViewAnchors EXCEPT ![r] = TRUE]
        /\ TipRoot' = TipRoot /\ ViewRoot' = r
        /\ TipBlock' = TipBlock /\ ViewBlock' = ViewBlock
    BY Zenon, <1>5, PushAnchorStep DEF IInv
  <2>2. Flat!PushAnchor(r)
    <3> DEFINE A == [ViewAnchors EXCEPT ![r] = TRUE]
    <3>1. ViewAnchors' = A
      BY Zenon, <2>1
    <3> HIDE DEF A
    <3>2. TipAnchors' = TipAnchors /\ TipRoot' = TipRoot /\ ViewRoot' = r
          /\ TipBlock' = TipBlock /\ ViewBlock' = ViewBlock
      BY Zenon, <2>1
    <3>3. Flat!SetAnchors(A, r)
      BY Zenon, <1>1, <1>2, <1>3, <3>1, <3>2 DEF Flat!SetAnchors, Flat!UpdateView, dbVars
    <3> QED BY Zenon, <3>3 DEF A, Flat!PushAnchor
  <2>3. Flat!Next
    BY Zenon, <2>2 DEF Flat!Next
  <2> QED BY Zenon, <1>2, <1>3, <2>1, <2>3 DEF IInv
<1>6. CASE PopAnchor(r)
  <2>1. /\ AnchorsInv' /\ HashesInv'
        /\ TipAnchors' = TipAnchors /\ ViewAnchors' = [ViewAnchors EXCEPT ![ViewRoot] = FALSE]
        /\ TipRoot' = TipRoot /\ ViewRoot' = r
        /\ TipBlock' = TipBlock /\ ViewBlock' = ViewBlock
    BY Zenon, <1>6, PopAnchorStep DEF IInv
  <2>2. ViewAnchors[ViewRoot]
    BY Zenon DEF IInv, AnchorsInv, BestAnchorKnown
  <2>3. Flat!PopAnchor(r)
    <3> DEFINE A == [ViewAnchors EXCEPT ![ViewRoot] = FALSE]
    <3>1. ViewAnchors' = A
      BY Zenon, <2>1
    <3> HIDE DEF A
    <3>2. TipAnchors' = TipAnchors /\ TipRoot' = TipRoot /\ ViewRoot' = r
          /\ TipBlock' = TipBlock /\ ViewBlock' = ViewBlock
      BY Zenon, <2>1
    <3>3. Flat!SetAnchors(A, r)
      BY Zenon, <1>1, <1>2, <1>3, <3>1, <3>2 DEF Flat!SetAnchors, Flat!UpdateView, dbVars
    <3> QED BY Zenon, <2>2, <3>3 DEF A, Flat!PopAnchor
  <2>4. Flat!Next
    BY Zenon, <2>3 DEF Flat!Next
  <2> QED BY Zenon, <1>2, <1>3, <2>1, <2>4 DEF IInv
<1> QED BY Zenon, <1>4, <1>5, <1>6

\* Steps of the best block, and the opening of a view.
LEMMA HashesSimulated ==
    ASSUME IInv, OpenView \/ \E b \in Blocks : SetBestBlock(b) \/ ConnectGenesis(b)
    PROVE  IInv' /\ [Flat!Next]_(Flat!vars)
<1>1. /\ UNCHANGED <<dbCoins, tipCoins, viewCoins, dbNullifiers, tipNullifiers, viewNullifiers>>
      /\ UNCHANGED <<dbAnchors, tipAnchors, viewAnchors, dbRoot>>
      /\ UNCHANGED dbVars
      /\ viewOpen' = viewOpen \/ viewOpen'
  BY Zenon DEF OpenView, SetBestBlock, ConnectGenesis, dbVars, tipVars, coinVars, nullifierVars, anchorVars
<1>2. CoinsInv' /\ TipCoins' = TipCoins /\ ViewCoins' = ViewCoins
  BY Zenon, <1>1, CoinsKept DEF IInv
<1>3. NullifiersInv' /\ TipNullifiers' = TipNullifiers /\ ViewNullifiers' = ViewNullifiers
  BY Zenon, <1>1, NullifiersKept DEF IInv
<1>4. CASE OpenView
  <2>1. /\ HashesInv' /\ TipRoot' = TipRoot /\ ViewRoot' = ViewRoot
        /\ TipBlock' = TipBlock /\ ViewBlock' = ViewBlock
    BY Zenon, <1>4, OpenViewHashes DEF IInv
  <2>2. AnchorsInv' /\ TipAnchors' = TipAnchors /\ ViewAnchors' = ViewAnchors
    BY Zenon, <1>1, <2>1, AnchorsKept DEF IInv
  <2> QED BY Zenon, <1>1, <1>2, <1>3, <2>1, <2>2, ReadStep DEF IInv
<1>5. ASSUME NEW b \in Blocks, SetBestBlock(b)
      PROVE  IInv' /\ [Flat!Next]_(Flat!vars)
  <2>1. /\ HashesInv' /\ TipRoot' = TipRoot /\ ViewRoot' = ViewRoot
        /\ TipBlock' = TipBlock /\ ViewBlock' = b
    BY Zenon, <1>5, SetBestBlockHashes DEF IInv
  <2>2. AnchorsInv' /\ TipAnchors' = TipAnchors /\ ViewAnchors' = ViewAnchors
    BY Zenon, <1>1, <2>1, AnchorsKept DEF IInv
  <2>3. Flat!SetBestBlock(b)
    BY <1>1, <1>2, <1>3, <2>1, <2>2 DEF Flat!SetBestBlock, Flat!UpdateView, dbVars
  <2>4. Flat!Next
    BY Zenon, <2>3 DEF Flat!Next
  <2> QED BY Zenon, <1>2, <1>3, <2>1, <2>2, <2>4 DEF IInv
<1>6. ASSUME NEW b \in Blocks, ConnectGenesis(b)
      PROVE  IInv' /\ [Flat!Next]_(Flat!vars)
  <2>1. /\ HashesInv' /\ TipRoot' = TipRoot /\ ViewRoot' = ViewRoot
        /\ TipBlock = NullHash /\ TipBlock' = b /\ ViewBlock' = b
    BY Zenon, <1>6, ConnectGenesisHashes DEF IInv
  <2>2. AnchorsInv' /\ TipAnchors' = TipAnchors /\ ViewAnchors' = ViewAnchors
    BY Zenon, <1>1, <2>1, AnchorsKept DEF IInv
  <2>3. Flat!ConnectGenesis(b)
    BY <1>1, <1>2, <1>3, <2>1, <2>2 DEF Flat!ConnectGenesis, dbVars
  <2>4. Flat!Next
    BY Zenon, <2>3 DEF Flat!Next
  <2> QED BY Zenon, <1>2, <1>3, <2>1, <2>2, <2>4 DEF IInv
<1> QED BY Zenon, <1>4, <1>5, <1>6

\* Steps that move whole states: Flush, failure, FlushStateToDisk, the end
\* of the process.
LEMMA WholeStateSimulated ==
    ASSUME IInv, FlushView \/ DiscardView \/ FlushTip \/ Crash
    PROVE  IInv' /\ [Flat!Next]_(Flat!vars)
<1>1. CASE FlushView
  <2>1. CoinsInv' /\ TipCoins' = ViewCoins /\ ViewCoins' = ViewCoins
    BY Zenon, <1>1, FlushViewCoins DEF IInv
  <2>2. NullifiersInv' /\ TipNullifiers' = ViewNullifiers /\ ViewNullifiers' = ViewNullifiers
    BY Zenon, <1>1, FlushViewNullifiers DEF IInv
  <2>3. /\ AnchorsInv' /\ HashesInv'
        /\ TipAnchors' = ViewAnchors /\ ViewAnchors' = ViewAnchors
        /\ TipRoot' = ViewRoot /\ ViewRoot' = ViewRoot
        /\ TipBlock' = ViewBlock /\ ViewBlock' = ViewBlock
    BY Zenon, <1>1, FlushViewAnchors DEF IInv
  <2>4. UNCHANGED <<dbCoins, dbNullifiers, dbAnchors, dbBlock, dbRoot>>
    BY Zenon, <1>1 DEF FlushView, dbVars
  <2>5. Flat!Commit
    BY Zenon, <2>1, <2>2, <2>3, <2>4 DEF Flat!Commit
  <2> QED BY Zenon, <2>1, <2>2, <2>3, <2>5 DEF IInv, Flat!Next
<1>2. CASE DiscardView
  <2>1. CoinsInv' /\ TipCoins' = TipCoins /\ ViewCoins' = TipCoins
    BY Zenon, <1>2, DiscardViewCoins DEF IInv
  <2>2. NullifiersInv' /\ TipNullifiers' = TipNullifiers /\ ViewNullifiers' = TipNullifiers
    BY Zenon, <1>2, DiscardViewNullifiers DEF IInv
  <2>3. /\ AnchorsInv' /\ HashesInv'
        /\ TipAnchors' = TipAnchors /\ ViewAnchors' = TipAnchors
        /\ TipRoot' = TipRoot /\ ViewRoot' = TipRoot
        /\ TipBlock' = TipBlock /\ ViewBlock' = TipBlock
    BY Zenon, <1>2, DiscardViewAnchors DEF IInv
  <2>4. UNCHANGED <<dbCoins, dbNullifiers, dbAnchors, dbBlock, dbRoot>>
    BY Zenon, <1>2 DEF DiscardView, dbVars
  <2>5. Flat!Discard
    BY Zenon, <2>1, <2>2, <2>3, <2>4 DEF Flat!Discard
  <2> QED BY Zenon, <2>1, <2>2, <2>3, <2>5 DEF IInv, Flat!Next
<1>3. CASE FlushTip
  <2>1. CoinsInv' /\ dbCoins' = TipCoins /\ TipCoins' = TipCoins /\ ViewCoins' = ViewCoins
    BY Zenon, <1>3, FlushTipCoins DEF IInv
  <2>2. /\ NullifiersInv' /\ dbNullifiers' = TipNullifiers
        /\ TipNullifiers' = TipNullifiers /\ ViewNullifiers' = ViewNullifiers
    BY Zenon, <1>3, FlushTipNullifiers DEF IInv
  <2>3. /\ AnchorsInv' /\ HashesInv'
        /\ dbAnchors' = TipAnchors /\ TipAnchors' = TipAnchors /\ ViewAnchors' = ViewAnchors
        /\ dbRoot' = TipRoot /\ TipRoot' = TipRoot /\ ViewRoot' = ViewRoot
        /\ dbBlock' = TipBlock /\ TipBlock' = TipBlock /\ ViewBlock' = ViewBlock
    BY Zenon, <1>3, FlushTipAnchors DEF IInv
  <2>4. Flat!Sync
    BY Zenon, <2>1, <2>2, <2>3 DEF Flat!Sync
  <2> QED BY Zenon, <2>1, <2>2, <2>3, <2>4 DEF IInv, Flat!Next
<1>4. CASE Crash
  <2>1. CoinsInv' /\ TipCoins' = dbCoins /\ ViewCoins' = dbCoins
    BY Zenon, <1>4, CrashCoins DEF IInv
  <2>2. NullifiersInv' /\ TipNullifiers' = dbNullifiers /\ ViewNullifiers' = dbNullifiers
    BY Zenon, <1>4, CrashNullifiers DEF IInv
  <2>3. /\ AnchorsInv' /\ HashesInv'
        /\ TipAnchors' = dbAnchors /\ ViewAnchors' = dbAnchors
        /\ TipRoot' = dbRoot /\ ViewRoot' = dbRoot
        /\ TipBlock' = dbBlock /\ ViewBlock' = dbBlock
    BY Zenon, <1>4, CrashAnchors DEF IInv
  <2>4. UNCHANGED <<dbCoins, dbNullifiers, dbAnchors, dbBlock, dbRoot>>
    BY Zenon, <1>4 DEF Crash, dbVars
  <2>5. Flat!Crash
    BY Zenon, <2>1, <2>2, <2>3, <2>4 DEF Flat!Crash
  <2> QED BY Zenon, <2>1, <2>2, <2>3, <2>5 DEF IInv, Flat!Next
<1> QED BY Zenon, <1>1, <1>2, <1>3, <1>4

\* Nothing happens.
LEMMA StutterSimulated ==
    ASSUME IInv, UNCHANGED vars
    PROVE  IInv' /\ UNCHANGED Flat!vars
<1>1. /\ UNCHANGED <<dbCoins, tipCoins, viewCoins, dbNullifiers, tipNullifiers, viewNullifiers>>
      /\ UNCHANGED <<dbAnchors, tipAnchors, viewAnchors>>
      /\ UNCHANGED <<dbBlock, dbRoot, tipBlock, tipRoot, viewBlock, viewRoot, viewOpen>>
      /\ UNCHANGED dbVars
  BY Zenon DEF vars, dbVars, tipVars, viewVars
<1>2. CoinsInv' /\ TipCoins' = TipCoins /\ ViewCoins' = ViewCoins
  BY Zenon, <1>1, CoinsKept DEF IInv
<1>3. NullifiersInv' /\ TipNullifiers' = TipNullifiers /\ ViewNullifiers' = ViewNullifiers
  BY Zenon, <1>1, NullifiersKept DEF IInv
<1>4. /\ HashesInv' /\ TipRoot' = TipRoot /\ ViewRoot' = ViewRoot
      /\ TipBlock' = TipBlock /\ ViewBlock' = ViewBlock
  BY Zenon, <1>1, HashesKept DEF IInv
<1>5. AnchorsInv' /\ TipAnchors' = TipAnchors /\ ViewAnchors' = ViewAnchors
  BY Zenon, <1>1, <1>4, AnchorsKept DEF IInv
<1> QED BY Zenon, <1>1, <1>2, <1>3, <1>4, <1>5, ReadStep DEF IInv

\* Every step of the caches preserves the inductive invariant and is a step,
\* or no step, of the three plain copies.
THEOREM StepSimulated ==
    ASSUME IInv, [Next]_vars
    PROVE  IInv' /\ [Flat!Next]_(Flat!vars)
<1>1. CASE UNCHANGED vars
  BY Zenon, <1>1, StutterSimulated
<1>2. CASE Next
  <2>1. CASE \/ \E k \in Txids : AccessTipCoins(k) \/ AccessCoins(k) \/ ClearCoins(k)
             \/ \E k \in Txids, o \in Outputs : Spend(k, o) \/ ApplyTxInUndo(k, o)
             \/ \E k \in Txids, outs \in Coins : FromTx(k, outs)
    BY Zenon, <2>1, CoinsSimulated
  <2>2. CASE \/ \E n \in Nullifiers : GetNullifier(n)
             \/ \E n \in Nullifiers, spent \in BOOLEAN : SetNullifiers(n, spent)
    BY Zenon, <2>2, NullifiersSimulated
  <2>3. CASE \E r \in Roots : GetSaplingAnchorAt(r) \/ PushAnchor(r) \/ PopAnchor(r)
    BY Zenon, <2>3, AnchorsSimulated
  <2>4. CASE OpenView \/ \E b \in Blocks : SetBestBlock(b) \/ ConnectGenesis(b)
    BY Zenon, <2>4, HashesSimulated
  <2>5. CASE FlushView \/ DiscardView \/ FlushTip \/ Crash
    BY Zenon, <2>5, WholeStateSimulated
  <2> QED BY Zenon, <1>2, <2>1, <2>2, <2>3, <2>4, <2>5 DEF Next
<1> QED BY Zenon, <1>1, <1>2

\* An empty database and empty caches satisfy the invariant and are an
\* initial state of the three plain copies.
THEOREM InitSimulated ==
    ASSUME Init
    PROVE  IInv /\ Flat!Init
<1>1. /\ tipCoins = [k \in Txids |-> NoEntry] /\ viewCoins = [k \in Txids |-> NoEntry]
      /\ dbCoins = [k \in Txids |-> Pruned]
  BY Zenon DEF Init, EmptyCache
<1>2. TipCoins = dbCoins /\ ViewCoins = dbCoins
  BY Zenon, <1>1 DEF TipCoins, ViewCoins, CoinsOver
<1>3. CoinsInv
  BY Zenon, <1>1, <1>2 DEF CoinsInv, CoinsAgree, FreshUnlessPulledIn, Caches, EmptyCache, Coins, Pruned
<1>4. /\ tipNullifiers = EmptyCache(Nullifiers) /\ viewNullifiers = EmptyCache(Nullifiers)
      /\ dbNullifiers = [n \in Nullifiers |-> FALSE]
  BY Zenon DEF Init
<1>5. TipNullifiers = dbNullifiers /\ ViewNullifiers = dbNullifiers
  <2>1. dbNullifiers \in [Nullifiers -> BOOLEAN]
    BY Zenon, <1>4
  <2>2. FlagsOver(EmptyCache(Nullifiers), dbNullifiers, Nullifiers) = dbNullifiers
    BY Zenon, <2>1, FlagsEmpty
  <2> QED BY Zenon, <1>4, <2>2 DEF TipNullifiers, ViewNullifiers
<1>6. NullifiersInv
  <2>1. dbNullifiers \in [Nullifiers -> BOOLEAN]
    BY Zenon, <1>4
  <2>2. /\ EmptyCache(Nullifiers) \in Caches(Nullifiers, FlagEntry)
        /\ FlagsAgree(EmptyCache(Nullifiers), dbNullifiers, Nullifiers)
    BY Zenon, <2>1, FlagsEmpty
  <2> QED BY Zenon, <1>4, <1>5, <2>1, <2>2 DEF NullifiersInv
<1>7. /\ tipAnchors = EmptyCache(Roots) /\ viewAnchors = EmptyCache(Roots)
      /\ dbAnchors = [r \in Roots |-> r = EmptyRoot]
  BY Zenon DEF Init
<1>8. TipAnchors = dbAnchors /\ ViewAnchors = dbAnchors
  <2>1. dbAnchors \in [Roots -> BOOLEAN]
    BY Zenon, <1>7
  <2>2. FlagsOver(EmptyCache(Roots), dbAnchors, Roots) = dbAnchors
    BY Zenon, <2>1, FlagsEmpty
  <2> QED BY Zenon, <1>7, <2>2 DEF TipAnchors, ViewAnchors
<1>9. /\ dbBlock = NullHash /\ dbRoot = EmptyRoot /\ tipBlock = NullHash /\ tipRoot = NullHash
      /\ viewBlock = NullHash /\ viewRoot = NullHash /\ viewOpen = FALSE
  BY Zenon DEF Init
<1>10. /\ TipRoot = EmptyRoot /\ ViewRoot = EmptyRoot
       /\ TipBlock = NullHash /\ ViewBlock = NullHash
  BY Zenon, <1>9 DEF TipRoot, ViewRoot, TipBlock, ViewBlock, HashOver
<1>11. HashesInv
  BY Zenon, <1>9 DEF HashesInv
<1>12. AnchorsInv
  <2>1. dbAnchors[EmptyRoot] /\ dbAnchors \in [Roots -> BOOLEAN]
    BY Zenon, <1>7
  <2> QED BY Zenon, <1>7, <1>8, <1>9, <1>10, <2>1, FlagsEmpty DEF AnchorsInv, BestAnchorKnown
<1>13. Flat!Init
  BY Zenon, <1>1, <1>2, <1>4, <1>5, <1>7, <1>8, <1>9, <1>10
  DEF Flat!Init, Flat!Fresh, Flat!Pruned, Pruned
<1> QED BY Zenon, <1>3, <1>6, <1>11, <1>12, <1>13 DEF IInv

\* The invariant says what the properties say.
LEMMA InvImplies ==
    ASSUME IInv
    PROVE  TypeOK /\ CachesAgree /\ FreshUnlessPulledIn /\ BestAnchorKnown
<1>1. TypeOK
  BY Zenon DEF IInv, CoinsInv, NullifiersInv, AnchorsInv, HashesInv, TypeOK, CacheTypeOK
<1> QED BY Zenon, <1>1 DEF IInv, CoinsInv, NullifiersInv, AnchorsInv, CachesAgree

\* The inductive invariant holds in every reachable state.
THEOREM Invariance == Spec => []IInv
<1>1. Init => IInv
  BY Zenon, InitSimulated
<1>2. IInv /\ [Next]_vars => IInv'
  BY Zenon, StepSimulated
<1> QED BY <1>1, <1>2, PTL DEF Spec

\* The caches, flags and hashes always have their types; in particular the
\* best anchor of the database is never the null hash (TypeOK).
THEOREM TypeCorrect == Spec => []TypeOK
<1>1. IInv => TypeOK
  BY Zenon, InvImplies
<1> QED BY <1>1, Invariance, PTL

\* FRESH and DIRTY always tell the truth about the base of each cache.
THEOREM FlagsTruthful == Spec => []CachesAgree
<1>1. IInv => CachesAgree
  BY Zenon, InvImplies
<1> QED BY <1>1, Invariance, PTL

\* The assertion in CCoinsViewCache::BatchWrite never fails.
THEOREM BatchWriteAssertion == Spec => []FreshUnlessPulledIn
<1>1. IInv => FreshUnlessPulledIn
  BY Zenon, InvImplies
<1> QED BY <1>1, Invariance, PTL

\* The assertions in ConnectBlock and BringBestAnchorIntoCache never fail.
THEOREM BestAnchorAssertion == Spec => []BestAnchorKnown
<1>1. IInv => BestAnchorKnown
  BY Zenon, InvImplies
<1> QED BY <1>1, Invariance, PTL

\* The stack of caches implements three plain copies of the chain state:
\* blocks are atomic, reads are invisible, a flush or a crash moves whole
\* states (BehavesAsPlainCopies).
THEOREM Refinement == Spec => BehavesAsPlainCopies
<1>1. Init => Flat!Init
  BY Zenon, InitSimulated
<1>2. IInv /\ [Next]_vars => [Flat!Next]_(Flat!vars)
  BY Zenon, StepSimulated
<1> QED BY <1>1, <1>2, Invariance, PTL DEF Spec, BehavesAsPlainCopies, Flat!Spec
=============================================================================
