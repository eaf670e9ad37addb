--------------------------- MODULE CoinsViewCache ---------------------------
(***************************************************************************)
(* The stack of coin views (src/src/coins.h, coins.cpp, txdb.cpp):         *)
(*   CCoinsViewDB  <-  pcoinsTip  <-  the view of the block in progress    *)
(* The database is written in one LevelDB batch.  Each cache holds, for    *)
(* each key it has seen, a value with the flags DIRTY (differs from the    *)
(* base) and, for coins, FRESH (the base has nothing or a pruned entry).   *)
(* A CCoins is the set of its unspent outputs; pruned means none is left.  *)
(* A commitment tree is determined by its root.                            *)
(***************************************************************************)
EXTENDS Integers

CONSTANTS Txids, Outputs, Nullifiers, Roots, EmptyRoot, Blocks, NullHash,
          NoEntry   \* what a cache holds for a key it does not have

Coins == SUBSET Outputs
Pruned == {}

CoinsEntry == [coins: Coins, dirty: BOOLEAN, fresh: BOOLEAN]
FlagEntry == [entered: BOOLEAN, dirty: BOOLEAN]

ASSUME CoinsAssumption ==
    /\ EmptyRoot \in Roots
    /\ NullHash \notin Roots
    /\ NullHash \notin Blocks
    /\ NoEntry \notin CoinsEntry
    /\ NoEntry \notin FlagEntry

VARIABLES
    dbCoins, dbNullifiers, dbAnchors, dbBlock, dbRoot,
    tipCoins, tipNullifiers, tipAnchors, tipBlock, tipRoot,
    viewCoins, viewNullifiers, viewAnchors, viewBlock, viewRoot,
    viewOpen   \* a block is being connected or disconnected

dbVars == <<dbCoins, dbNullifiers, dbAnchors, dbBlock, dbRoot>>
tipVars == <<tipCoins, tipNullifiers, tipAnchors, tipBlock, tipRoot>>
viewVars == <<viewCoins, viewNullifiers, viewAnchors, viewBlock, viewRoot>>
coinVars == <<tipCoins, viewCoins>>
nullifierVars == <<tipNullifiers, viewNullifiers>>
anchorVars == <<tipAnchors, viewAnchors>>
hashVars == <<tipBlock, viewBlock, tipRoot, viewRoot>>
vars == <<dbVars, tipVars, viewVars, viewOpen>>

Caches(K, Entry) == [K -> Entry \cup {NoEntry}]
EmptyCache(K) == [k \in K |-> NoEntry]

CacheTypeOK(coins, nullifiers, anchors, block, root) ==
    /\ coins \in Caches(Txids, CoinsEntry)
    /\ nullifiers \in Caches(Nullifiers, FlagEntry)
    /\ anchors \in Caches(Roots, FlagEntry)
    /\ block \in Blocks \cup {NullHash}
    /\ root \in Roots \cup {NullHash}

(* The three views hold what their C++ members hold; the best anchor the   *)
(* database answers is a root, never the null hash of an unread one.       *)
TypeOK ==
    /\ dbCoins \in [Txids -> Coins]
    /\ dbNullifiers \in [Nullifiers -> BOOLEAN]
    /\ dbAnchors \in [Roots -> BOOLEAN]
    /\ dbBlock \in Blocks \cup {NullHash}
    /\ dbRoot \in Roots
    /\ CacheTypeOK(tipCoins, tipNullifiers, tipAnchors, tipBlock, tipRoot)
    /\ CacheTypeOK(viewCoins, viewNullifiers, viewAnchors, viewBlock, viewRoot)
    /\ viewOpen \in BOOLEAN

Init ==
    /\ dbCoins = [k \in Txids |-> Pruned]
    /\ dbNullifiers = [n \in Nullifiers |-> FALSE]
    /\ dbAnchors = [r \in Roots |-> r = EmptyRoot]
    /\ dbBlock = NullHash
    /\ dbRoot = EmptyRoot
    /\ tipCoins = EmptyCache(Txids) /\ viewCoins = EmptyCache(Txids)
    /\ tipNullifiers = EmptyCache(Nullifiers) /\ viewNullifiers = EmptyCache(Nullifiers)
    /\ tipAnchors = EmptyCache(Roots) /\ viewAnchors = EmptyCache(Roots)
    /\ tipBlock = NullHash /\ viewBlock = NullHash
    /\ tipRoot = NullHash /\ viewRoot = NullHash
    /\ viewOpen = FALSE

-----------------------------------------------------------------------------
(* What a cache answers on top of a base that answers `base'.              *)

CoinsOver(cache, base) ==
    [k \in Txids |-> IF cache[k] = NoEntry THEN base[k] ELSE cache[k].coins]

FlagsOver(cache, base, K) ==
    [k \in K |-> IF cache[k] = NoEntry THEN base[k] ELSE cache[k].entered]

HashOver(hash, base) == IF hash = NullHash THEN base ELSE hash

TipCoins == CoinsOver(tipCoins, dbCoins)
ViewCoins == CoinsOver(viewCoins, TipCoins)
TipNullifiers == FlagsOver(tipNullifiers, dbNullifiers, Nullifiers)
ViewNullifiers == FlagsOver(viewNullifiers, TipNullifiers, Nullifiers)
TipAnchors == FlagsOver(tipAnchors, dbAnchors, Roots)
ViewAnchors == FlagsOver(viewAnchors, TipAnchors, Roots)
TipBlock == HashOver(tipBlock, dbBlock)
ViewBlock == HashOver(viewBlock, TipBlock)
TipRoot == HashOver(tipRoot, dbRoot)
ViewRoot == HashOver(viewRoot, TipRoot)

-----------------------------------------------------------------------------
(* Coins.                                                                  *)

\* The entry FetchCoins and ModifyCoins make of a base's answer.
Copy(coins) == [coins |-> coins, dirty |-> FALSE, fresh |-> coins = Pruned]

\* FetchCoins on pcoinsTip; the database never holds a pruned entry.
FetchTip(k) ==
    IF tipCoins[k] # NoEntry \/ dbCoins[k] = Pruned THEN tipCoins
    ELSE [tipCoins EXCEPT ![k] = Copy(dbCoins[k])]

\* AccessCoins, GetCoins or HaveCoins on pcoinsTip.
AccessTipCoins(k) ==
    /\ tipCoins' = FetchTip(k)
    /\ UNCHANGED <<dbVars, viewCoins, nullifierVars, anchorVars, hashVars, viewOpen>>

\* The same on the view, which asks pcoinsTip for what it does not have.
AccessCoins(k) ==
    /\ viewOpen
    /\ viewCoins[k] = NoEntry
    /\ tipCoins' = FetchTip(k)
    /\ viewCoins' = [viewCoins EXCEPT ![k] =
           IF tipCoins'[k] = NoEntry THEN NoEntry ELSE Copy(tipCoins'[k].coins)]
    /\ UNCHANGED <<dbVars, nullifierVars, anchorVars, hashVars, viewOpen>>

\* Variants of FreshOver that a slip would give (they appear in no action).
FreshOverAlways(base) == TRUE
FreshOverNever(base) == IF base = NoEntry THEN FALSE ELSE base.coins = Pruned

\* FRESH for an entry ModifyCoins inserts: the base has nothing or pruned coins.
FreshOver(base) == IF base = NoEntry THEN TRUE ELSE base.coins = Pruned

\* ModifyCoins and the destructor of the modifier, which removes the entry
\* when it is FRESH and the caller left nothing unspent in it.
ModifyCoins(k, new) ==
    /\ viewOpen
    /\ tipCoins' = IF viewCoins[k] = NoEntry THEN FetchTip(k) ELSE tipCoins
    /\ LET fresh == IF viewCoins[k] = NoEntry THEN FreshOver(tipCoins'[k])
                    ELSE viewCoins[k].fresh
       IN  viewCoins' = [viewCoins EXCEPT ![k] =
               IF fresh /\ new = Pruned THEN NoEntry
               ELSE [coins |-> new, dirty |-> TRUE, fresh |-> fresh]]
    /\ UNCHANGED <<dbVars, nullifierVars, anchorVars, hashVars, viewOpen>>

\* UpdateCoins marks an input spent (its assert: the output is unspent) ...
Spend(k, o) ==
    /\ o \in ViewCoins[k]
    /\ ModifyCoins(k, ViewCoins[k] \ {o})

\* ... and adds the transaction's outputs, which ConnectBlock refuses to do
\* over coins that are not pruned (BIP30).
FromTx(k, outs) ==
    /\ ViewCoins[k] = Pruned
    /\ ModifyCoins(k, outs)

\* DisconnectBlock removes the outputs of a transaction ...
ClearCoins(k) == ModifyCoins(k, Pruned)

\* ... and ApplyTxInUndo puts a spent output back.
ApplyTxInUndo(k, o) ==
    /\ o \notin ViewCoins[k]
    /\ ModifyCoins(k, ViewCoins[k] \cup {o})

-----------------------------------------------------------------------------
(* Nullifiers and anchors: one bit per key, `entered'.                     *)

Remembered(b) == [entered |-> b, dirty |-> FALSE]
Written(b) == [entered |-> b, dirty |-> TRUE]

\* GetNullifier on the view: both caches remember the answer, even a negative one.
GetNullifier(n) ==
    /\ viewOpen
    /\ viewNullifiers[n] = NoEntry
    /\ tipNullifiers' = IF tipNullifiers[n] # NoEntry THEN tipNullifiers
                        ELSE [tipNullifiers EXCEPT ![n] = Remembered(dbNullifiers[n])]
    /\ viewNullifiers' = [viewNullifiers EXCEPT ![n] = Remembered(tipNullifiers'[n].entered)]
    /\ UNCHANGED <<dbVars, coinVars, anchorVars, hashVars, viewOpen>>

SetNullifiers(n, spent) ==
    /\ viewOpen
    /\ viewNullifiers' = [viewNullifiers EXCEPT ![n] = Written(spent)]
    /\ UNCHANGED <<dbVars, coinVars, tipNullifiers, anchorVars, hashVars, viewOpen>>

\* GetSaplingAnchorAt remembers a positive answer only.
FetchAnchor(cache, r, found) ==
    IF cache[r] # NoEntry \/ ~found THEN cache
    ELSE [cache EXCEPT ![r] = Remembered(TRUE)]

\* The view's lookup reaches pcoinsTip only when the view has no entry.
FetchTipAnchor(r) ==
    IF viewAnchors[r] # NoEntry THEN tipAnchors ELSE FetchAnchor(tipAnchors, r, dbAnchors[r])

GetSaplingAnchorAt(r) ==
    /\ viewOpen
    /\ tipAnchors' = FetchTipAnchor(r)
    /\ viewAnchors' = FetchAnchor(viewAnchors, r, TipAnchors[r])
    /\ UNCHANGED <<dbVars, coinVars, nullifierVars, hashVars, viewOpen>>

\* The tree only grows, so a root that is not the current one is a new one.
PushAnchor(r) ==
    /\ viewOpen
    /\ ~ViewAnchors[r]
    /\ viewAnchors' = [viewAnchors EXCEPT ![r] = Written(TRUE)]
    /\ viewRoot' = r
    /\ UNCHANGED <<dbVars, coinVars, nullifierVars, tipAnchors,
                   tipBlock, viewBlock, tipRoot, viewOpen>>

\* Variant: the best anchor stays the popped one.
PopAnchorOnly(r) ==
    /\ viewOpen
    /\ viewRoot # EmptyRoot
    /\ r # viewRoot /\ ViewAnchors[r]
    /\ tipAnchors' = FetchTipAnchor(viewRoot)
    /\ viewAnchors' = [viewAnchors EXCEPT ![viewRoot] = Written(FALSE)]
    /\ UNCHANGED <<dbVars, coinVars, nullifierVars, hashVars, viewOpen>>

\* r is the root of an earlier block; BringBestAnchorIntoCache comes first
\* (its assertion is BestAnchorKnown).  Nothing precedes the empty tree.
PopAnchor(r) ==
    /\ viewOpen
    /\ viewRoot # EmptyRoot
    /\ r # viewRoot /\ ViewAnchors[r]
    /\ tipAnchors' = FetchTipAnchor(viewRoot)
    /\ viewAnchors' = [viewAnchors EXCEPT ![viewRoot] = Written(FALSE)]
    /\ viewRoot' = r
    /\ UNCHANGED <<dbVars, coinVars, nullifierVars, tipBlock, viewBlock, tipRoot, viewOpen>>

SetBestBlock(b) ==
    /\ viewOpen
    /\ viewBlock' = b
    /\ UNCHANGED <<dbVars, tipVars, viewCoins, viewNullifiers, viewAnchors, viewRoot, viewOpen>>

-----------------------------------------------------------------------------
(* BatchWrite of a child cache into pcoinsTip.                             *)

\* Variant: a pruned entry is erased whatever lies below.
WriteCoinsErases(child, parent) ==
    IF child = NoEntry THEN parent
    ELSE IF ~child.dirty THEN parent
    ELSE IF child.coins = Pruned THEN NoEntry
    ELSE [coins |-> child.coins, dirty |-> TRUE, fresh |-> parent = NoEntry]

WriteCoins(child, parent) ==
    IF child = NoEntry THEN parent
    ELSE IF ~child.dirty THEN parent
    ELSE IF parent = NoEntry
         THEN IF child.coins = Pruned THEN NoEntry
              ELSE [coins |-> child.coins, dirty |-> TRUE, fresh |-> TRUE]
    ELSE IF parent.fresh /\ child.coins = Pruned THEN NoEntry
    ELSE [coins |-> child.coins, dirty |-> TRUE, fresh |-> parent.fresh]

WriteFlag(child, parent) ==
    IF child = NoEntry THEN parent
    ELSE IF ~child.dirty THEN parent
    ELSE IF parent = NoEntry THEN Written(child.entered)
    ELSE IF parent.entered = child.entered THEN parent
    ELSE Written(child.entered)

\* The destructor of the view, or of all the caches when the process ends.
DropView ==
    /\ viewCoins' = EmptyCache(Txids)
    /\ viewNullifiers' = EmptyCache(Nullifiers)
    /\ viewAnchors' = EmptyCache(Roots)
    /\ viewBlock' = NullHash
    /\ viewRoot' = NullHash
    /\ viewOpen' = FALSE

ClearTip ==
    /\ tipCoins' = EmptyCache(Txids)
    /\ tipNullifiers' = EmptyCache(Nullifiers)
    /\ tipAnchors' = EmptyCache(Roots)

\* ConnectTip and DisconnectTip: CCoinsViewCache view(pcoinsTip), whose best
\* block and best anchor ConnectBlock and DisconnectBlock read.
OpenView ==
    /\ ~viewOpen
    /\ TipBlock # NullHash
    /\ viewOpen' = TRUE
    /\ tipBlock' = TipBlock /\ viewBlock' = TipBlock
    /\ tipRoot' = TipRoot /\ viewRoot' = TipRoot
    /\ UNCHANGED <<dbVars, coinVars, nullifierVars, anchorVars>>

\* view.Flush()
FlushView ==
    /\ viewOpen
    /\ tipCoins' = [k \in Txids |-> WriteCoins(viewCoins[k], tipCoins[k])]
    /\ tipNullifiers' = [n \in Nullifiers |-> WriteFlag(viewNullifiers[n], tipNullifiers[n])]
    /\ tipAnchors' = [r \in Roots |-> WriteFlag(viewAnchors[r], tipAnchors[r])]
    /\ tipBlock' = viewBlock
    /\ tipRoot' = viewRoot
    /\ DropView
    /\ UNCHANGED dbVars

\* ConnectBlock or DisconnectBlock failed.
DiscardView == viewOpen /\ DropView /\ UNCHANGED <<dbVars, tipVars>>

\* ConnectTip of the genesis block: its view only sets the best block, so
\* its Flush leaves pcoinsTip without a cached best anchor.
ConnectGenesis(b) ==
    /\ ~viewOpen
    /\ TipBlock = NullHash
    /\ tipBlock' = b
    /\ tipRoot' = NullHash
    /\ UNCHANGED <<dbVars, coinVars, nullifierVars, anchorVars, viewBlock, viewRoot, viewOpen>>

\* CCoinsViewDB::BatchWrite: what one DIRTY entry does to the database.
CoinsWritten(entry, old) ==
    IF entry = NoEntry THEN old ELSE IF entry.dirty THEN entry.coins ELSE old

FlagWritten(entry, old) ==
    IF entry = NoEntry THEN old ELSE IF entry.dirty THEN entry.entered ELSE old

\* A null hash is not written.
HashWritten(hash, old) == IF hash = NullHash THEN old ELSE hash

\* pcoinsTip->Flush(): one LevelDB batch, in which the tree of the empty
\* root is never stored (GetSaplingAnchorAt answers it without a lookup).
WriteTip ==
    /\ dbCoins' = [k \in Txids |-> CoinsWritten(tipCoins[k], dbCoins[k])]
    /\ dbNullifiers' = [n \in Nullifiers |-> FlagWritten(tipNullifiers[n], dbNullifiers[n])]
    /\ dbAnchors' = [r \in Roots |-> r = EmptyRoot \/ FlagWritten(tipAnchors[r], dbAnchors[r])]
    /\ dbBlock' = HashWritten(tipBlock, dbBlock)
    /\ dbRoot' = HashWritten(tipRoot, dbRoot)
    /\ ClearTip
    /\ UNCHANGED <<tipBlock, tipRoot, viewVars, viewOpen>>

\* FlushStateToDisk is called outside the scope of the block's view.
FlushTip == ~viewOpen /\ WriteTip

\* The process ends at any point; the next one starts with empty caches.
Crash ==
    /\ ClearTip /\ DropView
    /\ tipBlock' = NullHash /\ tipRoot' = NullHash
    /\ UNCHANGED dbVars

Next ==
    \/ \E k \in Txids : AccessTipCoins(k) \/ AccessCoins(k) \/ ClearCoins(k)
    \/ \E k \in Txids, o \in Outputs : Spend(k, o) \/ ApplyTxInUndo(k, o)
    \/ \E k \in Txids, outs \in Coins : FromTx(k, outs)
    \/ \E n \in Nullifiers : GetNullifier(n)
    \/ \E n \in Nullifiers, spent \in BOOLEAN : SetNullifiers(n, spent)
    \/ \E r \in Roots : GetSaplingAnchorAt(r) \/ PushAnchor(r) \/ PopAnchor(r)
    \/ \E b \in Blocks : SetBestBlock(b) \/ ConnectGenesis(b)
    \/ OpenView \/ FlushView \/ DiscardView \/ FlushTip \/ Crash

Spec == Init /\ [][Next]_vars

-----------------------------------------------------------------------------
(* Properties.                                                             *)

\* A cache of coins agrees with the base it sits on: an entry marked FRESH
\* covers nothing unspent, and one that is not DIRTY repeats the base.
CoinsAgree(cache, base) ==
    \A k \in Txids : cache[k] # NoEntry =>
        /\ cache[k].fresh => base[k] = Pruned
        /\ ~cache[k].dirty => cache[k].coins = base[k]

FlagsAgree(cache, base, K) ==
    \A k \in K : cache[k] # NoEntry /\ ~cache[k].dirty => cache[k].entered = base[k]

(* Both caches agree with what lies under them, so that dropping a clean   *)
(* entry, or a FRESH one whose coins were spent, loses nothing.            *)
CachesAgree ==
    /\ CoinsAgree(tipCoins, dbCoins) /\ CoinsAgree(viewCoins, TipCoins)
    /\ FlagsAgree(tipNullifiers, dbNullifiers, Nullifiers)
    /\ FlagsAgree(viewNullifiers, TipNullifiers, Nullifiers)
    /\ FlagsAgree(tipAnchors, dbAnchors, Roots)
    /\ FlagsAgree(viewAnchors, TipAnchors, Roots)

(* The assertion in BatchWrite and its comment: coins the view holds and   *)
(* pcoinsTip does not are FRESH, for otherwise the first lookup would have *)
(* pulled them into pcoinsTip.                                             *)
FreshUnlessPulledIn ==
    \A k \in Txids :
        viewCoins[k] # NoEntry /\ tipCoins[k] = NoEntry => viewCoins[k].fresh

(* The root of the commitment tree is always one the view, pcoinsTip and   *)
(* the database can produce the tree of: the assertions in ConnectBlock    *)
(* and BringBestAnchorIntoCache.                                           *)
BestAnchorKnown == ViewAnchors[ViewRoot] /\ TipAnchors[TipRoot] /\ dbAnchors[dbRoot]

-----------------------------------------------------------------------------
(* The inductive invariant: what the properties above need, per kind of    *)
(* data, to be preserved by every step.                                    *)

CoinsInv ==
    /\ dbCoins \in [Txids -> Coins]
    /\ tipCoins \in Caches(Txids, CoinsEntry)
    /\ viewCoins \in Caches(Txids, CoinsEntry)
    /\ CoinsAgree(tipCoins, dbCoins)
    /\ CoinsAgree(viewCoins, TipCoins)
    /\ FreshUnlessPulledIn
    /\ ~viewOpen => viewCoins = EmptyCache(Txids)

NullifiersInv ==
    /\ dbNullifiers \in [Nullifiers -> BOOLEAN]
    /\ tipNullifiers \in Caches(Nullifiers, FlagEntry)
    /\ viewNullifiers \in Caches(Nullifiers, FlagEntry)
    /\ FlagsAgree(tipNullifiers, dbNullifiers, Nullifiers)
    /\ FlagsAgree(viewNullifiers, TipNullifiers, Nullifiers)
    /\ ~viewOpen => viewNullifiers = EmptyCache(Nullifiers)

\* The empty tree is always known: the database answers it by itself, so no
\* cache may ever deny it.
AnchorsInv ==
    /\ dbAnchors \in [Roots -> BOOLEAN]
    /\ tipAnchors \in Caches(Roots, FlagEntry)
    /\ viewAnchors \in Caches(Roots, FlagEntry)
    /\ FlagsAgree(tipAnchors, dbAnchors, Roots)
    /\ FlagsAgree(viewAnchors, TipAnchors, Roots)
    /\ ~viewOpen => viewAnchors = EmptyCache(Roots)
    /\ dbAnchors[EmptyRoot] /\ TipAnchors[EmptyRoot] /\ ViewAnchors[EmptyRoot]
    /\ BestAnchorKnown

\* A view in use has read its best block and best anchor, so its Flush
\* never hands a null hash to pcoinsTip.
HashesInv ==
    /\ dbBlock \in Blocks \cup {NullHash}
    /\ dbRoot \in Roots
    /\ tipBlock \in Blocks \cup {NullHash}
    /\ tipRoot \in Roots \cup {NullHash}
    /\ tipBlock = NullHash => tipRoot = NullHash
    /\ viewOpen \in BOOLEAN
    /\ IF viewOpen THEN viewBlock \in Blocks /\ viewRoot \in Roots
       ELSE viewBlock = NullHash /\ viewRoot = NullHash

IInv == CoinsInv /\ NullifiersInv /\ AnchorsInv /\ HashesInv

-----------------------------------------------------------------------------
(* The stack of caches behaves as three plain copies of the chain state:   *)
(* a block takes effect as a whole or not at all, reads are invisible, a   *)
(* flush or a crash moves whole states between memory and disk.            *)
Flat == INSTANCE CoinsState WITH
    disk <- [coins |-> dbCoins, nullifiers |-> dbNullifiers, anchors |-> dbAnchors,
             block |-> dbBlock, root |-> dbRoot],
    tip <- [coins |-> TipCoins, nullifiers |-> TipNullifiers, anchors |-> TipAnchors,
            block |-> TipBlock, root |-> TipRoot],
    view <- [coins |-> ViewCoins, nullifiers |-> ViewNullifiers, anchors |-> ViewAnchors,
             block |-> ViewBlock, root |-> ViewRoot]

BehavesAsPlainCopies == Flat!Spec
=============================================================================
