----------------------------- MODULE TxMemPool ------------------------------
(***************************************************************************)
(* CTxMemPool (src/src/txmempool.cpp) and the functions of main.cpp that   *)
(* change it, as operators on a record with the pool's four maps:          *)
(* AcceptToMemoryPool, ConnectTip, DisconnectTip and what follows them.    *)
(*                                                                         *)
(* A transaction is a name; what it spends and makes is given by the       *)
(* constants.  The coins, nullifiers and anchors of the active chain are   *)
(* functions of its tip (how they are kept is CoinsViewCache's subject).   *)
(* Fees, sizes, priorities and the address and spent indexes are left out. *)
(***************************************************************************)
EXTENDS Integers, FiniteSets, Sequences, Functions

CONSTANTS
    TxOrder,            \* all the transactions, in the order of their hashes
    Coinbases,          \* those that are coinbases
    Ins, Outs,          \* transaction -> outputs it spends; how many it makes
    Nullifier, Anchor,  \* transaction -> set of nullifiers; its anchor or NoRoot
    LockTime, Expiry,   \* transaction -> heights, 0 for none
    Branch,             \* transaction -> the branch id its signatures commit to
    Invalid,            \* transactions with a signature that does not verify
    Blocks, Base,       \* Base: a block below all the branches
    Parent, Height, Vtx, Root,
    UpgradeHeight,      \* the first height of branch 1
    COINBASE_MATURITY,
    NoTx, NoRoot

Txs == Range(TxOrder)
OutPoints == {<<t, n>> : t \in Txs, n \in 0..1}
Nullifiers == UNION {Nullifier[t] : t \in Txs}
OutputsOf(t) == {<<t, n>> : n \in 0..(Outs[t] - 1)}

ASSUME TxMemPoolAssumption ==
    /\ TxOrder \in Seq(Txs) /\ Nullifier \in [Txs -> SUBSET Nullifiers]
    /\ Coinbases \cup Invalid \subseteq Txs /\ NoTx \notin Txs
    /\ Ins \in [Txs -> SUBSET OutPoints] /\ Outs \in [Txs -> 1..2]
    /\ {LockTime, Expiry} \subseteq [Txs -> Nat] /\ Branch \in [Txs -> {0, 1}]
    /\ Base \in Blocks /\ Parent \in [Blocks \ {Base} -> Blocks]
    /\ Height \in [Blocks -> Nat] /\ Vtx \in [Blocks -> Seq(Txs)]
    /\ \A b \in Blocks \ {Base} : Height[b] = Height[Parent[b]] + 1

-----------------------------------------------------------------------------
(* The active chain *)

Chain == LET C[b \in Blocks] == IF b = Base THEN {Base} ELSE C[Parent[b]] \cup {b}
         IN  [b \in Blocks |-> C[b]]

TxsOf(b) == Range(Vtx[b])
ChainTxs == [b \in Blocks |-> UNION {TxsOf(a) : a \in Chain[b]}]

\* What the transactions of T leave to spend, and the nullifiers they reveal.
Spendable(T) == {o \in UNION {OutputsOf(t) : t \in T} : ~\E t \in T : o \in Ins[t]}
Revealed(T) == UNION {Nullifier[t] : t \in T}

\* pcoinsTip when its best block is b.
Coins == [b \in Blocks |-> Spendable(ChainTxs[b])]
HaveCoins(b, t) == \E o \in Coins[b] : o[1] = t
SpentNullifiers(b) == Revealed(ChainTxs[b])
Anchors(b) == {Root[a] : a \in Chain[b]}

\* The chain with the first n transactions of b.
TxsUpTo(b, n) == ChainTxs[Parent[b]] \cup {Vtx[b][i] : i \in 1 .. n}

\* Every block is valid on its parent: ConnectBlock refuses a transaction that
\* overwrites another one, spends what is not there or reveals a nullifier
\* again.  One that is there and spent completely could not spend its inputs
\* again, and a coinbase names its height.
ASSUME ValidBlocks ==
    /\ \A t \in TxsOf(Base) : \A o \in Ins[t] : o[1] \in TxsOf(Base)
    /\ \A b \in Blocks \ {Base} : \A n \in 1 .. Len(Vtx[b]) :
           /\ Vtx[b][n] \notin TxsUpTo(b, n - 1)
           /\ Ins[Vtx[b][n]] \subseteq Spendable(TxsUpTo(b, n - 1))
           /\ Nullifier[Vtx[b][n]] \cap Revealed(TxsUpTo(b, n - 1)) = {}

CurrentEpochBranchId(h) == IF h >= UpgradeHeight THEN 1 ELSE 0
IsExpiredTx(t, h) == Expiry[t] # 0 /\ h > Expiry[t]
IsFinalTx(t, h) == LockTime[t] = 0 \/ LockTime[t] < h
Mature(b, t) == \A o \in Ins[t] : o[1] \in Coinbases =>
    \A a \in Chain[b] : o[1] \in TxsOf(a) => Height[b] + 1 - Height[a] >= COINBASE_MATURITY

-----------------------------------------------------------------------------
(* CTxMemPool *)

Pools == [mapTx : SUBSET Txs, mapNextTx : [OutPoints -> Txs \cup {NoTx}],
          mapSaplingNullifiers : [Nullifiers -> Txs \cup {NoTx}], mapRecentlyAddedTx : SUBSET Txs]

EmptyPool == [mapTx |-> {}, mapNextTx |-> [o \in OutPoints |-> NoTx],
              mapSaplingNullifiers |-> [n \in Nullifiers |-> NoTx], mapRecentlyAddedTx |-> {}]

addUnchecked(pool, t) ==
    [mapTx |-> pool.mapTx \cup {t},
     mapNextTx |-> [o \in OutPoints |-> IF o \in Ins[t] THEN t ELSE pool.mapNextTx[o]],
     mapSaplingNullifiers |-> [n \in Nullifiers |-> IF n \in Nullifier[t] THEN t
                                                     ELSE pool.mapSaplingNullifiers[n]],
     mapRecentlyAddedTx |-> pool.mapRecentlyAddedTx \cup {t}]

Spenders(pool, t) == {pool.mapNextTx[o] : o \in OutputsOf(t)} \ {NoTx}

Family(pool, S) == \A t \in S : Spenders(pool, t) \cap pool.mapTx \subseteq S

\* Those of the pool that the worklist of remove reaches from ts: the least
\* set with ts in it and with all the spenders of its members.
Reached(pool, ts) ==
    {t \in pool.mapTx : \A S \in SUBSET pool.mapTx : ts \cap pool.mapTx \subseteq S /\ Family(pool, S) => t \in S}

RemovedIfThere(pool, t, fRecursive) ==
    IF ~fRecursive THEN {t} \cap pool.mapTx ELSE Reached(pool, {t} \cap pool.mapTx)

\* What remove takes out of the pool; a transaction that is not in it only
\* stands for its children.
Removed(pool, t, fRecursive) ==
    IF ~fRecursive THEN {t} \cap pool.mapTx
    ELSE Reached(pool, IF t \in pool.mapTx THEN {t} ELSE Spenders(pool, t))

WithoutButNotified(pool, gone) ==
    [mapTx |-> pool.mapTx \ gone,
     mapNextTx |-> [o \in OutPoints |-> IF \E t \in gone : o \in Ins[t] THEN NoTx ELSE pool.mapNextTx[o]],
     mapSaplingNullifiers |-> [n \in Nullifiers |-> IF \E t \in gone : n \in Nullifier[t] THEN NoTx
                                                     ELSE pool.mapSaplingNullifiers[n]],
     mapRecentlyAddedTx |-> pool.mapRecentlyAddedTx]

Without(pool, gone) ==
    [mapTx |-> pool.mapTx \ gone,
     mapNextTx |-> [o \in OutPoints |-> IF \E t \in gone : o \in Ins[t] THEN NoTx ELSE pool.mapNextTx[o]],
     mapSaplingNullifiers |-> [n \in Nullifiers |-> IF \E t \in gone : n \in Nullifier[t] THEN NoTx
                                                     ELSE pool.mapSaplingNullifiers[n]],
     mapRecentlyAddedTx |-> pool.mapRecentlyAddedTx \ gone]

remove(pool, t, fRecursive) == Without(pool, Removed(pool, t, fRecursive))

\* The loops that end removeForReorg, removeWithAnchor, removeWithoutBranchId:
\* remove with fRecursive for each of ts, all of them in the pool.  One that
\* went as a descendant of another has no children left, so the order does
\* not matter.
RemoveAll(pool, ts) == Without(pool, Reached(pool, ts))

\* The time lock on coinbases (-ac_timelockgte) is off, so of the condition on
\* immature coinbases only the test that the coins are there remains.
removeForReorg(pool, b) ==
    RemoveAll(pool, {t \in pool.mapTx :
        \/ ~IsFinalTx(t, Height[b] + 1)
        \/ /\ \E o \in Ins[t] : o[1] \in Coinbases
           /\ \E o \in Ins[t] : o[1] \notin pool.mapTx /\ ~HaveCoins(b, o[1])})

removeWithAnchor(pool, root) == RemoveAll(pool, {t \in pool.mapTx : Nullifier[t] # {} /\ Anchor[t] = root})

removeWithoutBranchId(pool, id) == RemoveAll(pool, {t \in pool.mapTx : Branch[t] # id})

\* The transactions that spend what t spends.
Conflicting(pool, t) ==
    ({pool.mapNextTx[o] : o \in Ins[t]} \cup {pool.mapSaplingNullifiers[n] : n \in Nullifier[t]}) \ {NoTx, t}

removeConflicts(pool, t) == RemoveAll(pool, Conflicting(pool, t))

\* A transaction of a block: itself, then what it puts in conflict.
RemoveMined(acc, t) ==
    LET p == remove(acc.pool, t, FALSE)
        q == removeConflicts(p, t)
    IN  [pool |-> q, conflicts |-> acc.conflicts \cup (p.mapTx \ q.mapTx)]

removeForBlock(pool, vtx) ==
    LET after[n \in 0 .. Len(vtx)] == IF n = 0 THEN [pool |-> pool, conflicts |-> {}]
                                      ELSE RemoveMined(after[n - 1], vtx[n])
    IN  after[Len(vtx)]

NotDrained(pool) == pool
DrainRecentlyAdded(pool) == [pool EXCEPT !.mapRecentlyAddedTx = {}]

-----------------------------------------------------------------------------
(* AcceptToMemoryPool: view is the best block of pcoinsTip, next the height *)
(* after that of chainActive.  "missing": pfMissingInputs is set.           *)
AcceptToMemoryPool(pool, t, view, next) ==
    LET known(u) == u \in pool.mapTx \/ HaveCoins(view, u)
        available(o) == IF o[1] \in pool.mapTx THEN o \in OutputsOf(o[1]) ELSE o \in Coins[view]
    IN  IF t \notin Coinbases /\ Ins[t] = {} /\ Nullifier[t] = {} THEN "invalid"
        ELSE IF \/ IsExpiredTx(t, next) \/ t \in Coinbases \/ ~IsFinalTx(t, next)
                \/ t \in pool.mapTx
                \/ \E o \in Ins[t] : pool.mapNextTx[o] # NoTx
                \/ \E n \in Nullifier[t] : pool.mapSaplingNullifiers[n] # NoTx
                \/ HaveCoins(view, t)
        THEN "refused"
        ELSE IF \E o \in Ins[t] : ~known(o[1]) THEN "missing"
        ELSE IF \/ \E o \in Ins[t] : ~available(o)
                \/ Nullifier[t] \cap SpentNullifiers(view) # {}
                \/ Nullifier[t] # {} /\ Anchor[t] \notin Anchors(view)
                \/ ~Mature(view, t)
        THEN "refused"
        ELSE IF t \in Invalid \/ Branch[t] # CurrentEpochBranchId(next) THEN "invalid"
        ELSE "accepted"

\* A transaction of the block b that is disconnected returns to the pool,
\* before chainActive is updated.
TakeBack(pool, t, b) ==
    IF AcceptToMemoryPool(pool, t, Parent[b], Height[b] + 1) = "accepted"
    THEN addUnchecked(pool, t) ELSE remove(pool, t, TRUE)

Resurrect(pool, b) ==
    LET after[n \in 0 .. Len(Vtx[b])] == IF n = 0 THEN pool ELSE TakeBack(after[n - 1], Vtx[b][n], b)
        back == after[Len(Vtx[b])]
    IN  IF Root[b] # Root[Parent[b]] THEN removeWithAnchor(back, Root[b]) ELSE back

\* The assertions of check on the maps, the inputs, the nullifiers and the
\* anchors, with b the best block of pcoinsTip.
check(pool, b) ==
    /\ \A t \in pool.mapTx :
           /\ \A o \in Ins[t] : /\ IF o[1] \in pool.mapTx THEN o \in OutputsOf(o[1]) ELSE o \in Coins[b]
                                /\ pool.mapNextTx[o] = t
           /\ \A n \in Nullifier[t] : n \notin SpentNullifiers(b) /\ pool.mapSaplingNullifiers[n] = t
           /\ Nullifier[t] # {} => Anchor[t] \in Anchors(b)
    /\ \A o \in OutPoints : pool.mapNextTx[o] # NoTx =>
           pool.mapNextTx[o] \in pool.mapTx /\ o \in Ins[pool.mapNextTx[o]]
    /\ \A n \in Nullifiers : pool.mapSaplingNullifiers[n] # NoTx => pool.mapSaplingNullifiers[n] \in pool.mapTx
=============================================================================
