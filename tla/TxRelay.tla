------------------------------ MODULE TxRelay -------------------------------
(***************************************************************************)
(* Unconfirmed transactions: the "tx" message and the orphans              *)
(* (src/src/main.cpp), the memory pool while the chain changes (TxMemPool) *)
(* and the thread that tells the wallets (src/src/validationinterface.cpp).*)
(*                                                                         *)
(* Messages, RPCs and chain activation hold cs_main, so each is one        *)
(* action; ThreadNotifyWallets holds it only while it collects.  Which     *)
(* chain is activated is ChainState's subject: here it may be any.         *)
(***************************************************************************)
EXTENDS TxMemPool

CONSTANTS
    Peers,
    nMaxOrphanTx,       \* -maxorphantx
    Sent,               \* the transactions that are sent to the node
    Large,              \* those that are too large to be kept as orphans
    MaxEvents           \* bound: transactions that come and changes of the tip

ASSUME TxRelayAssumption == Sent \subseteq Txs /\ nMaxOrphanTx \in Nat /\ MaxEvents \in Nat

VARIABLES
    tip,                            \* chainActive.Tip(), best block of pcoinsTip
    pool,
    mapOrphanTransactions,          \* transaction -> peer
    mapOrphanTransactionsByPrev,    \* transaction -> the orphans that spend it
    recentRejects, hashRecentRejectsChainTip,
    recentlyConflictedTxs,          \* block -> transactions it removed as conflicts
    \* ThreadNotifyWallets
    pc, pindexLastTip, pindexFork, blockStack, recentlyAdded,
    wallet,                         \* what the wallets last heard of a transaction
    nEvents

orphanVars == <<mapOrphanTransactions, mapOrphanTransactionsByPrev>>
rejectVars == <<recentRejects, hashRecentRejectsChainTip>>
notifyVars == <<pc, pindexLastTip, pindexFork, blockStack, recentlyAdded, wallet>>
vars == <<tip, pool, orphanVars, rejectVars, recentlyConflictedTxs, notifyVars, nEvents>>

Orphans == DOMAIN mapOrphanTransactions

TypeOK ==
    /\ tip \in Blocks /\ pool \in Pools
    /\ Orphans \subseteq Txs /\ \A t \in Orphans : mapOrphanTransactions[t] \in Peers
    /\ mapOrphanTransactionsByPrev \in [Txs -> SUBSET Txs]
    /\ recentRejects \subseteq Txs /\ hashRecentRejectsChainTip \in Blocks
    /\ DOMAIN recentlyConflictedTxs \subseteq Blocks
    /\ \A b \in DOMAIN recentlyConflictedTxs : recentlyConflictedTxs[b] \subseteq Txs
    /\ pc \in {"sleep", "disconnect", "connect", "thrown"}
    /\ {pindexLastTip, pindexFork} \subseteq Blocks
    /\ blockStack \in Seq([block : Blocks, conflicted : SUBSET Txs])
    /\ recentlyAdded \subseteq Txs
    /\ wallet \in [Txs -> Blocks \cup {"unknown", "unconfirmed"}]
    /\ nEvents \in 0..MaxEvents

\* ThreadNotifyWallets is started with the tip of the chain.
Init ==
    /\ tip = Base /\ pool = EmptyPool
    /\ mapOrphanTransactions = <<>>
    /\ mapOrphanTransactionsByPrev = [t \in Txs |-> {}]
    /\ recentRejects = {} /\ hashRecentRejectsChainTip = Base
    /\ recentlyConflictedTxs = <<>>
    /\ pc = "sleep" /\ pindexLastTip = Base /\ pindexFork = Base
    /\ blockStack = <<>> /\ recentlyAdded = {}
    /\ wallet = [t \in Txs |-> IF t \in TxsOf(Base) THEN Base ELSE "unknown"]
    /\ nEvents = 0

-----------------------------------------------------------------------------
(* Orphans *)

EraseOrphansOnly(gone) ==
    /\ mapOrphanTransactions' = [t \in Orphans \ gone |-> mapOrphanTransactions[t]]
    /\ UNCHANGED mapOrphanTransactionsByPrev

\* EraseOrphanTx for every transaction of gone.
EraseOrphans(gone) ==
    /\ mapOrphanTransactions' = [t \in Orphans \ gone |-> mapOrphanTransactions[t]]
    /\ mapOrphanTransactionsByPrev' = [t \in Txs |-> mapOrphanTransactionsByPrev[t] \ (gone \cap Orphans)]

FromPeer(t, peer) == IF t \in Orphans THEN mapOrphanTransactions[t] ELSE peer

\* LimitOrphanTxSize: what may be left of ts when random ones are evicted.
LimitOrphanTxSize(ts) ==
    {kept \in SUBSET ts : IF Cardinality(ts) <= nMaxOrphanTx THEN kept = ts ELSE Cardinality(kept) = nMaxOrphanTx}

AddOrphanTx(t, peer) ==
    LET new == {t} \ Large
        all == Orphans \cup new
        spent == {o[1] : o \in Ins[t]}
    IN  \E kept \in LimitOrphanTxSize(all) :
            /\ mapOrphanTransactions' = [u \in kept |-> FromPeer(u, peer)]
            /\ mapOrphanTransactionsByPrev' =
                   [u \in Txs |-> (mapOrphanTransactionsByPrev[u] \cup (IF u \in spent THEN new ELSE {}))
                                  \ (all \ kept)]

\* FinalizeNode calls EraseOrphansFor.
EraseOrphansFor(peer) ==
    /\ peer \in {mapOrphanTransactions[t] : t \in Orphans}
    /\ EraseOrphans({t \in Orphans : mapOrphanTransactions[t] = peer})
    /\ UNCHANGED <<tip, pool, rejectVars, recentlyConflictedTxs, notifyVars, nEvents>>

-----------------------------------------------------------------------------
(* The "tx" message *)

Answer(p, t) == AcceptToMemoryPool(p, t, tip, Height[tip] + 1)

\* An orphan that spends a transaction of the work queue is tried.
TryOrphan(acc, t) ==
    LET answer == Answer(acc.pool, t)
        peer == mapOrphanTransactions[t]
    IN  IF peer \in acc.setMisbehaving \/ answer = "missing" THEN acc
        ELSE IF answer = "accepted"
             THEN [acc EXCEPT !.pool = addUnchecked(@, t), !.vWorkQueue = Append(@, t), !.vEraseQueue = @ \cup {t}]
             ELSE [acc EXCEPT !.vEraseQueue = @ \cup {t}, !.rejects = @ \cup {t},
                              !.setMisbehaving = IF answer = "invalid" THEN @ \cup {peer} ELSE @]

\* All that spend u, in the order of their hashes.
TrySpenders(acc, u) ==
    LET after[n \in 0 .. Len(TxOrder)] ==
            IF n = 0 THEN acc
            ELSE IF TxOrder[n] \in mapOrphanTransactionsByPrev[u] THEN TryOrphan(after[n - 1], TxOrder[n])
            ELSE after[n - 1]
    IN  after[Len(TxOrder)]

\* The loop over vWorkQueue that starts with an accepted transaction.
ProcessOrphans(start) ==
    LET visit(acc, n) == IF n <= Len(acc.vWorkQueue) THEN TrySpenders(acc, acc.vWorkQueue[n]) ELSE acc
        after[n \in 0 .. Len(TxOrder)] == IF n = 0 THEN start ELSE visit(after[n - 1], n)
    IN  after[Len(TxOrder)]

ReceiveTx(t, peer) ==
    LET rejects == IF tip # hashRecentRejectsChainTip THEN {} ELSE recentRejects
        have == t \in rejects \cup pool.mapTx \cup Orphans \/ HaveCoins(tip, t)
        answer == IF have THEN "refused" ELSE Answer(pool, t)
        done == ProcessOrphans([pool |-> addUnchecked(pool, t), vWorkQueue |-> <<t>>, vEraseQueue |-> {},
                                rejects |-> rejects, setMisbehaving |-> {}])
    IN  /\ nEvents < MaxEvents
        /\ nEvents' = nEvents + 1
        /\ hashRecentRejectsChainTip' = tip
        /\ \/ /\ answer = "accepted"
              /\ pool' = done.pool
              /\ recentRejects' = done.rejects
              /\ EraseOrphans(done.vEraseQueue)
           \/ /\ answer = "missing" /\ Nullifier[t] = {}
              /\ recentRejects' = rejects
              /\ AddOrphanTx(t, peer)
              /\ UNCHANGED pool
           \/ /\ answer \in {"refused", "invalid"} \/ (answer = "missing" /\ Nullifier[t] # {})
              /\ recentRejects' = rejects \cup {t}
              /\ UNCHANGED <<pool, orphanVars>>
        /\ UNCHANGED <<tip, recentlyConflictedTxs, notifyVars>>

\* sendrawtransaction and the wallet.
SendRawTransaction(t) ==
    /\ nEvents < MaxEvents
    /\ nEvents' = nEvents + 1
    /\ Answer(pool, t) = "accepted"
    /\ pool' = addUnchecked(pool, t)
    /\ UNCHANGED <<tip, orphanVars, rejectVars, recentlyConflictedTxs, notifyVars>>

-----------------------------------------------------------------------------
(* ActivateBestChainStep, InvalidateBlock *)

\* CChain::FindFork: down from b to a block of the active chain.
FindFork(b) ==
    LET fork[x \in Blocks] == IF x \in Chain[tip] THEN x ELSE fork[Parent[x]]
    IN  fork[b]

DisconnectTip(acc) == [tip |-> Parent[acc.tip], pool |-> Resurrect(acc.pool, acc.tip)]

\* The first loop of ActivateBestChainStep.
DisconnectTo(fork) ==
    LET after[n \in 0 .. (Height[tip] - Height[fork])] ==
            IF n = 0 THEN [tip |-> tip, pool |-> pool] ELSE DisconnectTip(after[n - 1])
    IN  after[Height[tip] - Height[fork]].pool

InsertIfAny(m, b, ts) ==
    IF ts = {} THEN m ELSE [a \in DOMAIN m \cup {b} |-> IF a \in DOMAIN m THEN m[a] ELSE ts]

\* std::map::insert: an entry that is there stays as it is.
InsertConflicts(m, b, ts) == [a \in DOMAIN m \cup {b} |-> IF a \in DOMAIN m THEN m[a] ELSE ts]

\* removeExpired, which follows removeForBlock, selects nothing to remove.
ConnectTip(acc, b) ==
    LET r == removeForBlock(acc.pool, Vtx[b])
    IN  [pool |-> r.pool, conflicted |-> InsertConflicts(acc.conflicted, b, r.conflicts)]

\* The second one: the blocks from fork to c, lowest first.
ConnectTo(start, fork, c) ==
    LET after[b \in Blocks] == IF b \in Chain[fork] THEN start ELSE ConnectTip(after[Parent[b]], b)
    IN  after[c]

Activate(c) ==
    /\ c # tip /\ nEvents < MaxEvents
    /\ LET fork == FindFork(c)
           done == ConnectTo([pool |-> DisconnectTo(fork), conflicted |-> recentlyConflictedTxs], fork, c)
           fit == IF fork = tip THEN done.pool ELSE removeForReorg(done.pool, c)
       IN  /\ pool' = removeWithoutBranchId(fit, CurrentEpochBranchId(Height[c] + 1))
           /\ recentlyConflictedTxs' = done.conflicted
    /\ tip' = c
    /\ nEvents' = nEvents + 1
    /\ UNCHANGED <<orphanVars, rejectVars, notifyVars>>

-----------------------------------------------------------------------------
(* ThreadNotifyWallets *)

SyncWithWallets(w, ts, what) == [t \in Txs |-> IF t \in ts THEN what ELSE w[t]]

TellNoBlock(w, next) ==
    SyncWithWallets(SyncWithWallets(w, next.conflicted, "unconfirmed"), TxsOf(next.block), "unconfirmed")
\* A connected block: first the transactions it put in conflict, then its own.
TellConnected(w, next) ==
    SyncWithWallets(SyncWithWallets(w, next.conflicted, "unconfirmed"), TxsOf(next.block), next.block)

\* The blocks from fork to the tip, with what they put in conflict; the next
\* one to tell of first.
Connected(fork) ==
    LET stack[b \in Blocks] ==
            IF b \in Chain[fork] THEN <<>>
            ELSE Append(stack[Parent[b]], [block |-> b, conflicted |-> recentlyConflictedTxs[b]])
    IN  stack[tip]

\* Everything is collected under cs_main; a block without an entry in
\* recentlyConflictedTxs makes map::at throw.
Collect ==
    /\ pc = "sleep"
    /\ tip # pindexLastTip \/ pool.mapRecentlyAddedTx # {} \/ DOMAIN recentlyConflictedTxs # {}
    /\ pindexFork' = FindFork(pindexLastTip)
    /\ IF Chain[tip] \ Chain[FindFork(pindexLastTip)] \subseteq DOMAIN recentlyConflictedTxs
       THEN pc' = "disconnect" /\ blockStack' = Connected(FindFork(pindexLastTip))
       ELSE pc' = "thrown" /\ UNCHANGED blockStack
    /\ recentlyConflictedTxs' = <<>>
    /\ recentlyAdded' = pool.mapRecentlyAddedTx
    /\ pool' = DrainRecentlyAdded(pool)
    /\ UNCHANGED <<tip, orphanVars, rejectVars, pindexLastTip, wallet, nEvents>>

NotifyDisconnect ==
    /\ pc = "disconnect"
    /\ IF pindexLastTip = pindexFork THEN pc' = "connect" /\ UNCHANGED <<wallet, pindexLastTip>>
       ELSE /\ wallet' = SyncWithWallets(wallet, TxsOf(pindexLastTip), "unconfirmed")
            /\ pindexLastTip' = Parent[pindexLastTip]
            /\ UNCHANGED pc
    /\ UNCHANGED <<tip, pool, orphanVars, rejectVars, recentlyConflictedTxs, pindexFork, blockStack,
                   recentlyAdded, nEvents>>

NotifyConnect ==
    /\ pc = "connect"
    /\ IF blockStack = <<>>
       THEN /\ wallet' = SyncWithWallets(wallet, recentlyAdded, "unconfirmed")
            /\ recentlyAdded' = {}
            /\ pc' = "sleep"
            /\ UNCHANGED <<pindexLastTip, blockStack>>
       ELSE /\ wallet' = TellConnected(wallet, Head(blockStack))
            /\ pindexLastTip' = Head(blockStack).block
            /\ blockStack' = Tail(blockStack)
            /\ UNCHANGED <<pc, recentlyAdded>>
    /\ UNCHANGED <<tip, pool, orphanVars, rejectVars, recentlyConflictedTxs, pindexFork, nEvents>>

Notify == Collect \/ NotifyDisconnect \/ NotifyConnect

-----------------------------------------------------------------------------
Next ==
    \/ \E t \in Sent, peer \in Peers : ReceiveTx(t, peer)
    \/ \E t \in Sent : SendRawTransaction(t)
    \/ \E peer \in Peers : EraseOrphansFor(peer)
    \/ \E c \in Blocks : Activate(c)
    \/ Notify

\* The thread runs a cycle every second.
Spec == Init /\ [][Next]_vars /\ WF_vars(Notify)

-----------------------------------------------------------------------------
(* After every message and every change of the chain the pool passes       *)
(* CTxMemPool::check, each of its transactions is final and commits to the *)
(* branch of the next block, and none is in the active chain, however      *)
(* often it was mined, thrown out by a reorganisation and taken back       *)
(* (removeForBlock and the resurrection in DisconnectTip).                 *)
PoolConsistent ==
    /\ check(pool, tip)
    /\ \A t \in pool.mapTx :
           IsFinalTx(t, Height[tip] + 1) /\ Branch[t] = CurrentEpochBranchId(Height[tip] + 1)
    /\ pool.mapTx \cap ChainTxs[tip] = {}

(* mapRecentlyAddedTx, a map of pointers into mapTx, never has an entry of *)
(* a transaction that has left the pool (the erase in CTxMemPool::remove). *)
NoDanglingPointer == pool.mapRecentlyAddedTx \subseteq pool.mapTx

(* mapOrphanTransactionsByPrev lists exactly the orphans, under each       *)
(* transaction they spend: the loop of the "tx" handler finds every hash   *)
(* it reads there in mapOrphanTransactions.  Eviction keeps both below the *)
(* limit (EraseOrphanTx, LimitOrphanTxSize).                               *)
OrphansSound ==
    /\ \A t \in Txs : mapOrphanTransactionsByPrev[t] = {u \in Orphans : \E o \in Ins[u] : o[1] = t}
    /\ Cardinality(Orphans) <= nMaxOrphanTx

(* recentlyConflicted.first.at(pindex) never throws in ThreadNotifyWallets: *)
(* every block between the fork and the tip was connected by ConnectTip    *)
(* since the last cycle.                                                   *)
NeverThrows == pc # "thrown"

(* Between two cycles the wallets have each transaction of the chain they  *)
(* were last told of in its block, whatever the order in which they heard  *)
(* of it as unconfirmed, conflicted, mined and disconnected; and what is   *)
(* in the pool and not waiting to be told has been told, as unconfirmed    *)
(* once the cycle is over (ThreadNotifyWallets).                           *)
WalletsInformed ==
    /\ pc = "sleep" => \A b \in Chain[pindexLastTip] : \A t \in TxsOf(b) : wallet[t] = b
    /\ \A t \in pool.mapTx \ (pool.mapRecentlyAddedTx \cup recentlyAdded) :
           IF pc = "sleep" /\ pindexLastTip = tip THEN wallet[t] = "unconfirmed" ELSE wallet[t] # "unknown"

(* When the chain comes to rest the wallets learn of its tip and of        *)
(* everything in the pool.                                                 *)
WalletsCatchUp ==
    <>[](pindexLastTip = tip /\ pool.mapRecentlyAddedTx \cup recentlyAdded = {})

=============================================================================
