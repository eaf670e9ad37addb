----------------------------- MODULE WalletTasks -----------------------------
(***************************************************************************)
(* The wallet's operations on the AsyncRPCQueue: what the RPC handlers     *)
(* queue (z_shieldcoinbase, z_mergetoaddress, z_sendmany), what the thread *)
(* that notifies the wallet of blocks queues (note consolidation and       *)
(* sweep, src/src/wallet/wallet.cpp), their main() and main_impl(), and    *)
(* z_getoperationresult.                                                   *)
(*                                                                         *)
(* cs_wallet is held by the RPC handlers, by RunSaplingConsolidation, and  *)
(* wherever an operation commits a transaction or unlocks its inputs;      *)
(* RunSaplingSweep runs without it.                                        *)
(***************************************************************************)
EXTENDS AsyncRPCQueue

CONSTANTS
    UserKinds,              \* kinds of operations RPC clients ask for
    consolidationInterval,
    sweepInterval,
    Near,                   \* "within 5 blocks" of RunSaplingSweep
    MaxTxs,                 \* bound: transactions one operation commits
    MaxHeight,              \* bound: height of the last block
    MaxLag,                 \* bound: blocks the notifications are behind
    MaxReorgs               \* bound: blocks disconnected

ASSUME WalletTasksAssumption ==
    /\ UserKinds \subseteq {"send", "merge"}
    /\ {consolidationInterval, sweepInterval, Near, MaxTxs, MaxHeight, MaxLag, MaxReorgs} \subseteq Nat /\ MaxTxs > 0

Tasks == {"consolidation", "sweep"}
Kinds == Tasks \cup {"send", "merge"}

VARIABLES
    kind,           \* which class each operation is of
    sent,           \* transactions each operation has committed
    locked,         \* operations whose inputs are locked in the wallet
    success,        \* each worker's local: what main_impl returned
    runs,           \* how often main() got past its test, for each operation
    notified,       \* height of the block the wallet was last told of
    reorgs,         \* blocks disconnected so far
    tpc,            \* where the notifying thread stands
    lastOperation,  \* saplingConsolidationOperationId, saplingSweepOperationId
    nextSweep,
    fSweepRunning

opVars == <<kind, sent, locked, success, runs>>
tipVars == <<notified, reorgs, tpc, lastOperation>>
sweepVars == <<nextSweep, fSweepRunning>>
walletVars == <<opVars, tipVars, sweepVars>>
vars == <<queueVars, state_, wpc, operation, stopVars, walletVars>>

(* The notifying thread: "idle"; a task's name: about to run it; <<task,   *)
(* "cancel">>: saw its last operation READY; <<task, "add">>: about to     *)
(* queue a new one.                                                        *)
Idle == <<"idle", "">>
At(t) == <<t, "test">>
TipPCs == {Idle} \cup {<<t, s>> : t \in Tasks, s \in {"test", "cancel", "add"}}

TypeOK ==
    /\ QueueTypeOK
    /\ kind \in [Ops -> Kinds \cup {"none"}]
    /\ sent \in [Ops -> 0..MaxTxs]
    /\ locked \subseteq Ops
    /\ success \in [Workers -> BOOLEAN]
    /\ runs \in [Ops -> Nat]
    /\ notified \in 0..MaxHeight
    /\ reorgs \in 0..MaxReorgs
    /\ tpc \in TipPCs
    /\ lastOperation \in [Tasks -> Ops \cup {NoOp}]
    /\ nextSweep \in Nat
    /\ fSweepRunning \in BOOLEAN

Init ==
    /\ QueueInit
    /\ kind = [o \in Ops |-> "none"]
    /\ sent = [o \in Ops |-> 0]
    /\ locked = {}
    /\ success = [w \in Workers |-> FALSE]
    /\ runs = [o \in Ops |-> 0]
    /\ notified = 0
    /\ reorgs = 0
    /\ tpc = Idle
    /\ lastOperation = [t \in Tasks |-> NoOp]
    /\ nextSweep = sweepInterval
    /\ fSweepRunning = FALSE

\* AppInit2 sets nextConsolidation; nothing in the code changes it later, and
\* nothing ever sets fConsolidationRunning.
nextConsolidation == consolidationInterval
fConsolidationRunning == FALSE

\* Room under the bound MaxOps, one place being kept for the task under way.
OpsLeft == Cardinality(Created) + (IF tpc[2] \in {"cancel", "add"} THEN 1 ELSE 0) < MaxOps

CsWalletFree == tpc[1] # "consolidation"

-----------------------------------------------------------------------------
(* The worker in the wallet's operations *)

QueueStep(w) ==
    /\ \/ WorkerWait(w) \/ WorkerExit(w) \/ WorkerTakes(w) \/ WorkerChecks(w) \/ MainTests(w)
    /\ UNCHANGED walletVars

Start(w) ==
    /\ MainStarts(w)
    /\ runs' = [runs EXCEPT ![operation[w]] = @ + 1]
    /\ UNCHANGED <<kind, sent, locked, success, tipVars, sweepVars>>

\* main_impl returns or throws.
ImplEnds(w, ok) ==
    /\ wpc[w] = "body"
    /\ wpc' = [wpc EXCEPT ![w] = "end"]
    /\ success' = [success EXCEPT ![w] = ok]
    /\ UNCHANGED <<queueVars, state_, operation, stopVars, kind, sent, locked, runs, tipVars>>

\* One transaction is built and committed; the automatic tasks look at
\* isCancelled before every commit, the operations users ask for do not.
Commits(w) ==
    /\ wpc[w] = "body" /\ CsWalletFree
    /\ kind[operation[w]] \in Tasks => state_[operation[w]] # CANCELLED
    /\ sent[operation[w]] < (IF kind[operation[w]] \in Tasks THEN MaxTxs ELSE 1)
    /\ sent' = [sent EXCEPT ![operation[w]] = @ + 1]
    /\ UNCHANGED <<queueVars, state_, wpc, operation, stopVars, kind, locked, success, runs,
                   tipVars, sweepVars>>

\* A user's operation succeeds with its transaction or throws without it.
UserEnds(w) ==
    /\ wpc[w] = "body" /\ kind[operation[w]] \in UserKinds
    /\ ImplEnds(w, sent[operation[w]] = 1)
    /\ UNCHANGED sweepVars

\* Consolidation ends when it has seen all addresses, on an error, or
\* cancelled before a commit, which counts as a failure.
ConsolidationEnds(w) ==
    /\ wpc[w] = "body" /\ kind[operation[w]] = "consolidation"
    /\ \E ok \in BOOLEAN : ImplEnds(w, ok)
    /\ UNCHANGED sweepVars

\* Sweep with nothing left to move: only then is the sweep over.
SweepCompletes(w) ==
    /\ wpc[w] = "body" /\ kind[operation[w]] = "sweep" /\ sent[operation[w]] = 0
    /\ ImplEnds(w, TRUE)
    /\ \E ahead \in 0..MaxLag : nextSweep' = sweepInterval + notified + ahead
    /\ fSweepRunning' = FALSE

\* Sweep that moved something, was cancelled (which is no failure here),
\* failed, or returned early.
SweepPauses(w) ==
    /\ wpc[w] = "body" /\ kind[operation[w]] = "sweep"
    /\ \E ok \in BOOLEAN : ImplEnds(w, ok)
    /\ UNCHANGED sweepVars

End(w) ==
    /\ MainEnds(w, IF success[w] THEN SUCCESS ELSE FAILED)
    /\ UNCHANGED walletVars

\* The clean-up at the end of main() left out.
KeepLocked(w) ==
    /\ MainReturns(w) /\ CsWalletFree
    /\ success' = [success EXCEPT ![w] = FALSE]
    /\ UNCHANGED <<kind, sent, locked, runs, tipVars, sweepVars>>

\* unlock_utxos and unlock_notes, also after a cancelled main().
Unlock(w) ==
    /\ MainReturns(w) /\ CsWalletFree
    /\ locked' = locked \ {operation[w]}
    /\ success' = [success EXCEPT ![w] = FALSE]
    /\ UNCHANGED <<kind, sent, runs, tipVars, sweepVars>>

Worker(w) ==
    \/ QueueStep(w) \/ Start(w) \/ Commits(w) \/ UserEnds(w) \/ ConsolidationEnds(w)
    \/ SweepCompletes(w) \/ SweepPauses(w) \/ End(w) \/ Unlock(w)

-----------------------------------------------------------------------------
(* RPC handlers *)

\* z_shieldcoinbase and z_mergetoaddress lock their inputs in the constructor.
UserAsks(o, k) ==
    /\ CsWalletFree /\ OpsLeft
    /\ addOperation(o)
    /\ kind' = [kind EXCEPT ![o] = k]
    /\ locked' = IF k = "merge" THEN locked \cup {o} ELSE locked
    /\ UNCHANGED <<sent, success, runs, tipVars, sweepVars>>

\* z_getoperationresult for whatever has left the state READY.
RemoveStarted(o) ==
    /\ CsWalletFree
    /\ o \in operation_map_ /\ state_[o] # READY
    /\ popOperationForId(o)
    /\ UNCHANGED walletVars

\* z_getoperationresult: an operation that has ended, going by its status, is
\* reported and removed; for any other one the call changes nothing.  What a
\* worker stores into state_ between the two has the same effect after both.
z_getoperationresult(o) ==
    /\ CsWalletFree
    /\ o \in operation_map_ /\ state_[o] \in Finished
    /\ popOperationForId(o)
    /\ UNCHANGED walletVars

-----------------------------------------------------------------------------
(* ThreadNotifyWallets calling CWallet::ChainTip *)

\* A block is connected; the tasks are not run while the node is syncing.
BlockConnected ==
    /\ tpc = Idle /\ notified < MaxHeight
    /\ notified' = notified + 1
    /\ tpc' \in {Idle, At("consolidation")}
    /\ UNCHANGED <<queueVars, state_, wpc, operation, stopVars, opVars, reorgs, lastOperation,
                   sweepVars>>

BlockDisconnected ==
    /\ tpc = Idle /\ notified > 0 /\ reorgs < MaxReorgs
    /\ notified' = notified - 1
    /\ reorgs' = reorgs + 1
    /\ UNCHANGED <<queueVars, state_, wpc, operation, stopVars, opVars, tpc, lastOperation,
                   sweepVars>>

\* The early returns of the two functions.
MayRun(t) ==
    /\ OpsLeft
    /\ IF t = "consolidation"
       THEN nextConsolidation <= notified /\ ~fSweepRunning
       ELSE /\ nextSweep <= notified
            /\ ~(nextConsolidation - Near <= notified)
            /\ ~fConsolidationRunning

After(t) == IF t = "consolidation" THEN At("sweep") ELSE Idle

TaskNotDue(t) ==
    /\ tpc = At(t)
    /\ ~MayRun(t)
    /\ tpc' = After(t)
    /\ UNCHANGED <<queueVars, state_, wpc, operation, stopVars, opVars, notified, reorgs,
                   lastOperation, sweepVars>>

\* fSweepRunning is set, the last operation is looked up and cancel() called
\* on it: first its test, ...
RunTask(t) ==
    /\ tpc = At(t) /\ LockFree
    /\ MayRun(t)
    /\ fSweepRunning' = (fSweepRunning \/ t = "sweep")
    /\ LET o == lastOperation[t]
       IN  tpc' = <<t, IF o \in operation_map_ /\ state_[o] = READY THEN "cancel" ELSE "add">>
    /\ UNCHANGED <<queueVars, state_, wpc, operation, stopVars, opVars, notified, reorgs,
                   lastOperation, nextSweep>>

\* The last operation left alone when a new one is queued.
LeaveLast(t) ==
    /\ tpc = <<t, "cancel">>
    /\ tpc' = <<t, "add">>
    /\ UNCHANGED <<queueVars, state_, wpc, operation, stopVars, opVars, notified, reorgs,
                   lastOperation, sweepVars>>

\* ... then its store, ...
CancelLast(t) ==
    /\ tpc = <<t, "cancel">>
    /\ state_' = [state_ EXCEPT ![lastOperation[t]] = CANCELLED]
    /\ tpc' = <<t, "add">>
    /\ UNCHANGED <<queueVars, wpc, operation, stopVars, opVars, notified, reorgs, lastOperation,
                   sweepVars>>

\* ... and a new operation is queued in its place.
AddTask(t, o) ==
    /\ tpc = <<t, "add">>
    /\ addOperation(o)
    /\ kind' = [kind EXCEPT ![o] = t]
    /\ lastOperation' = [lastOperation EXCEPT ![t] = o]
    /\ tpc' = After(t)
    /\ UNCHANGED <<sent, locked, success, runs, notified, reorgs, sweepVars>>

Tip ==
    \/ BlockConnected \/ BlockDisconnected
    \/ \E t \in Tasks : \/ TaskNotDue(t) \/ RunTask(t) \/ CancelLast(t)
                        \/ \E o \in Ops : AddTask(t, o)

-----------------------------------------------------------------------------
Stop == (StoreClosed \/ StoreFinish \/ Stopping) /\ UNCHANGED walletVars

Next ==
    \/ \E w \in Workers : Worker(w)
    \/ \E o \in Ops, k \in UserKinds : UserAsks(o, k)
    \/ \E o \in Ops : z_getoperationresult(o)
    \/ Tip
    \/ Stop

\* The workers and the threads inside a call go on; nobody has to ask for
\* operations, to connect blocks or to shut down.
Fairness ==
    /\ \A w \in Workers : SF_vars(Worker(w))
    /\ WF_vars(\E t \in Tasks : TaskNotDue(t) \/ RunTask(t) \/ CancelLast(t) \/ \E o \in Ops : AddTask(t, o))
    /\ WF_vars(Stopping /\ UNCHANGED walletVars)

Spec == Init /\ [][Next]_vars
FairSpec == Spec /\ Fairness

-----------------------------------------------------------------------------
(* An operation is in one place: at most once in the queue or in the hands *)
(* of one worker, and its main() gets past its test at most once, so no    *)
(* payment is made twice (AsyncRPCQueue::run).                             *)
RunsOnce ==
    /\ \A o \in Ops : runs[o] <= 1
    /\ \A w \in Workers : operation[w] # NoOp => operation[w] \notin Queued
    /\ \A v, w \in Workers : v # w /\ operation[v] # NoOp => operation[v] # operation[w]

(* Until the queue is closed, an operation that was accepted and is READY  *)
(* or EXECUTING is still to be run by somebody, and the coins it locked    *)
(* are locked only as long as that is so (unlock_utxos, unlock_notes).     *)
NothingForgotten ==
    ~closed_ =>
        /\ \A o \in operation_map_ : state_[o] \in {READY, EXECUTING} => o \in Queued \/ Held(o)
        /\ ~finish_ => \A o \in locked : o \in Queued \/ Held(o)

(* A new consolidation or sweep takes the place of the last one: two of    *)
(* the same kind are never waiting to be run (the cancel() in              *)
(* RunSaplingConsolidation and RunSaplingSweep).                           *)
OneTaskWaiting ==
    \A o, p \in operation_map_ :
        o # p /\ kind[o] = kind[p] /\ kind[o] \in Tasks => ~(state_[o] = READY /\ state_[p] = READY)

(* An operation a user asked for stays in the map, where                   *)
(* z_getoperationstatus finds it, until it has ended.                      *)
UserSeesOperation ==
    \A o \in Ops :
        /\ kind[o] \in UserKinds
        /\ state_[o] = EXECUTING
        /\ ~closed_
        => o \in operation_map_

(* Every operation that was accepted ends: it is run or cancelled, whatever *)
(* else is queued and even when the queue is closed while it waits.        *)
OperationsEnd == \A o \in Ops : o \in operation_map_ ~> state_[o] \in Finished

(* closeAndWait and finishAndWait return: no worker sleeps through the     *)
(* notification (the flags are stored without lock_).                      *)
StopReturns == spc # "up" ~> spc = "joined"

=============================================================================
