--------------------------- MODULE AsyncRPCQueue ---------------------------
(***************************************************************************)
(* AsyncRPCQueue and AsyncRPCOperation (src/src/asyncrpcqueue.cpp,         *)
(* asyncrpcoperation.cpp): the queue of long-running wallet operations,    *)
(* its worker threads, cancellation, and shutting it down.                 *)
(*                                                                         *)
(* What is done between taking and releasing lock_ is one action, except   *)
(* in cancelAllOperations: there the state_ of the operations is read and  *)
(* written one by one while workers, which do not need lock_ for it, write *)
(* it too, so that thread holds lock_ over several actions.  Operations    *)
(* are numbered in the order they are created.                             *)
(***************************************************************************)
EXTENDS Integers, Sequences, FiniteSets, Functions

CONSTANTS
    Workers,  \* the threads running AsyncRPCQueue::run
    MaxOps    \* bound: operations created

ASSUME AsyncRPCQueueAssumption == Workers # {} /\ MaxOps \in Nat

Ops == 1..MaxOps
NoOp == 0

READY == "ready"
EXECUTING == "executing"
CANCELLED == "cancelled"
FAILED == "failed"
SUCCESS == "success"
\* "none" for an operation that is not created yet.
OperationStatus == {"none", READY, EXECUTING, CANCELLED, FAILED, SUCCESS}
Finished == {CANCELLED, FAILED, SUCCESS}

VARIABLES
    closed_,
    finish_,
    operation_id_queue_,
    operation_map_,  \* the ids in the map; an id stands for its operation
    state_,          \* state_ of every operation
    wpc,             \* where each worker stands
    operation,       \* the operation each worker has got from the map
    spc,             \* where the thread that shuts the queue down stands
    toCancel,        \* operations cancelAllOperations has not reached
    sawReady         \* the operation whose isReady() cancel() has just seen

queueVars == <<closed_, finish_, operation_id_queue_, operation_map_>>
stopVars == <<spc, toCancel, sawReady>>

(* Workers: "run": about to take lock_ in the loop; "wait": blocked in     *)
(* condition_.wait; "check": has an operation, about to test isCancelled;  *)
(* "main": in main(), before its own test; "start": past that test;        *)
(* "body": state_ is EXECUTING; "end": main_impl has returned;             *)
(* "unlock": state_ is final, clean-up is due; "exit": the thread is gone. *)
WorkerPCs == {"run", "wait", "check", "main", "start", "body", "end", "unlock", "exit"}
(* Shutdown: "up": nobody stops the queue; "close": closed_ is set;        *)
(* "cancel": inside cancelAllOperations, holding lock_; "notify": about to *)
(* notify in wait_for_worker_threads; "join"; "joined": it has returned.   *)
StopPCs == {"up", "close", "cancel", "notify", "join", "joined"}

QueueTypeOK ==
    /\ closed_ \in BOOLEAN
    /\ finish_ \in BOOLEAN
    /\ operation_id_queue_ \in Seq(Ops)
    /\ operation_map_ \subseteq Ops
    /\ state_ \in [Ops -> OperationStatus]
    /\ wpc \in [Workers -> WorkerPCs]
    /\ operation \in [Workers -> Ops \cup {NoOp}]
    /\ spc \in StopPCs
    /\ toCancel \subseteq Ops
    /\ sawReady \in Ops \cup {NoOp}

QueueInit ==
    /\ closed_ = FALSE
    /\ finish_ = FALSE
    /\ operation_id_queue_ = <<>>
    /\ operation_map_ = {}
    /\ state_ = [o \in Ops |-> "none"]
    /\ wpc = [w \in Workers |-> "run"]
    /\ operation = [w \in Workers |-> NoOp]
    /\ spc = "up"
    /\ toCancel = {}
    /\ sawReady = NoOp

LockFree == spc # "cancel"
Created == {o \in Ops : state_[o] # "none"}
Queued == Range(operation_id_queue_)
\* The operation o is in the hands of a worker that may still run it.
Held(o) == \E w \in Workers : operation[w] = o

NotifyAll == [w \in Workers |-> IF wpc[w] = "wait" THEN "run" ELSE wpc[w]]
NotifyOne ==
    LET waiting == {w \in Workers : wpc[w] = "wait"}
    IN  IF waiting = {} THEN {wpc} ELSE {[wpc EXCEPT ![w] = "run"] : w \in waiting}

-----------------------------------------------------------------------------
(* The worker thread, AsyncRPCQueue::run *)

WorkerWait(w) ==
    /\ wpc[w] = "run" /\ LockFree
    /\ operation_id_queue_ = <<>> /\ ~closed_ /\ ~finish_
    /\ wpc' = [wpc EXCEPT ![w] = "wait"]
    /\ UNCHANGED <<queueVars, state_, operation, stopVars>>

WorkerExit(w) ==
    /\ wpc[w] = "run" /\ LockFree
    /\ closed_ \/ (finish_ /\ operation_id_queue_ = <<>>)
    /\ operation_id_queue_' = <<>>
    /\ wpc' = [wpc EXCEPT ![w] = "exit"]
    /\ UNCHANGED <<closed_, finish_, operation_map_, state_, operation, stopVars>>

\* front() without pop().
WorkerTakesKept(w) ==
    /\ wpc[w] = "run" /\ LockFree
    /\ operation_id_queue_ # <<>> /\ ~closed_
    /\ LET key == Head(operation_id_queue_)
       IN  /\ operation' = [operation EXCEPT ![w] = IF key \in operation_map_ THEN key ELSE NoOp]
           /\ wpc' = [wpc EXCEPT ![w] = IF key \in operation_map_ THEN "check" ELSE "run"]
    /\ UNCHANGED <<queueVars, state_, stopVars>>

\* The id is looked up in the same critical section; it may be gone from the
\* map, then the worker goes on with the next one.
WorkerTakes(w) ==
    /\ wpc[w] = "run" /\ LockFree
    /\ operation_id_queue_ # <<>> /\ ~closed_
    /\ LET key == Head(operation_id_queue_)
       IN  /\ operation' = [operation EXCEPT ![w] = IF key \in operation_map_ THEN key ELSE NoOp]
           /\ wpc' = [wpc EXCEPT ![w] = IF key \in operation_map_ THEN "check" ELSE "run"]
    /\ operation_id_queue_' = Tail(operation_id_queue_)
    /\ UNCHANGED <<closed_, finish_, operation_map_, state_, stopVars>>

WorkerChecks(w) ==
    /\ wpc[w] = "check"
    /\ IF state_[operation[w]] = CANCELLED
       THEN /\ wpc' = [wpc EXCEPT ![w] = "run"]
            /\ operation' = [operation EXCEPT ![w] = NoOp]
       ELSE /\ wpc' = [wpc EXCEPT ![w] = "main"]
            /\ UNCHANGED operation
    /\ UNCHANGED <<queueVars, state_, stopVars>>

\* main() of every kind of operation tests isCancelled again, ...
MainTests(w) ==
    /\ wpc[w] = "main"
    /\ wpc' = [wpc EXCEPT ![w] = IF state_[operation[w]] = CANCELLED THEN "unlock" ELSE "start"]
    /\ UNCHANGED <<queueVars, state_, operation, stopVars>>

\* ... then overwrites state_ whatever it is by now, ...
MainStarts(w) ==
    /\ wpc[w] = "start"
    /\ state_' = [state_ EXCEPT ![operation[w]] = EXECUTING]
    /\ wpc' = [wpc EXCEPT ![w] = "body"]
    /\ UNCHANGED <<queueVars, operation, stopVars>>

\* ... and again when main_impl has returned or thrown.
MainEnds(w, s) ==
    /\ wpc[w] = "end"
    /\ state_' = [state_ EXCEPT ![operation[w]] = s]
    /\ wpc' = [wpc EXCEPT ![w] = "unlock"]
    /\ UNCHANGED <<queueVars, operation, stopVars>>

MainReturns(w) ==
    /\ wpc[w] = "unlock"
    /\ wpc' = [wpc EXCEPT ![w] = "run"]
    /\ operation' = [operation EXCEPT ![w] = NoOp]
    /\ UNCHANGED <<queueVars, state_, stopVars>>

-----------------------------------------------------------------------------
(* Clients of the queue *)

\* addOperation without notify_one.
addQuietly(o) ==
    /\ LockFree
    /\ state_[o] = "none" /\ o = Cardinality(Created) + 1
    /\ state_' = [state_ EXCEPT ![o] = READY]
    /\ IF closed_ \/ finish_
       THEN UNCHANGED queueVars
       ELSE /\ operation_map_' = operation_map_ \cup {o}
            /\ operation_id_queue_' = Append(operation_id_queue_, o)
            /\ UNCHANGED <<closed_, finish_>>
    /\ UNCHANGED <<wpc, operation, stopVars>>

\* The constructor and addOperation: the operation is READY, and dropped when
\* the queue is closed or finishing.
addOperation(o) ==
    /\ LockFree
    /\ state_[o] = "none" /\ o = Cardinality(Created) + 1
    /\ state_' = [state_ EXCEPT ![o] = READY]
    /\ IF closed_ \/ finish_
       THEN UNCHANGED <<queueVars, wpc>>
       ELSE /\ operation_map_' = operation_map_ \cup {o}
            /\ operation_id_queue_' = Append(operation_id_queue_, o)
            /\ wpc' \in NotifyOne
            /\ UNCHANGED <<closed_, finish_>>
    /\ UNCHANGED <<operation, stopVars>>

\* popOperationForId: its first critical section only reads the map, which
\* nobody else takes ids out of while the caller holds cs_wallet.
popOperationForId(o) ==
    /\ LockFree
    /\ operation_map_' = operation_map_ \ {o}
    /\ UNCHANGED <<closed_, finish_, operation_id_queue_, state_, wpc, operation, stopVars>>

-----------------------------------------------------------------------------
(* Shutting down: closeAndWait, and finishAndWait, which only the tests use *)

StoreClosed ==
    /\ spc = "up"
    /\ closed_' = TRUE
    /\ spc' = "close"
    /\ UNCHANGED <<finish_, operation_id_queue_, operation_map_, state_, wpc, operation,
                   toCancel, sawReady>>

StoreFinish ==
    /\ spc = "up"
    /\ finish_' = TRUE
    /\ spc' = "notify"
    /\ UNCHANGED <<closed_, operation_id_queue_, operation_map_, state_, wpc, operation,
                   toCancel, sawReady>>

CancelAllBegins ==
    /\ spc = "close"
    /\ spc' = "cancel"
    /\ toCancel' = operation_map_
    /\ UNCHANGED <<queueVars, state_, wpc, operation, sawReady>>

\* cancel() is if (isReady()) set_state(CANCELLED): a test and a later store.
\* It is not virtual, so this is what every kind of operation gets.
CancelAllTests(o) ==
    /\ spc = "cancel" /\ sawReady = NoOp /\ o \in toCancel
    /\ toCancel' = toCancel \ {o}
    /\ sawReady' = IF state_[o] = READY THEN o ELSE NoOp
    /\ UNCHANGED <<queueVars, state_, wpc, operation, spc>>

CancelAllStores ==
    /\ spc = "cancel" /\ sawReady # NoOp
    /\ state_' = [state_ EXCEPT ![sawReady] = CANCELLED]
    /\ sawReady' = NoOp
    /\ UNCHANGED <<queueVars, wpc, operation, spc, toCancel>>

CancelAllEnds ==
    /\ spc = "cancel" /\ toCancel = {} /\ sawReady = NoOp
    /\ wpc' = NotifyAll
    /\ spc' = "notify"
    /\ UNCHANGED <<queueVars, state_, operation, toCancel, sawReady>>

\* A finish() or close() that does not wake the workers.
NotifyNobody ==
    /\ spc = "notify"
    /\ spc' = "join"
    /\ UNCHANGED <<queueVars, state_, wpc, operation, toCancel, sawReady>>

NotifyWorkers ==
    /\ spc = "notify"
    /\ wpc' = NotifyAll
    /\ spc' = "join"
    /\ UNCHANGED <<queueVars, state_, operation, toCancel, sawReady>>

Joined ==
    /\ spc = "join"
    /\ \A w \in Workers : wpc[w] = "exit"
    /\ spc' = "joined"
    /\ UNCHANGED <<queueVars, state_, wpc, operation, toCancel, sawReady>>

Stopping ==
    \/ CancelAllBegins \/ CancelAllStores \/ CancelAllEnds \/ NotifyWorkers \/ Joined
    \/ \E o \in Ops : CancelAllTests(o)
=============================================================================
