----------------------------- MODULE CheckQueue -----------------------------
(***************************************************************************)
(* CCheckQueue / CCheckQueueControl (src/src/checkqueue.h): the pool of    *)
(* script-verification threads that ConnectBlock drives.                   *)
(*                                                                         *)
(* Everything between taking `mutex' and releasing it (by returning, by    *)
(* cond.wait or at the end of the critical section) is one action; the     *)
(* checks themselves run unlocked, in an action of their own.  Checks are  *)
(* numbered in the order the master adds them in one round; `bad' holds    *)
(* the ones whose operator() returns false.                                *)
(***************************************************************************)
EXTENDS Integers, Sequences, FiniteSets

CONSTANTS
    Workers,     \* the threads running ThreadScriptCheck
    Master,      \* the thread that owns the CCheckQueueControl
    nBatchSize,  \* largest batch a thread takes (128 in main.cpp)
    MaxChecks    \* bound: checks added in one round

ASSUME CheckQueueAssumption ==
    /\ Master \notin Workers
    /\ IsFiniteSet(Workers)
    /\ nBatchSize \in Nat \ {0}
    /\ MaxChecks \in Nat

VARIABLES
    queue,    \* std::vector<T> queue, its back is the top of the stack
    nIdle,
    nTotal,
    fAllOk,
    nTodo,
    pc,       \* where each thread stands (PCs)
    vChecks,  \* the batch each thread has taken
    fOk,      \* each thread's local fOk
    nAdded,   \* checks added so far in this round
    bad,      \* the checks of this round that fail
    fRet      \* what the last Wait() of the master returned

vars == <<queue, nIdle, nTotal, fAllOk, nTodo, pc, vChecks, fOk, nAdded, bad, fRet>>
round == <<nAdded, bad>>

Threads == Workers \cup {Master}

(* "out": not in the queue (a worker that has not started or was           *)
(* interrupted, a master between two rounds); "adding": the master holds a *)
(* control and has not called Wait; "entering": Loop is called, first      *)
(* iteration; "waiting": blocked in cond.wait; "woken": notified, about to *)
(* take the mutex again; "work": executing a batch; "ran": the batch is    *)
(* executed, its clean-up is due; "dead": interrupted inside cond.wait.    *)
PCs == {"out", "adding", "entering", "waiting", "woken", "work", "ran", "dead"}

TypeOK ==
    /\ queue \in Seq(1..MaxChecks)
    /\ nIdle \in Nat
    /\ nTotal \in Nat
    /\ fAllOk \in BOOLEAN
    /\ nTodo \in Nat
    /\ pc \in [Threads -> PCs]
    /\ vChecks \in [Threads -> Seq(1..MaxChecks)]
    /\ fOk \in [Threads -> BOOLEAN]
    /\ nAdded \in 0..MaxChecks
    /\ bad \subseteq 1..MaxChecks
    /\ fRet \in BOOLEAN

Init ==
    /\ queue = <<>>
    /\ nIdle = 0
    /\ nTotal = 0
    /\ fAllOk = TRUE
    /\ nTodo = 0
    /\ pc = [t \in Threads |-> "out"]
    /\ vChecks = [t \in Threads |-> <<>>]
    /\ fOk = [t \in Threads |-> TRUE]
    /\ nAdded = 0
    /\ bad = {}
    /\ fRet = TRUE

-----------------------------------------------------------------------------
(* Condition variables.  p is the program counter function being changed.  *)

Waiting(p, S) == {t \in S : p[t] = "waiting"}

NotifyAll(p, S) == [t \in Threads |-> IF t \in Waiting(p, S) THEN "woken" ELSE p[t]]

\* The functions notify_one may lead to: one waiter is woken, if there is one.
NotifyOne(p, S) ==
    IF Waiting(p, S) = {} THEN {p}
    ELSE {[p EXCEPT ![t] = "woken"] : t \in Waiting(p, S)}

-----------------------------------------------------------------------------
(* The decision of how many checks to take.                                *)

BatchSize(size, total, idle) ==
    LET share == size \div (total + idle + 1)
        capped == IF share < nBatchSize THEN share ELSE nBatchSize
    IN  IF capped > 1 THEN capped ELSE 1

\* The last n elements of the queue in the order pop_back yields them, and
\* what remains.
PopBack(q, n) == [i \in 1..n |-> q[Len(q) + 1 - i]]

RestPopsOnce(q, n) == SubSeq(q, 1, Len(q) - 1)
Rest(q, n) == SubSeq(q, 1, Len(q) - n)

(* The critical section from `while (queue.empty())' on, for a thread t    *)
(* that enters it with the given values of the shared variables and of the *)
(* program counters: leave, wait or take a batch.                          *)

\* fQuit is never set, so only the master leaves.
MayLeaveEarly(t, todo) == t = Master
MayLeave(t, todo) == t = Master /\ todo = 0

Leave(t, idle, total, allOk, p) ==
    /\ nTotal' = total - 1
    /\ nIdle' = idle
    /\ fRet' = allOk
    /\ fAllOk' = TRUE
    /\ pc' = [p EXCEPT ![t] = "out"]
    /\ vChecks' = [vChecks EXCEPT ![t] = <<>>]
    /\ UNCHANGED <<queue, fOk>>

\* cond.wait(lock)
Sleep(t, idle, total, allOk, p) ==
    /\ nIdle' = idle + 1
    /\ nTotal' = total
    /\ fAllOk' = allOk
    /\ pc' = [p EXCEPT ![t] = "waiting"]
    /\ vChecks' = [vChecks EXCEPT ![t] = <<>>]
    /\ UNCHANGED <<queue, fOk, fRet>>

TakeBatch(t, idle, total, allOk, p) ==
    /\ LET nNow == BatchSize(Len(queue), total, idle)
       IN  /\ vChecks' = [vChecks EXCEPT ![t] = PopBack(queue, nNow)]
           /\ queue' = Rest(queue, nNow)
    /\ nIdle' = idle
    /\ nTotal' = total
    /\ fAllOk' = allOk
    /\ fOk' = [fOk EXCEPT ![t] = allOk]
    /\ pc' = [p EXCEPT ![t] = "work"]
    /\ UNCHANGED fRet

Serve(t, idle, total, allOk, todo, p) ==
    /\ nTodo' = todo
    /\ UNCHANGED round
    /\ \/ queue = <<>> /\ MayLeave(t, todo) /\ Leave(t, idle, total, allOk, p)
       \/ queue = <<>> /\ ~MayLeave(t, todo) /\ Sleep(t, idle, total, allOk, p)
       \/ queue # <<>> /\ TakeBatch(t, idle, total, allOk, p)

\* The first iteration of Loop, nNow = 0.
Enter(t) ==
    /\ pc[t] = "entering"
    /\ Serve(t, nIdle, nTotal + 1, fAllOk, nTodo, pc)

CleanUpOverwrites(t) ==
    /\ pc[t] = "ran"
    /\ LET todo == nTodo - Len(vChecks[t])
       IN  \E p \in IF todo = 0 /\ t # Master THEN NotifyOne(pc, {Master}) ELSE {pc} :
             Serve(t, nIdle, nTotal, fOk[t], todo, p)

CleanUpSilent(t) ==
    /\ pc[t] = "ran"
    /\ Serve(t, nIdle, nTotal, fAllOk /\ fOk[t], nTodo - Len(vChecks[t]), pc)

\* A later iteration: the clean-up of the previous batch comes first.
CleanUp(t) ==
    /\ pc[t] = "ran"
    /\ LET todo == nTodo - Len(vChecks[t])
       IN  \E p \in IF todo = 0 /\ t # Master THEN NotifyOne(pc, {Master}) ELSE {pc} :
             Serve(t, nIdle, nTotal, fAllOk /\ fOk[t], todo, p)

\* cond.wait returns with the mutex held.
Resume(t) ==
    /\ pc[t] = "woken"
    /\ Serve(t, nIdle - 1, nTotal, fAllOk, nTodo, pc)

\* condition variables may wake a thread nobody notified.
SpuriousWake(t) ==
    /\ pc[t] = "waiting"
    /\ pc' = [pc EXCEPT ![t] = "woken"]
    /\ UNCHANGED <<queue, nIdle, nTotal, fAllOk, nTodo, vChecks, fOk, round, fRet>>

\* The batch runs unlocked; after the first failure the rest is skipped.
Execute(t) ==
    /\ pc[t] = "work"
    /\ fOk' = [fOk EXCEPT ![t] = @ /\ \A i \in DOMAIN vChecks[t] : vChecks[t][i] \notin bad]
    /\ pc' = [pc EXCEPT ![t] = "ran"]
    /\ UNCHANGED <<queue, nIdle, nTotal, fAllOk, nTodo, vChecks, round, fRet>>

-----------------------------------------------------------------------------
\* A worker thread is started: Thread() calls Loop().
StartWorker(w) ==
    /\ pc[w] = "out"
    /\ pc' = [pc EXCEPT ![w] = "entering"]
    /\ UNCHANGED <<queue, nIdle, nTotal, fAllOk, nTodo, vChecks, fOk, round, fRet>>

\* threadGroup.interrupt_all(): cond.wait is the only interruption point of
\* Loop; the exception leaves nIdle and nTotal as they are.
Interrupt(w) ==
    /\ pc[w] \in {"waiting", "woken"}
    /\ pc' = [pc EXCEPT ![w] = "dead"]
    /\ UNCHANGED <<queue, nIdle, nTotal, fAllOk, nTodo, vChecks, fOk, round, fRet>>

IsIdle == nTotal = nIdle /\ nTodo = 0 /\ fAllOk

\* CCheckQueueControl(pqueue): asserts IsIdle (see IdleBetweenRounds).
NewControl ==
    /\ pc[Master] = "out"
    /\ pc' = [pc EXCEPT ![Master] = "adding"]
    /\ nAdded' = 0
    /\ bad' = {}
    /\ UNCHANGED <<queue, nIdle, nTotal, fAllOk, nTodo, vChecks, fOk, fRet>>

\* Add(vChecks) with n checks, those in B failing.
Add(n, B) ==
    /\ pc[Master] = "adding"
    /\ nAdded + n <= MaxChecks
    /\ queue' = queue \o [i \in 1..n |-> nAdded + i]
    /\ nTodo' = nTodo + n
    /\ nAdded' = nAdded + n
    /\ bad' = bad \cup B
    /\ \/ n = 1 /\ pc' \in NotifyOne(pc, Workers)
       \/ n > 1 /\ pc' = NotifyAll(pc, Workers)
    /\ UNCHANGED <<nIdle, nTotal, fAllOk, vChecks, fOk, fRet>>

\* Wait(), called by the owner or by the destructor on an early return.
Wait ==
    /\ pc[Master] = "adding"
    /\ pc' = [pc EXCEPT ![Master] = "entering"]
    /\ UNCHANGED <<queue, nIdle, nTotal, fAllOk, nTodo, vChecks, fOk, round, fRet>>

Loop(t) == Enter(t) \/ CleanUp(t) \/ Resume(t) \/ Execute(t)

Next ==
    \/ \E t \in Threads : Loop(t) \/ SpuriousWake(t)
    \/ \E w \in Workers : StartWorker(w) \/ Interrupt(w)
    \/ NewControl
    \/ \E n \in 1..MaxChecks : \E B \in SUBSET ((nAdded + 1)..(nAdded + n)) : Add(n, B)
    \/ Wait

Spec == Init /\ [][Next]_vars

(* Every thread inside Loop keeps running; the mutex is released by every  *)
(* holder, so a thread that wants it gets it.  Nobody has to add work, to  *)
(* be started, to be interrupted or to be woken spuriously.                *)
FairSpec == Spec /\ \A t \in Threads : WF_vars(Loop(t))

-----------------------------------------------------------------------------
(* Properties.                                                             *)

InFlight(t) == {vChecks[t][i] : i \in DOMAIN vChecks[t]}
Queued == {queue[i] : i \in DOMAIN queue}

(* Whenever the master is between two rounds the queue is idle, which is   *)
(* the assertion in CCheckQueueControl's constructor, and no thread holds  *)
(* or executes a check of the round: the transactions the checks point to  *)
(* may be destroyed.                                                       *)
IdleBetweenRounds ==
    pc[Master] = "out" => IsIdle /\ queue = <<>> /\ \A t \in Threads : vChecks[t] = <<>>

(* Wait() returns true exactly when every check added in the round passes, *)
(* however the checks were split into batches and whoever ran them.        *)
ResultIsConjunction == pc[Master] = "out" => (fRet <=> bad = {})

(* A check is in one place only: no check is run twice or by two threads.  *)
EachCheckHeldOnce ==
    /\ \A i, j \in DOMAIN queue : i # j => queue[i] # queue[j]
    /\ \A t \in Threads : InFlight(t) \cap Queued = {}
    /\ \A t, u \in Threads : t # u => InFlight(t) \cap InFlight(u) = {}

(* A master that called Wait() gets its answer.                            *)
WaitReturns == pc[Master] = "entering" ~> pc[Master] = "out"
=============================================================================
