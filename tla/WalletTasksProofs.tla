------------------------- MODULE WalletTasksProofs -------------------------
(* Proofs about WalletTasks, for any number of workers and operations and  *)
(* any intervals: no operation is run twice, forgotten or hidden.          *)
EXTENDS WalletTasks, TLAPS

-----------------------------------------------------------------------------
(* The inductive invariant.                                                *)

Distinct(q) == \A i, j \in DOMAIN q : q[i] = q[j] => i = j

\* Where an operation is: not created, queued once, or in the hands of one
\* worker; whoever has yet to start it finds that it was never started.
Places ==
    /\ Distinct(operation_id_queue_)
    /\ \A o \in Queued : state_[o] # "none" /\ runs[o] = 0 /\ ~Held(o)
    /\ \A w \in Workers : operation[w] = NoOp <=> wpc[w] \in {"run", "wait", "exit"}
    /\ \A w \in Workers : operation[w] # NoOp => state_[operation[w]] # "none"
    /\ \A v, w \in Workers : v # w /\ operation[v] # NoOp => operation[v] # operation[w]
    /\ \A w \in Workers : wpc[w] \in {"check", "main", "start"} => runs[operation[w]] = 0
    /\ \A w \in Workers : wpc[w] = "unlock" => state_[operation[w]] \in Finished
    /\ \A o \in Ops : runs[o] <= 1 /\ (state_[o] = "none" => runs[o] = 0)
    /\ operation_map_ \subseteq Created

\* What the records of the wallet and of cancelAllOperations refer to.
Records ==
    /\ spc \in {"close", "cancel"} => closed_
    /\ sawReady # NoOp => spc = "cancel" /\ state_[sawReady] # "none"
    /\ \A o \in locked : kind[o] = "merge" /\ state_[o] # "none"
    /\ \A t \in Tasks : lastOperation[t] # NoOp =>
           kind[lastOperation[t]] = t /\ state_[lastOperation[t]] # "none"

User(o) == kind[o] \in {"send", "merge"}

\* Until the queue is closed nobody cancels what a user asked for.
UserOps ==
    ~closed_ =>
        /\ \A o \in Queued : User(o) => state_[o] = READY /\ o \in operation_map_
        /\ \A w \in Workers :
               wpc[w] \in {"check", "main", "start"} /\ User(operation[w]) =>
                   state_[operation[w]] = READY /\ operation[w] \in operation_map_
        /\ \A o \in Ops : User(o) /\ state_[o] = EXECUTING => o \in operation_map_

\* Only the last consolidation or sweep can be waiting, and not when the next
\* one is about to be queued.
LastTask ==
    /\ \A o \in operation_map_ : kind[o] \in Tasks /\ state_[o] = READY => o = lastOperation[kind[o]]
    /\ \A t \in Tasks : tpc = <<t, "add">> =>
           ~(lastOperation[t] \in operation_map_ /\ state_[lastOperation[t]] = READY)

Inv == TypeOK /\ Places /\ Records /\ UserOps /\ NothingForgotten /\ LastTask

-----------------------------------------------------------------------------
(* The queue of ids.                                                       *)

\* pop() takes the front out of a queue without repetitions.
LEMMA TailFacts ==
    ASSUME NEW q \in Seq(Ops), q # <<>>, Distinct(q)
    PROVE  /\ Head(q) \in Ops /\ Head(q) \in Range(q)
           /\ Tail(q) \in Seq(Ops) /\ Distinct(Tail(q))
           /\ Range(Tail(q)) = Range(q) \ {Head(q)}
<1>1. /\ Len(q) \in Nat /\ Len(q) > 0 /\ DOMAIN q = 1..Len(q)
      /\ Head(q) = q[1] /\ Tail(q) \in Seq(Ops)
      /\ Len(Tail(q)) = Len(q) - 1 /\ \A i \in 1..Len(Tail(q)) : Tail(q)[i] = q[i + 1]
  OBVIOUS
<1>2. DOMAIN Tail(q) = 1..(Len(q) - 1)
  BY <1>1
<1>3. Distinct(Tail(q))
  BY <1>1, <1>2 DEF Distinct
<1>4. Range(Tail(q)) \subseteq Range(q) \ {Head(q)}
  BY <1>1, <1>2 DEF Range, Distinct
<1>5. Range(q) \ {Head(q)} \subseteq Range(Tail(q))
  <2> SUFFICES ASSUME NEW i \in DOMAIN q, q[i] # Head(q) PROVE q[i] \in Range(Tail(q))
    BY Zenon DEF Range
  <2>1. i - 1 \in DOMAIN Tail(q) /\ Tail(q)[i - 1] = q[i]
    BY <1>1, <1>2
  <2> QED BY Zenon, <2>1 DEF Range
<1>6. Head(q) \in Ops /\ Head(q) \in Range(q)
  BY <1>1 DEF Range
<1> QED BY Zenon, <1>1, <1>3, <1>4, <1>5, <1>6

\* push() of an id that is not there.
LEMMA AppendFacts ==
    ASSUME NEW q \in Seq(Ops), NEW o \in Ops, Distinct(q), o \notin Range(q)
    PROVE  /\ Append(q, o) \in Seq(Ops) /\ Distinct(Append(q, o))
           /\ Range(Append(q, o)) = Range(q) \cup {o}
<1>1. /\ Len(q) \in Nat /\ DOMAIN q = 1..Len(q) /\ Append(q, o) \in Seq(Ops)
      /\ DOMAIN Append(q, o) = 1..(Len(q) + 1)
      /\ Append(q, o)[Len(q) + 1] = o /\ \A i \in 1..Len(q) : Append(q, o)[i] = q[i]
  OBVIOUS
<1>2. \A i \in 1..(Len(q) + 1) : i \in 1..Len(q) \/ i = Len(q) + 1
  BY <1>1
<1>3. Distinct(Append(q, o))
  BY Zenon, <1>1, <1>2 DEF Distinct, Range
<1>4. Range(Append(q, o)) \subseteq Range(q) \cup {o}
  BY Zenon, <1>1, <1>2 DEF Range
<1>5. Range(q) \cup {o} \subseteq Range(Append(q, o))
  BY <1>1 DEF Range
<1> QED BY Zenon, <1>1, <1>3, <1>4, <1>5

\* The ids in the queue are ids.
LEMMA QueuedOps == TypeOK => Queued \subseteq Ops
BY DEF TypeOK, QueueTypeOK, Queued, Range

\* An empty queue.
LEMMA EmptyFacts == Distinct(<<>>) /\ Range(<<>>) = {} /\ <<>> \in Seq(Ops)
BY DEF Distinct, Range

-----------------------------------------------------------------------------
(* The worker.                                                             *)

\* Steps that leave the queue, the operations and the records alone.
LEMMA FrameStep ==
    ASSUME Inv, UNCHANGED <<queueVars, state_, operation, stopVars, kind, locked, runs, lastOperation>>,
           \A w \in Workers : wpc'[w] = wpc[w] \/ {wpc[w], wpc'[w]} \subseteq {"run", "wait", "exit"}
    PROVE  Places' /\ Records' /\ UserOps' /\ NothingForgotten'
<1>1. Queued' = Queued /\ Created' = Created /\ \A o \in Ops : (Held(o))' = Held(o) /\ (User(o))' = User(o)
  BY Zenon DEF queueVars, Queued, Created, Held, User
<1>2. Places'
  BY Zenon, <1>1 DEF Inv, Places, queueVars, stopVars, TypeOK, QueueTypeOK, NoOp, Queued, Held, Created
<1>3. Records'
  BY Zenon DEF Inv, Records, queueVars, stopVars
<1>4. UserOps'
  BY Zenon DEF Inv, UserOps, queueVars, stopVars, User, Queued
<1>5. NothingForgotten'
  BY Zenon DEF Inv, NothingForgotten, queueVars, stopVars, Queued, Held
<1> QED BY Zenon, <1>2, <1>3, <1>4, <1>5

\* run() pops the front of the queue.
LEMMA WorkerTakesStep ==
    ASSUME Inv, NEW w \in Workers, WorkerTakes(w), UNCHANGED walletVars
    PROVE  Inv'
<1> DEFINE key == Head(operation_id_queue_)
<1> DEFINE got == key \in operation_map_
<1> USE DEF walletVars, opVars, tipVars, sweepVars, stopVars
<1>1. /\ key \in Ops /\ key \in Queued /\ Queued' = Queued \ {key}
      /\ operation_id_queue_' \in Seq(Ops) /\ Distinct(operation_id_queue_')
  BY Zenon, TailFacts DEF WorkerTakes, Inv, TypeOK, QueueTypeOK, Places, Queued
<1>2. /\ operation' = [operation EXCEPT ![w] = IF got THEN key ELSE NoOp]
      /\ wpc' = [wpc EXCEPT ![w] = IF got THEN "check" ELSE "run"]
      /\ wpc[w] = "run" /\ ~closed_
      /\ UNCHANGED <<closed_, finish_, operation_map_, state_, stopVars>>
  BY Zenon DEF WorkerTakes
<1>3. operation[w] = NoOp
  BY Zenon, <1>2 DEF Inv, Places
<1>4. TypeOK'
  BY Zenon, <1>1, <1>2 DEF Inv, TypeOK, QueueTypeOK, WorkerPCs, NoOp
<1>5. /\ operation'[w] = (IF got THEN key ELSE NoOp) /\ wpc'[w] = (IF got THEN "check" ELSE "run")
      /\ \A v \in Workers : v # w => operation'[v] = operation[v] /\ wpc'[v] = wpc[v]
  BY Zenon, <1>2 DEF Inv, TypeOK, QueueTypeOK
<1>6. Places'
  <2>1. \A o \in Ops : (Held(o))' <=> Held(o) \/ (got /\ o = key)
    BY <1>1, <1>3, <1>5 DEF Held, NoOp, Ops
  <2>2. \A o \in Queued' : state_'[o] # "none" /\ runs'[o] = 0 /\ ~(Held(o))'
    BY Zenon, <1>1, <1>2, <2>1, QueuedOps DEF Inv, Places
  <2>3. key # NoOp /\ ~Held(key) /\ state_[key] # "none" /\ runs[key] = 0
    BY <1>1 DEF Inv, Places, NoOp, Ops
  <2>4. \A v \in Workers : operation[v] # key
    BY Zenon, <2>3 DEF Held
  <2>5. /\ \A v \in Workers : operation'[v] = NoOp <=> wpc'[v] \in {"run", "wait", "exit"}
        /\ \A v \in Workers : operation'[v] # NoOp => state_'[operation'[v]] # "none"
        /\ \A v \in Workers : wpc'[v] \in {"check", "main", "start"} => runs'[operation'[v]] = 0
        /\ \A v \in Workers : wpc'[v] = "unlock" => state_'[operation'[v]] \in Finished
    BY SMTT(30), <1>2, <1>5, <2>3 DEF Inv, Places
  <2>6. \A u, v \in Workers : u # v /\ operation'[u] # NoOp => operation'[u] # operation'[v]
    BY SMTT(30), <1>3, <1>5, <2>3, <2>4 DEF Inv, Places
  <2> QED BY Zenon, <1>1, <1>2, <2>2, <2>5, <2>6 DEF Inv, Places, Created
<1>7. Records'
  BY Zenon, <1>2 DEF Inv, Records
<1>8. UserOps'
  BY <1>1, <1>2, <1>3, <1>5 DEF Inv, UserOps, User
<1>9. NothingForgotten'
  <2>1. \A o \in Ops : (Held(o))' <=> Held(o) \/ (got /\ o = key)
    BY <1>1, <1>3, <1>5 DEF Held, NoOp, Ops
  <2>2. \A o \in locked : User(o)
    BY Zenon DEF Inv, Records, User
  <2>3. operation_map_ \subseteq Ops /\ locked \subseteq Ops
    BY Zenon DEF Inv, TypeOK, QueueTypeOK
  <2>4. key \in locked => got
    BY Zenon, <1>1, <1>2, <2>2 DEF Inv, UserOps
  <2> QED BY Zenon, <1>1, <1>2, <2>1, <2>3, <2>4 DEF Inv, NothingForgotten
<1>10. LastTask'
  BY Zenon, <1>2 DEF Inv, LastTask
<1> QED BY Zenon, <1>4, <1>6, <1>7, <1>8, <1>9, <1>10 DEF Inv
\* run() finds the queue empty, or closed, and waits or returns.
LEMMA WorkerWaitExitStep ==
    ASSUME Inv, NEW w \in Workers, WorkerWait(w) \/ WorkerExit(w), UNCHANGED walletVars
    PROVE  Inv'
<1> USE DEF walletVars, opVars, tipVars, sweepVars, stopVars, queueVars
<1>1. /\ UNCHANGED <<closed_, finish_, operation_map_, state_, operation, stopVars>>
      /\ wpc[w] = "run" /\ wpc'[w] \in {"wait", "exit"} /\ wpc' \in [Workers -> WorkerPCs]
      /\ \A v \in Workers : v # w => wpc'[v] = wpc[v]
      /\ operation_id_queue_' = operation_id_queue_ \/ (operation_id_queue_' = <<>> /\ closed_)
  BY Zenon DEF WorkerWait, WorkerExit, Inv, TypeOK, QueueTypeOK, WorkerPCs
<1>2. TypeOK' /\ LastTask'
  BY Zenon, <1>1, EmptyFacts DEF Inv, TypeOK, QueueTypeOK, LastTask
<1>3. CASE operation_id_queue_' = operation_id_queue_
  <2>1. \A v \in Workers : wpc'[v] = wpc[v] \/ {wpc[v], wpc'[v]} \subseteq {"run", "wait", "exit"}
    BY Zenon, <1>1
  <2> QED BY Zenon, <1>1, <1>2, <1>3, <2>1, FrameStep DEF Inv
<1>4. CASE operation_id_queue_' = <<>> /\ closed_
  <2>1. Queued' = {} /\ Distinct(operation_id_queue_')
    BY Zenon, <1>4, EmptyFacts DEF Queued
  <2>2. Places'
    BY Zenon, <1>1, <2>1 DEF Inv, Places, Held, Created
  <2>3. Records'
    BY Zenon, <1>1 DEF Inv, Records
  <2> QED BY Zenon, <1>1, <1>2, <1>4, <2>2, <2>3 DEF Inv, UserOps, NothingForgotten
<1> QED BY Zenon, <1>1, <1>3, <1>4

\* A worker lets go of an operation that is over.
LEMMA DropStep ==
    ASSUME Inv, NEW w \in Workers, wpc[w] \in {"check", "unlock"}, state_[operation[w]] \in Finished,
           wpc' = [wpc EXCEPT ![w] = "run"], operation' = [operation EXCEPT ![w] = NoOp],
           UNCHANGED <<queueVars, state_, stopVars, kind, runs, lastOperation>>,
           locked' = locked \ {operation[w]} \/ (locked' = locked /\ wpc[w] = "check")
    PROVE  Places' /\ Records' /\ UserOps' /\ NothingForgotten'
<1> USE DEF stopVars, queueVars
<1>a. operation[w] # NoOp
  BY Zenon DEF Inv, Places
<1>1. /\ operation'[w] = NoOp /\ wpc'[w] = "run" /\ operation[w] \in Ops
      /\ \A v \in Workers : v # w => operation'[v] = operation[v] /\ wpc'[v] = wpc[v]
  BY Zenon, <1>a DEF Inv, TypeOK, QueueTypeOK
<1>2. Queued' = Queued /\ Created' = Created
  BY Zenon DEF Queued, Created
<1>3. \A o \in Ops : (Held(o))' <=> Held(o) /\ o # operation[w]
  BY SMTT(30), <1>1 DEF Held, Inv, Places, NoOp, Ops
<1>4. Places'
  <2>1. \A o \in Queued' : state_'[o] # "none" /\ runs'[o] = 0 /\ ~(Held(o))'
    BY Zenon, <1>2, <1>3, QueuedOps DEF Inv, Places
  <2>2. \A u, v \in Workers : u # v /\ operation'[u] # NoOp => operation'[u] # operation'[v]
    BY <1>1 DEF Inv, Places
  <2> QED BY <1>1, <1>2, <2>1, <2>2 DEF Inv, Places
<1>5. Records'
  BY Zenon DEF Inv, Records
<1>6. UserOps'
  BY <1>1, <1>2 DEF Inv, UserOps, User
<1>7. NothingForgotten'
  <2>1. operation_map_ \subseteq Ops /\ locked \subseteq Ops
    BY Zenon DEF Inv, TypeOK, QueueTypeOK
  <2>2. state_[operation[w]] \notin {READY, EXECUTING}
    BY Zenon DEF Finished, READY, EXECUTING, CANCELLED, FAILED, SUCCESS
  <2>3. wpc[w] = "check" /\ ~closed_ => operation[w] \notin locked
    BY Zenon, <2>2 DEF Inv, UserOps, Records, User
  <2> QED BY Zenon, <1>2, <1>3, <2>1, <2>2, <2>3 DEF Inv, NothingForgotten
<1> QED BY Zenon, <1>4, <1>5, <1>6, <1>7
\* A worker goes on with its operation.
LEMMA AdvanceStep ==
    ASSUME Inv, NEW w \in Workers, \A v \in Workers : v # w => wpc'[v] = wpc[v],
           \/ wpc[w] \in {"check", "main"} /\ wpc'[w] \in {"main", "start"}
           \/ wpc[w] = "main" /\ wpc'[w] = "unlock" /\ state_[operation[w]] \in Finished
           \/ wpc[w] = "body" /\ wpc'[w] = "end",
           UNCHANGED <<queueVars, state_, operation, stopVars, kind, locked, runs, lastOperation>>
    PROVE  Places' /\ Records' /\ UserOps' /\ NothingForgotten'
<1> USE DEF stopVars, queueVars
<1>1. Queued' = Queued /\ Created' = Created /\ \A o : (Held(o))' = Held(o) /\ (User(o))' = User(o)
  BY Zenon DEF Queued, Created, Held, User
<1>2. Places'
  BY Zenon, <1>1 DEF Inv, Places
<1>3. Records'
  BY Zenon DEF Inv, Records
<1>4. UserOps'
  BY Zenon, <1>1 DEF Inv, UserOps
<1>5. NothingForgotten'
  BY Zenon, <1>1 DEF Inv, NothingForgotten
<1> QED BY Zenon, <1>2, <1>3, <1>4, <1>5

\* run() tests isCancelled.
LEMMA WorkerChecksStep ==
    ASSUME Inv, NEW w \in Workers, WorkerChecks(w), UNCHANGED walletVars
    PROVE  Inv'
<1> USE DEF walletVars, opVars, tipVars, sweepVars
<1>1. TypeOK' /\ LastTask'
  BY Zenon DEF WorkerChecks, stopVars, queueVars, Inv, TypeOK, QueueTypeOK, WorkerPCs, NoOp, LastTask
<1>2. CASE state_[operation[w]] = CANCELLED
  BY Zenon, <1>1, <1>2, DropStep DEF WorkerChecks, Finished, Inv
<1>3. CASE state_[operation[w]] # CANCELLED
  <2>1. /\ wpc[w] = "check" /\ wpc'[w] = "main" /\ \A v \in Workers : v # w => wpc'[v] = wpc[v]
        /\ UNCHANGED <<queueVars, state_, operation, stopVars>>
    BY Zenon, <1>3 DEF WorkerChecks, Inv, TypeOK, QueueTypeOK
  <2> QED BY Zenon, <1>1, <2>1, AdvanceStep DEF Inv
<1> QED BY Zenon, <1>2, <1>3

\* main() tests isCancelled.
LEMMA MainTestsStep ==
    ASSUME Inv, NEW w \in Workers, MainTests(w), UNCHANGED walletVars
    PROVE  Inv'
<1> USE DEF walletVars, opVars, tipVars, sweepVars
<1>1. TypeOK' /\ LastTask'
  BY Zenon DEF MainTests, stopVars, queueVars, Inv, TypeOK, QueueTypeOK, WorkerPCs, LastTask
<1>2. /\ wpc[w] = "main" /\ \A v \in Workers : v # w => wpc'[v] = wpc[v]
      /\ wpc'[w] = "start" \/ (wpc'[w] = "unlock" /\ state_[operation[w]] \in Finished)
      /\ UNCHANGED <<queueVars, state_, operation, stopVars>>
  BY Zenon DEF MainTests, Inv, TypeOK, QueueTypeOK, Finished
<1> QED BY Zenon, <1>1, <1>2, AdvanceStep DEF Inv

\* main() gets past its test: the only place where runs grows.
LEMMA StartStep ==
    ASSUME Inv, NEW w \in Workers, Start(w)
    PROVE  Inv'
<1> DEFINE p == operation[w]
<1>a. wpc[w] = "start" /\ p # NoOp /\ p \in Ops
  <2>1. wpc[w] = "start"
    BY Zenon DEF Start, MainStarts
  <2>2. p # NoOp
    BY Zenon, <2>1 DEF Inv, Places
  <2> QED BY Zenon, <2>1, <2>2 DEF Inv, TypeOK, QueueTypeOK
<1>1. /\ wpc[w] = "start" /\ p \in Ops /\ p # NoOp /\ runs[p] = 0 /\ state_[p] # "none" /\ p \notin Queued
      /\ \A v \in Workers : v # w => operation[v] # p
  <2>1. Held(p)
    BY Zenon DEF Held
  <2> QED BY Zenon, <1>a, <2>1 DEF Inv, Places
<1>2. /\ state_'[p] = EXECUTING /\ runs'[p] = 1 /\ wpc'[w] = "body"
      /\ \A v \in Workers : v # w => wpc'[v] = wpc[v]
      /\ \A o \in Ops : o # p => state_'[o] = state_[o] /\ runs'[o] = runs[o]
      /\ UNCHANGED <<closed_, finish_, operation_id_queue_, operation_map_, operation, spc, toCancel,
                     sawReady, kind, sent, locked, success, notified, reorgs, tpc, lastOperation,
                     nextSweep, fSweepRunning>>
  BY SMTT(30), <1>1 DEF Start, MainStarts, Inv, TypeOK, QueueTypeOK, queueVars, stopVars, tipVars, sweepVars
<1>3. TypeOK'
  BY SMTT(30), <1>1, <1>2 DEF Start, MainStarts, Inv, TypeOK, QueueTypeOK, WorkerPCs, OperationStatus
<1>4. Queued' = Queued /\ Queued \subseteq Ops /\ \A o \in Ops : (Held(o))' <=> Held(o)
  BY Zenon, <1>2, QueuedOps DEF Queued, Held, Inv
<1>5. EXECUTING \notin Finished /\ EXECUTING # "none" /\ EXECUTING # READY
  BY Zenon DEF EXECUTING, READY, Finished, CANCELLED, FAILED, SUCCESS
<1>6. Places'
  <2>1. \A v \in Workers : operation[v] \in Ops \cup {NoOp}
    BY Zenon DEF Inv, TypeOK, QueueTypeOK
  <2>2. Created' = Created
    BY Zenon, <1>1, <1>2, <1>5 DEF Created
  <2>3. \A v \in Workers : v # w /\ operation[v] # NoOp =>
            operation[v] \in Ops /\ operation[v] # p
            /\ state_'[operation[v]] = state_[operation[v]] /\ runs'[operation[v]] = runs[operation[v]]
    BY Zenon, <1>1, <1>2, <2>1
  <2>4. \A v \in Workers : operation'[v] = operation[v]
    BY Zenon, <1>2
  <2>5. \A v \in Workers : operation'[v] # NoOp => state_'[operation'[v]] # "none"
    BY SMTT(30), <1>2, <1>5, <2>3, <2>4 DEF Inv, Places
  <2>6. \A v \in Workers : wpc'[v] \in {"check", "main", "start"} => runs'[operation'[v]] = 0
    <3>1. \A v \in Workers : wpc'[v] \in {"check", "main", "start"} => v # w /\ operation[v] # NoOp /\ runs[operation[v]] = 0
      BY Zenon, <1>2 DEF Inv, Places
    <3> QED BY Zenon, <2>3, <2>4, <3>1
  <2>7. \A v \in Workers : wpc'[v] = "unlock" => state_'[operation'[v]] \in Finished
    <3>1. \A v \in Workers : wpc'[v] = "unlock" => v # w /\ operation[v] # NoOp /\ state_[operation[v]] \in Finished
      BY Zenon, <1>2 DEF Inv, Places
    <3> QED BY Zenon, <2>3, <2>4, <3>1
  <2>8. \A o \in Queued' : state_'[o] # "none" /\ runs'[o] = 0 /\ ~(Held(o))'
    <3>1. \A o \in Queued : o \in Ops /\ o # p /\ state_[o] # "none" /\ runs[o] = 0 /\ ~Held(o)
      BY Zenon, <1>1, <1>4 DEF Inv, Places
    <3> QED BY Zenon, <1>2, <1>4, <3>1
  <2>9. \A o \in Ops : runs'[o] <= 1 /\ (state_'[o] = "none" => runs'[o] = 0)
    BY SMTT(30), <1>2, <1>5 DEF Inv, Places
  <2>10. \A v \in Workers : operation'[v] = NoOp <=> wpc'[v] \in {"run", "wait", "exit"}
    BY Zenon, <1>1, <1>2, <2>4 DEF Inv, Places
  <2>11. \A u, v \in Workers : u # v /\ operation'[u] # NoOp => operation'[u] # operation'[v]
    BY SMTT(30), <2>4 DEF Inv, Places
  <2>12. Distinct(operation_id_queue_') /\ operation_map_' \subseteq Created'
    BY Zenon, <1>2, <2>2 DEF Inv, Places
  <2> QED BY Zenon, <2>5, <2>6, <2>7, <2>8, <2>9, <2>10, <2>11, <2>12 DEF Places
<1>7. Records'
  <2>1. \A o \in Ops : state_[o] # "none" => state_'[o] # "none"
    BY Zenon, <1>1, <1>2, <1>5
  <2>2. sawReady' # NoOp => spc' = "cancel" /\ state_'[sawReady'] # "none"
    BY Zenon, <1>2, <2>1 DEF Inv, Records, TypeOK, QueueTypeOK
  <2> QED BY Zenon, <1>2, <2>1, <2>2 DEF Inv, Records, TypeOK, NoOp
<1>8. UserOps'
  <2>1. closed_' = closed_ /\ operation_map_' = operation_map_ /\ operation' = operation /\ kind' = kind
    BY Zenon, <1>2
  <2>2. \A o \in Ops \cup {NoOp} : (User(o))' <=> User(o)
    BY Zenon, <2>1 DEF User
  <2>3. \A v \in Workers : operation[v] \in Ops \cup {NoOp}
    BY Zenon DEF Inv, TypeOK, QueueTypeOK
  <2>4. ASSUME ~closed_, NEW o \in Queued', (User(o))' PROVE state_'[o] = READY /\ o \in operation_map_'
    BY Zenon, <1>1, <1>2, <1>4, <2>1, <2>2, <2>4 DEF Inv, UserOps
  <2>5. ASSUME ~closed_, NEW v \in Workers, wpc'[v] \in {"check", "main", "start"}, (User(operation[v]))'
        PROVE  state_'[operation'[v]] = READY /\ operation'[v] \in operation_map_'
    <3>1. v # w /\ wpc[v] \in {"check", "main", "start"} /\ User(operation[v])
      BY Zenon, <1>2, <2>1, <2>2, <2>3, <2>5 DEF User
    <3>2. operation[v] \in Ops /\ operation[v] # p
      BY Zenon, <1>1, <2>3, <3>1 DEF Inv, Places
    <3> QED BY Zenon, <1>2, <2>1, <2>5, <3>1, <3>2 DEF Inv, UserOps
  <2>6. ASSUME ~closed_, NEW o \in Ops, (User(o))', state_'[o] = EXECUTING PROVE o \in operation_map_'
    BY Zenon, <1>1, <1>2, <2>1, <2>2, <2>6 DEF Inv, UserOps
  <2> QED BY Zenon, <2>1, <2>4, <2>5, <2>6 DEF UserOps
<1>9. NothingForgotten'
  <2>1. Held(p)
    BY Zenon DEF Held
  <2> QED BY Zenon, <1>2, <1>4, <2>1 DEF Inv, NothingForgotten, TypeOK, QueueTypeOK
<1>10. LastTask'
  <2>1. \A o \in Ops : state_'[o] = READY => state_[o] = READY
    BY Zenon, <1>2, <1>5
  <2>2. operation_map_ \subseteq Ops
    BY Zenon DEF Inv, TypeOK, QueueTypeOK
  <2> QED BY Zenon, <1>2, <2>1, <2>2 DEF Inv, LastTask
<1> QED BY Zenon, <1>3, <1>6, <1>7, <1>8, <1>9, <1>10 DEF Inv

-----------------------------------------------------------------------------
(* An operation runs and ends, and a new one is created.                   *)

\* main_impl ends, or commits a transaction on the way.
LEMMA BodyStep ==
    ASSUME Inv, NEW w \in Workers,
           Commits(w) \/ UserEnds(w) \/ ConsolidationEnds(w) \/ SweepCompletes(w) \/ SweepPauses(w)
    PROVE  Inv'
<1> USE DEF tipVars, sweepVars
<1>1. CASE Commits(w)
  <2>1. operation[w] \in Ops
    <3>1. operation[w] # NoOp
      BY Zenon, <1>1 DEF Commits, Inv, Places
    <3> QED BY Zenon, <3>1 DEF Inv, TypeOK, QueueTypeOK
  <2>2. sent' \in [Ops -> 0..MaxTxs]
    BY <1>1, <2>1, WalletTasksAssumption DEF Commits, Inv, TypeOK
  <2>3. TypeOK' /\ LastTask'
    BY Zenon, <1>1, <2>2 DEF Commits, stopVars, queueVars, Inv, TypeOK, QueueTypeOK, LastTask
  <2>4. UNCHANGED <<queueVars, state_, operation, stopVars, kind, locked, runs, lastOperation, wpc>>
    BY Zenon, <1>1 DEF Commits
  <2> QED BY Zenon, <2>3, <2>4, FrameStep DEF Inv
<1>2. CASE UserEnds(w) \/ ConsolidationEnds(w) \/ SweepCompletes(w) \/ SweepPauses(w)
  <2>1. \E ok \in BOOLEAN : ImplEnds(w, ok)
    BY Zenon, <1>2 DEF UserEnds, ConsolidationEnds, SweepCompletes, SweepPauses
  <2>2. PICK ok \in BOOLEAN : ImplEnds(w, ok)
    BY Zenon, <2>1
  <2>3. nextSweep' \in Nat /\ fSweepRunning' \in BOOLEAN
    <3>1. CASE SweepCompletes(w)
      <4>1. PICK ahead \in 0..MaxLag : nextSweep' = sweepInterval + notified + ahead
        BY Zenon, <3>1 DEF SweepCompletes
      <4>2. sweepInterval \in Nat /\ notified \in Nat /\ ahead \in Nat
        BY WalletTasksAssumption DEF Inv, TypeOK
      <4>3. sweepInterval + notified + ahead \in Nat
        BY <4>2
      <4>4. fSweepRunning' = FALSE
        BY Zenon, <3>1 DEF SweepCompletes
      <4> QED BY Zenon, <4>1, <4>3, <4>4
    <3>2. CASE UserEnds(w) \/ ConsolidationEnds(w) \/ SweepPauses(w)
      BY Zenon, <3>2 DEF UserEnds, ConsolidationEnds, SweepPauses, Inv, TypeOK
    <3> QED BY Zenon, <1>2, <3>1, <3>2
  <2>4. TypeOK' /\ LastTask'
    BY Zenon, <2>2, <2>3 DEF ImplEnds, stopVars, queueVars, Inv, TypeOK, QueueTypeOK, WorkerPCs, LastTask
  <2>5. /\ wpc[w] = "body" /\ wpc'[w] = "end" /\ \A v \in Workers : v # w => wpc'[v] = wpc[v]
        /\ UNCHANGED <<queueVars, state_, operation, stopVars, kind, locked, runs, lastOperation>>
    BY Zenon, <2>2 DEF ImplEnds, Inv, TypeOK, QueueTypeOK
  <2> QED BY Zenon, <2>4, <2>5, AdvanceStep DEF Inv
<1> QED BY Zenon, <1>1, <1>2

\* An operation that is over is given its last state, by its worker or by
\* cancel(), which for what a user asked for happens only in close().
LEMMA StoreStep ==
    ASSUME Inv, NEW p \in Ops, NEW s \in Finished, state_' = [state_ EXCEPT ![p] = s],
           closed_ \/ ~User(p) \/ (p \notin Queued /\ \A w \in Workers :
               wpc[w] \in {"check", "main", "start"} => operation[w] # p),
           state_[p] # "none",
           \A w \in Workers : wpc'[w] = wpc[w] \/ (wpc[w] = "end" /\ wpc'[w] = "unlock" /\ operation[w] = p),
           UNCHANGED <<queueVars, operation, kind, locked, runs>>
    PROVE  /\ state_' \in [Ops -> OperationStatus]
           /\ state_'[p] = s /\ \A o \in Ops : o # p => state_'[o] = state_[o]
           /\ s \notin {"none", READY, EXECUTING}
           /\ Places' /\ UserOps' /\ NothingForgotten'
<1> USE DEF queueVars
<1>1. /\ s \notin {"none", READY, EXECUTING} /\ s \in OperationStatus
  BY Zenon DEF Finished, READY, EXECUTING, CANCELLED, FAILED, SUCCESS, OperationStatus
<1>2. /\ state_' \in [Ops -> OperationStatus] /\ state_'[p] = s
      /\ \A o \in Ops : o # p => state_'[o] = state_[o]
  BY Zenon, <1>1 DEF Inv, TypeOK, QueueTypeOK
<1>3. Queued' = Queued /\ Created' = Created /\ \A o \in Ops : (Held(o))' <=> Held(o)
  BY Zenon, <1>1, <1>2 DEF Queued, Created, Held
<1>4. Queued \subseteq Ops /\ \A w \in Workers : operation[w] \in Ops \cup {NoOp}
  BY Zenon, QueuedOps DEF Inv, TypeOK, QueueTypeOK
<1>5. Places'
  <2>1. \A o \in Queued' : state_'[o] # "none" /\ runs'[o] = 0 /\ ~(Held(o))'
    BY Zenon, <1>1, <1>2, <1>3, <1>4 DEF Inv, Places
  <2>2. /\ \A v \in Workers : operation'[v] = NoOp <=> wpc'[v] \in {"run", "wait", "exit"}
        /\ \A v \in Workers : wpc'[v] \in {"check", "main", "start"} => runs'[operation'[v]] = 0
    BY Zenon DEF Inv, Places
  <2>3. /\ \A v \in Workers : operation'[v] # NoOp => state_'[operation'[v]] # "none"
        /\ \A o \in Ops : runs'[o] <= 1 /\ (state_'[o] = "none" => runs'[o] = 0)
    BY Zenon, <1>1, <1>2, <1>4 DEF Inv, Places
  <2>4. \A v \in Workers : wpc'[v] = "unlock" => state_'[operation'[v]] \in Finished
    BY Zenon, <1>2, <1>4, <2>2 DEF Inv, Places
  <2> QED BY Zenon, <1>3, <2>1, <2>2, <2>3, <2>4 DEF Inv, Places
<1>6. UserOps'
  <2>1. \A w \in Workers : wpc[w] \in {"check", "main", "start"} => operation[w] \in Ops
    BY Zenon, <1>4 DEF Inv, Places
  <2> QED BY Zenon, <1>1, <1>2, <1>3, <1>4, <2>1 DEF Inv, UserOps, User
<1>7. NothingForgotten'
  BY Zenon, <1>1, <1>2, <1>3 DEF Inv, NothingForgotten, TypeOK, QueueTypeOK
<1> QED BY Zenon, <1>1, <1>2, <1>5, <1>6, <1>7

\* main() stores the final state.
LEMMA EndStep ==
    ASSUME Inv, NEW w \in Workers, End(w)
    PROVE  Inv'
<1> DEFINE p == operation[w]
<1> DEFINE s == IF success[w] THEN SUCCESS ELSE FAILED
<1> USE DEF walletVars, opVars, tipVars, sweepVars, stopVars
<1>1. /\ wpc[w] = "end" /\ state_' = [state_ EXCEPT ![p] = s] /\ wpc' = [wpc EXCEPT ![w] = "unlock"]
      /\ UNCHANGED <<queueVars, operation, stopVars, walletVars>>
  BY Zenon DEF End, MainEnds
<1>2. p # NoOp /\ state_[p] # "none" /\ Held(p)
  BY Zenon, <1>1 DEF Inv, Places, Held
<1>3. p \in Ops /\ s \in Finished
  BY Zenon, <1>2 DEF Inv, TypeOK, QueueTypeOK, Finished
<1>4. p \notin Queued /\ \A v \in Workers : v # w => operation[v] # p
  BY Zenon, <1>2, <1>3 DEF Inv, Places
<1>5. /\ wpc'[w] = "unlock" /\ wpc' \in [Workers -> WorkerPCs]
      /\ \A v \in Workers : v # w => wpc'[v] = wpc[v]
  BY Zenon, <1>1 DEF Inv, TypeOK, QueueTypeOK, WorkerPCs
<1>6. \A v \in Workers : wpc'[v] = wpc[v] \/ (wpc[v] = "end" /\ wpc'[v] = "unlock" /\ operation[v] = p)
  BY Zenon, <1>1, <1>5
<1>7. \A v \in Workers : wpc[v] \in {"check", "main", "start"} => operation[v] # p
  BY Zenon, <1>1, <1>4
<1>8. /\ state_' \in [Ops -> OperationStatus]
      /\ state_'[p] = s /\ \A o \in Ops : o # p => state_'[o] = state_[o]
      /\ s \notin {"none", READY, EXECUTING}
      /\ Places' /\ UserOps' /\ NothingForgotten'
  BY Zenon, <1>1, <1>2, <1>3, <1>4, <1>6, <1>7, StoreStep
<1>9. TypeOK'
  BY Zenon, <1>1, <1>5, <1>8 DEF Inv, TypeOK, QueueTypeOK, queueVars
<1>10. Records'
  BY <1>1, <1>8 DEF Inv, Records, queueVars, TypeOK, NoOp
<1>11. LastTask'
  BY Zenon, <1>1, <1>8 DEF Inv, LastTask, queueVars, TypeOK, QueueTypeOK
<1> QED BY Zenon, <1>8, <1>9, <1>10, <1>11 DEF Inv

\* main() unlocks the coins and returns to run().
LEMMA UnlockStep ==
    ASSUME Inv, NEW w \in Workers, Unlock(w)
    PROVE  Inv'
<1> USE DEF tipVars, sweepVars
<1>1. /\ wpc[w] = "unlock" /\ wpc' = [wpc EXCEPT ![w] = "run"] /\ operation' = [operation EXCEPT ![w] = NoOp]
      /\ locked' = locked \ {operation[w]} /\ success' = [success EXCEPT ![w] = FALSE]
      /\ UNCHANGED <<queueVars, state_, stopVars, kind, sent, runs, tipVars, sweepVars>>
  BY Zenon DEF Unlock, MainReturns
<1>2. state_[operation[w]] \in Finished
  BY Zenon, <1>1 DEF Inv, Places
<1>3. TypeOK' /\ LastTask'
  BY Zenon, <1>1 DEF stopVars, queueVars, Inv, TypeOK, QueueTypeOK, WorkerPCs, NoOp, LastTask
<1> QED BY Zenon, <1>1, <1>2, <1>3, DropStep DEF Inv


-----------------------------------------------------------------------------
(* The RPC handlers and the notification thread.                           *)

\* Waking one waiting worker changes nothing else.
LEMMA NotifyOneFacts ==
    ASSUME TypeOK, wpc' \in NotifyOne
    PROVE  /\ wpc' \in [Workers -> WorkerPCs]
           /\ \A w \in Workers : wpc'[w] = wpc[w] \/ (wpc[w] = "wait" /\ wpc'[w] = "run")
BY Zenon DEF TypeOK, QueueTypeOK, NotifyOne, WorkerPCs

\* So does waking all of them.
LEMMA NotifyAllFacts ==
    ASSUME TypeOK, wpc' = NotifyAll
    PROVE  /\ wpc' \in [Workers -> WorkerPCs]
           /\ \A w \in Workers : wpc'[w] = wpc[w] \/ (wpc[w] = "wait" /\ wpc'[w] = "run")
BY Zenon DEF TypeOK, QueueTypeOK, NotifyAll, WorkerPCs

\* What a thread that creates an operation does, and what is then the case.
Adds(o, k) ==
    /\ addOperation(o) /\ kind' = [kind EXCEPT ![o] = k]
    /\ locked' \subseteq locked \cup {o} /\ (o \in locked' => k = "merge")
    /\ UNCHANGED runs
    /\ k \in Tasks => lastOperation' = [lastOperation EXCEPT ![k] = o]
    /\ k \notin Tasks => UNCHANGED lastOperation

Added(o, k) ==
    /\ QueueTypeOK' /\ kind' \in [Ops -> Kinds \cup {"none"}]
    /\ Places' /\ Records' /\ UserOps' /\ NothingForgotten'
    /\ state_'[o] = READY /\ kind'[o] = k /\ o \notin operation_map_
    /\ \A p \in Ops : p # o => state_'[p] = state_[p] /\ kind'[p] = kind[p]
    /\ operation_map_' \subseteq operation_map_ \cup {o}

\* A new operation: it is nowhere yet, and goes to the queue and the map or,
\* when the queue is closed or finishing, nowhere.
LEMMA AddStep ==
    ASSUME Inv, NEW o \in Ops, NEW k \in Kinds, Adds(o, k)
    PROVE  Added(o, k)
<1>0. /\ addOperation(o) /\ kind' = [kind EXCEPT ![o] = k]
      /\ locked' \subseteq locked \cup {o} /\ (o \in locked' => k = "merge")
      /\ UNCHANGED runs
      /\ k \in Tasks => lastOperation' = [lastOperation EXCEPT ![k] = o]
      /\ k \notin Tasks => UNCHANGED lastOperation
  BY Zenon DEF Adds
<1>1. /\ state_[o] = "none" /\ state_' = [state_ EXCEPT ![o] = READY]
      /\ UNCHANGED <<operation, stopVars, closed_, finish_>> /\ spc # "cancel"
  BY Zenon, <1>0 DEF addOperation, LockFree, queueVars
<1>2. /\ state_' \in [Ops -> OperationStatus] /\ state_'[o] = READY
      /\ kind' \in [Ops -> Kinds \cup {"none"}] /\ kind'[o] = k
      /\ \A p \in Ops : p # o => state_'[p] = state_[p] /\ kind'[p] = kind[p]
  BY Zenon, <1>0, <1>1 DEF Inv, TypeOK, QueueTypeOK, OperationStatus
<1>3. o \notin Queued /\ o \notin operation_map_ /\ ~Held(o) /\ o \notin locked /\ runs[o] = 0
  <2>1. o \notin Queued /\ o \notin operation_map_ /\ o \notin locked /\ runs[o] = 0
    BY Zenon, <1>1 DEF Inv, Places, Records, Created
  <2>2. ~Held(o)
    BY <1>1 DEF Inv, Places, Held, NoOp, Ops
  <2> QED BY Zenon, <2>1, <2>2
<1>4. /\ operation_id_queue_' \in Seq(Ops) /\ Distinct(operation_id_queue_')
      /\ \/ closed_ /\ Queued' = Queued /\ operation_map_' = operation_map_
         \/ finish_ /\ Queued' = Queued /\ operation_map_' = operation_map_
         \/ ~finish_ /\ Queued' = Queued \cup {o} /\ operation_map_' = operation_map_ \cup {o}
  <2>1. CASE closed_ \/ finish_
    BY Zenon, <1>0, <2>1 DEF addOperation, queueVars, Inv, TypeOK, QueueTypeOK, Places, Queued
  <2>2. CASE ~(closed_ \/ finish_)
    <3>1. operation_id_queue_' = Append(operation_id_queue_, o) /\ operation_map_' = operation_map_ \cup {o}
      BY Zenon, <1>0, <2>2 DEF addOperation
    <3> QED BY Zenon, <1>3, <2>2, <3>1, AppendFacts DEF Queued, Inv, TypeOK, QueueTypeOK, Places
  <2> QED BY Zenon, <2>1, <2>2
<1>5. /\ wpc' \in [Workers -> WorkerPCs]
      /\ \A w \in Workers : wpc'[w] = wpc[w] \/ (wpc[w] = "wait" /\ wpc'[w] = "run")
  <2>1. CASE closed_ \/ finish_
    BY Zenon, <1>0, <2>1 DEF addOperation, Inv, TypeOK, QueueTypeOK
  <2>2. CASE ~(closed_ \/ finish_)
    <3>1. wpc' \in NotifyOne
      BY Zenon, <1>0, <2>2 DEF addOperation
    <3> QED BY Zenon, <3>1, NotifyOneFacts DEF Inv
  <2> QED BY Zenon, <2>1, <2>2
<1>6. Queued \subseteq Ops /\ Queued' \subseteq Queued \cup {o} /\ Queued' \subseteq Ops
      /\ operation_map_' \subseteq operation_map_ \cup {o}
      /\ \A p \in Ops : (Held(p))' <=> Held(p)
  BY Zenon, <1>1, <1>4, QueuedOps DEF Inv, Held
<1>7. QueueTypeOK'
  BY Zenon, <1>1, <1>2, <1>4, <1>5, <1>6 DEF Inv, TypeOK, QueueTypeOK, stopVars
<1>8. Places'
  <2>1. \A p \in Queued' : state_'[p] # "none" /\ runs'[p] = 0 /\ ~(Held(p))'
    BY SMTT(30), <1>0, <1>2, <1>3, <1>6 DEF Inv, Places, READY
  <2>2. \A w \in Workers : operation'[w] = operation[w] /\ (operation[w] # NoOp =>
            operation[w] \in Ops /\ operation[w] # o /\ state_'[operation[w]] = state_[operation[w]])
    BY SMTT(30), <1>1, <1>2, <1>3 DEF Inv, TypeOK, QueueTypeOK, Held
  <2>3. operation_map_' \subseteq Created'
    BY Zenon, <1>2, <1>6 DEF Inv, Places, Created, TypeOK, QueueTypeOK, READY
  <2>4. \A p \in Ops : runs'[p] <= 1 /\ (state_'[p] = "none" => runs'[p] = 0)
    BY Zenon, <1>0, <1>2 DEF Inv, Places, READY
  <2>5. /\ \A w \in Workers : operation'[w] = NoOp <=> wpc'[w] \in {"run", "wait", "exit"}
        /\ \A w \in Workers : wpc'[w] \in {"check", "main", "start"} => runs'[operation'[w]] = 0
    BY <1>0, <1>5, <2>2 DEF Inv, Places
  <2>6. \A w \in Workers : wpc'[w] = "unlock" => state_'[operation'[w]] \in Finished
    BY Zenon, <1>0, <1>5, <2>2 DEF Inv, Places
  <2>7. \A w \in Workers : operation'[w] # NoOp => state_'[operation'[w]] # "none"
    BY <2>2 DEF Inv, Places
  <2>8. \A v, w \in Workers : v # w /\ operation'[v] # NoOp => operation'[v] # operation'[w]
    BY <2>2 DEF Inv, Places
  <2> QED BY Zenon, <1>4, <2>1, <2>3, <2>4, <2>5, <2>6, <2>7, <2>8 DEF Places
<1>9. Records'
  <2>1. /\ spc' = spc /\ sawReady' = sawReady /\ closed_' = closed_
    BY Zenon, <1>1 DEF stopVars
  <2>2. \A p \in locked' : kind'[p] = "merge" /\ state_'[p] # "none"
    BY Zenon, <1>0, <1>2 DEF Inv, Records, TypeOK, READY
  <2>3. \A t \in Tasks : lastOperation'[t] # NoOp =>
            kind'[lastOperation'[t]] = t /\ state_'[lastOperation'[t]] # "none"
    BY SMTT(30), <1>0, <1>1, <1>2 DEF Inv, Records, TypeOK, READY
  <2>4. sawReady' # NoOp => spc' = "cancel" /\ state_'[sawReady'] # "none"
    <3>1. sawReady # NoOp => sawReady \in Ops /\ sawReady # o /\ spc = "cancel" /\ state_[sawReady] # "none"
      BY Zenon, <1>1 DEF Inv, Records, TypeOK, QueueTypeOK
    <3> QED BY Zenon, <1>2, <2>1, <3>1
  <2> QED BY Zenon, <2>1, <2>2, <2>3, <2>4 DEF Inv, Records
<1>10. UserOps'
  <2> SUFFICES ASSUME ~closed_ PROVE
         /\ \A p \in Queued' : (User(p))' => state_'[p] = READY /\ p \in operation_map_'
         /\ \A w \in Workers :
               wpc'[w] \in {"check", "main", "start"} /\ (User(operation[w]))' =>
                   state_'[operation'[w]] = READY /\ operation'[w] \in operation_map_'
         /\ \A p \in Ops : (User(p))' /\ state_'[p] = EXECUTING => p \in operation_map_'
    BY Zenon, <1>1 DEF UserOps, User
  <2>1. \A p \in Ops : p # o => ((User(p))' <=> User(p))
    BY Zenon, <1>2 DEF User
  <2>2. \A p \in Queued' : (User(p))' => state_'[p] = READY /\ p \in operation_map_'
    BY SMTT(30), <1>2, <1>3, <1>4, <1>6, <2>1 DEF Inv, UserOps
  <2>3. \A w \in Workers : wpc'[w] \in {"check", "main", "start"} =>
            /\ wpc[w] \in {"check", "main", "start"}
            /\ operation'[w] = operation[w] /\ operation[w] \in Ops /\ operation[w] # o
    BY Zenon, <1>1, <1>3, <1>5 DEF Inv, Places, TypeOK, QueueTypeOK, Held
  <2>4. ASSUME NEW w \in Workers, wpc'[w] \in {"check", "main", "start"}, (User(operation[w]))'
        PROVE  state_'[operation'[w]] = READY /\ operation'[w] \in operation_map_'
    <3>1. User(operation[w])
      BY Zenon, <1>2, <2>3, <2>4 DEF User
    <3> QED BY SMTT(30), <1>2, <1>4, <2>3, <2>4, <3>1 DEF Inv, UserOps
  <2>5. \A p \in Ops : (User(p))' /\ state_'[p] = EXECUTING => p \in operation_map_'
    BY SMTT(30), <1>2, <1>4, <2>1 DEF Inv, UserOps, READY, EXECUTING
  <2> QED BY Zenon, <2>2, <2>4, <2>5
<1>11. NothingForgotten'
  BY SMTT(30), <1>0, <1>1, <1>2, <1>3, <1>4, <1>6 DEF Inv, NothingForgotten, TypeOK, QueueTypeOK
<1> QED BY Zenon, <1>2, <1>3, <1>6, <1>7, <1>8, <1>9, <1>10, <1>11 DEF Added

-----------------------------------------------------------------------------
(* Operations are asked for, cancelled and removed; the theorems.          *)

\* The RPC handlers that create an operation.
LEMMA UserAsksStep ==
    ASSUME Inv, NEW o \in Ops, NEW k \in UserKinds, UserAsks(o, k)
    PROVE  Inv'
<1> USE DEF tipVars, sweepVars
<1>1. /\ addOperation(o) /\ kind' = [kind EXCEPT ![o] = k]
      /\ locked' = IF k = "merge" THEN locked \cup {o} ELSE locked
      /\ UNCHANGED <<sent, success, runs, tipVars, sweepVars>>
  BY Zenon DEF UserAsks
<1>2. k \in Kinds /\ k \notin Tasks
  BY Zenon, WalletTasksAssumption DEF Kinds, Tasks
<1>3. o \notin locked
  BY Zenon, <1>1 DEF addOperation, Inv, Records
<1>0. Adds(o, k)
  BY Zenon, <1>1, <1>2, <1>3 DEF Adds
<1>4. /\ QueueTypeOK' /\ kind' \in [Ops -> Kinds \cup {"none"}]
      /\ Places' /\ Records' /\ UserOps' /\ NothingForgotten'
      /\ state_'[o] = READY /\ kind'[o] = k /\ o \notin operation_map_
      /\ \A p \in Ops : p # o => state_'[p] = state_[p] /\ kind'[p] = kind[p]
      /\ operation_map_' \subseteq operation_map_ \cup {o}
  BY Zenon, <1>0, <1>2, AddStep DEF Added
<1>5. TypeOK'
  BY Zenon, <1>1, <1>4 DEF Inv, TypeOK
<1>6. LastTask'
  <2>1. \A p \in operation_map_' : kind'[p] \in Tasks /\ state_'[p] = READY => p = lastOperation'[kind'[p]]
    BY <1>1, <1>2, <1>4 DEF Inv, LastTask, TypeOK, QueueTypeOK
  <2>2. \A t \in Tasks : lastOperation[t] # o
    BY <1>1 DEF addOperation, Inv, Records, NoOp, Ops
  <2>3. \A t \in Tasks : tpc' = <<t, "add">> =>
           ~(lastOperation'[t] \in operation_map_' /\ state_'[lastOperation'[t]] = READY)
    BY <1>1, <1>4, <2>2 DEF Inv, LastTask, TypeOK, QueueTypeOK
  <2> QED BY Zenon, <2>1, <2>3 DEF LastTask
<1> QED BY Zenon, <1>4, <1>5, <1>6 DEF Inv

\* Where the notification thread stands.
LEMMA TipFacts ==
    /\ Idle \in TipPCs /\ \A t \in Tasks : At(t) \in TipPCs /\ <<t, "add">> \in TipPCs
    /\ \A t \in Tasks : Idle # <<t, "add">>
    /\ \A t, u \in Tasks : At(t) # <<u, "add">>
    /\ "consolidation" \in Tasks /\ "sweep" \in Tasks
<1>1. \A t \in Tasks, u \in Tasks : <<t, "test">> # <<u, "add">>
  BY Zenon
<1>2. \A t \in Tasks : <<"idle", "">> # <<t, "add">>
  BY Zenon DEF Tasks
<1>3. "consolidation" \in Tasks /\ "sweep" \in Tasks
  BY Zenon DEF Tasks
<1>4. \A t \in Tasks, s \in {"test", "cancel", "add"} : <<t, s>> \in TipPCs
  BY DEF TipPCs
<1>5. Idle \in TipPCs
  BY DEF TipPCs
<1> QED BY Zenon, <1>1, <1>2, <1>3, <1>4, <1>5 DEF Idle, At

\* RunSaplingConsolidation and RunSaplingSweep queue the new task.
LEMMA AddTaskStep ==
    ASSUME Inv, NEW t \in Tasks, NEW o \in Ops, AddTask(t, o)
    PROVE  Inv'
<1> USE DEF sweepVars
<1>1. /\ tpc = <<t, "add">> /\ addOperation(o) /\ kind' = [kind EXCEPT ![o] = t]
      /\ lastOperation' = [lastOperation EXCEPT ![t] = o] /\ tpc' = After(t)
      /\ UNCHANGED <<sent, locked, success, runs, notified, reorgs, sweepVars>>
  BY Zenon DEF AddTask
<1>2. t \in Kinds
  BY Zenon DEF Kinds
<1>3. o \notin locked
  BY Zenon, <1>1 DEF addOperation, Inv, Records
<1>0. Adds(o, t)
  BY Zenon, <1>1, <1>2, <1>3 DEF Adds
<1>4. /\ QueueTypeOK' /\ kind' \in [Ops -> Kinds \cup {"none"}]
      /\ Places' /\ Records' /\ UserOps' /\ NothingForgotten'
      /\ state_'[o] = READY /\ kind'[o] = t /\ o \notin operation_map_
      /\ \A p \in Ops : p # o => state_'[p] = state_[p] /\ kind'[p] = kind[p]
      /\ operation_map_' \subseteq operation_map_ \cup {o}
  BY Zenon, <1>0, <1>2, AddStep DEF Added
<1>5. lastOperation'[t] = o /\ lastOperation' \in [Tasks -> Ops \cup {NoOp}]
      /\ \A u \in Tasks : u # t => lastOperation'[u] = lastOperation[u]
  BY Zenon, <1>1 DEF Inv, TypeOK
<1>6. tpc' \in TipPCs /\ \A u \in Tasks : tpc' # <<u, "add">>
  BY Zenon, <1>1, TipFacts DEF After
<1>7. TypeOK'
  BY Zenon, <1>1, <1>4, <1>5, <1>6 DEF Inv, TypeOK
<1>8. LastTask'
  <2>1. ASSUME NEW p \in operation_map_', kind'[p] \in Tasks, state_'[p] = READY
        PROVE  p = lastOperation'[kind'[p]]
    <3>1. CASE p = o
      BY Zenon, <3>1, <1>4, <1>5
    <3>2. CASE p # o
      <4>1. p \in operation_map_ /\ p \in Ops /\ kind[p] = kind'[p] /\ state_[p] = READY
        BY Zenon, <1>4, <2>1, <3>2 DEF Inv, TypeOK, QueueTypeOK
      <4>2. p = lastOperation[kind[p]]
        BY Zenon, <2>1, <4>1 DEF Inv, LastTask
      <4>3. kind[p] # t
        BY Zenon, <1>1, <4>1, <4>2 DEF Inv, LastTask
      <4> QED BY Zenon, <1>5, <2>1, <4>1, <4>2, <4>3
    <3> QED BY Zenon, <3>1, <3>2
  <2> QED BY Zenon, <1>6, <2>1 DEF LastTask
<1> QED BY Zenon, <1>4, <1>7, <1>8 DEF Inv

\* Removing what has ended from the map.
LEMMA GetResultStep ==
    ASSUME Inv, NEW o \in Ops, z_getoperationresult(o)
    PROVE  Inv'
<1> USE DEF walletVars, opVars, tipVars, sweepVars, stopVars
<1>1. /\ o \in operation_map_ /\ state_[o] \in Finished /\ operation_map_' = operation_map_ \ {o}
      /\ UNCHANGED <<closed_, finish_, operation_id_queue_, state_, wpc, operation, stopVars, walletVars>>
  BY Zenon DEF z_getoperationresult, popOperationForId
<1>2. state_[o] # READY /\ state_[o] # EXECUTING
  BY Zenon, <1>1 DEF Finished, READY, EXECUTING, CANCELLED, FAILED, SUCCESS
<1>3. Queued' = Queued /\ Created' = Created /\ \A p \in Ops : (Held(p))' <=> Held(p)
  BY Zenon, <1>1 DEF Queued, Created, Held
<1>4. TypeOK'
  BY Zenon, <1>1 DEF Inv, TypeOK, QueueTypeOK
<1>5. Places'
  BY Zenon, <1>1, <1>3, QueuedOps DEF Inv, Places
<1>6. Records'
  BY Zenon, <1>1 DEF Inv, Records
<1>7. UserOps'
  BY Zenon, <1>1, <1>2, <1>3 DEF Inv, UserOps, User
<1>8. NothingForgotten'
  BY Zenon, <1>1, <1>2, <1>3 DEF Inv, NothingForgotten, TypeOK, QueueTypeOK
<1>9. LastTask'
  BY Zenon, <1>1 DEF Inv, LastTask
<1> QED BY Zenon, <1>4, <1>5, <1>6, <1>7, <1>8, <1>9 DEF Inv

\* The steps of the notification thread that only move it on.
LEMMA TipStep ==
    ASSUME Inv,
           BlockConnected \/ BlockDisconnected \/ (\E t \in Tasks : TaskNotDue(t) \/ RunTask(t))
    PROVE  Inv'
<1> USE DEF opVars
<1>1. /\ UNCHANGED <<queueVars, state_, wpc, operation, stopVars, kind, sent, locked, success, runs, lastOperation, nextSweep>>
      /\ notified' \in 0..MaxHeight /\ reorgs' \in 0..MaxReorgs
      /\ fSweepRunning' \in BOOLEAN
  <2>1. CASE BlockConnected
    BY <2>1, WalletTasksAssumption DEF BlockConnected, Inv, TypeOK, sweepVars
  <2>2. CASE BlockDisconnected
    BY <2>2, WalletTasksAssumption DEF BlockDisconnected, Inv, TypeOK, sweepVars
  <2>3. ASSUME NEW t \in Tasks, TaskNotDue(t) PROVE <1>1!:
    BY Zenon, <2>3 DEF TaskNotDue, Inv, TypeOK, sweepVars
  <2>4. ASSUME NEW t \in Tasks, RunTask(t) PROVE <1>1!:
    BY Zenon, <2>4 DEF RunTask, Inv, TypeOK
  <2> QED BY Zenon, <2>1, <2>2, <2>3, <2>4
<1>2. /\ tpc' \in TipPCs
      /\ \A t \in Tasks : tpc' = <<t, "add">> => tpc = tpc' \/ ~(lastOperation[t] \in operation_map_ /\ state_[lastOperation[t]] = READY)
  <2>1. CASE BlockConnected \/ BlockDisconnected
    BY Zenon, <2>1, TipFacts DEF BlockConnected, BlockDisconnected, Tasks, Inv, TypeOK
  <2>2. ASSUME NEW t \in Tasks, TaskNotDue(t) PROVE <1>2!:
    BY Zenon, <2>2, TipFacts DEF TaskNotDue, After, Tasks
  <2>3. ASSUME NEW t \in Tasks, RunTask(t) PROVE <1>2!:
    <3>1. tpc' = <<t, "cancel">> \/ (tpc' = <<t, "add">> /\ ~(lastOperation[t] \in operation_map_ /\ state_[lastOperation[t]] = READY))
      BY Zenon, <2>3 DEF RunTask
    <3>2. \A u \in Tasks : <<t, "cancel">> # <<u, "add">> /\ (<<t, "add">> = <<u, "add">> => u = t)
      BY Zenon
    <3>3. <<t, "cancel">> \in TipPCs /\ <<t, "add">> \in TipPCs
      BY DEF TipPCs
    <3> QED BY Zenon, <3>1, <3>2, <3>3
  <2> QED BY Zenon, <2>1, <2>2, <2>3
<1>3. TypeOK' /\ LastTask'
  BY Zenon, <1>1, <1>2 DEF queueVars, stopVars, Inv, TypeOK, QueueTypeOK, LastTask
<1> QED BY Zenon, <1>1, <1>3, FrameStep DEF Inv


\* RunSaplingConsolidation and RunSaplingSweep cancel only tasks.
LEMMA CancelLastStep ==
    ASSUME Inv, NEW t \in Tasks, CancelLast(t)
    PROVE  Inv'
<1> DEFINE p == lastOperation[t]
<1> USE DEF opVars
<1>1. /\ tpc = <<t, "cancel">> /\ tpc' = <<t, "add">>
      /\ state_' = [state_ EXCEPT ![p] = CANCELLED]
      /\ UNCHANGED <<queueVars, wpc, operation, stopVars, opVars, notified, reorgs, lastOperation, sweepVars>>
  BY Zenon DEF CancelLast
<1>2. tpc' \in TipPCs /\ \A u \in Tasks : tpc' = <<u, "add">> => u = t
  BY Zenon, <1>1, TipFacts
<1>3. p \in Ops \cup {NoOp} /\ NoOp \notin Ops
  BY DEF Inv, TypeOK, NoOp, Ops
<1>4. CASE p = NoOp
  <2>1. UNCHANGED state_
    BY Zenon, <1>1, <1>3, <1>4 DEF Inv, TypeOK, QueueTypeOK
  <2>2. TypeOK'
    BY Zenon, <1>1, <1>2, <2>1 DEF Inv, TypeOK, QueueTypeOK, queueVars, stopVars, sweepVars
  <2>3. NoOp \notin operation_map_
    BY Zenon, <1>3 DEF Inv, TypeOK, QueueTypeOK
  <2>4. LastTask'
    BY Zenon, <1>1, <1>2, <1>4, <2>1, <2>3 DEF Inv, LastTask, queueVars
  <2>5. Places' /\ Records' /\ UserOps' /\ NothingForgotten'
    BY Zenon, <1>1, <2>1, FrameStep
  <2> QED BY Zenon, <2>2, <2>4, <2>5 DEF Inv
<1>5. CASE p \in Ops
  <2>1. kind[p] = t /\ state_[p] # "none" /\ ~User(p) /\ CANCELLED \in Finished
    <3>1. kind[p] = t /\ state_[p] # "none"
      BY Zenon, <1>3, <1>5 DEF Inv, Records
    <3> QED BY Zenon, <3>1 DEF User, Tasks, Finished
  <2>2. \A w \in Workers : wpc'[w] = wpc[w] \/ (wpc[w] = "end" /\ wpc'[w] = "unlock" /\ operation[w] = p)
    BY Zenon, <1>1
  <2>3. /\ state_' \in [Ops -> OperationStatus]
        /\ state_'[p] = CANCELLED /\ \A o \in Ops : o # p => state_'[o] = state_[o]
        /\ CANCELLED \notin {"none", READY, EXECUTING}
        /\ Places' /\ UserOps' /\ NothingForgotten'
    BY Zenon, <1>1, <1>5, <2>1, <2>2, StoreStep
  <2>4. TypeOK'
    BY Zenon, <1>1, <1>2, <2>3 DEF Inv, TypeOK, QueueTypeOK, queueVars, stopVars, sweepVars
  <2>5. Records'
    BY SMTT(30), <1>1, <2>3 DEF Inv, Records, queueVars, stopVars, TypeOK, NoOp
  <2>6. LastTask'
    BY Zenon, <1>1, <1>2, <2>3 DEF Inv, LastTask, queueVars, TypeOK, QueueTypeOK
  <2> QED BY Zenon, <2>3, <2>4, <2>5, <2>6 DEF Inv
<1> QED BY Zenon, <1>3, <1>4, <1>5

-----------------------------------------------------------------------------
(* Shutting down.                                                          *)

\* close() and finish() store their flag.
LEMMA FlagStep ==
    ASSUME Inv, StoreClosed \/ StoreFinish, UNCHANGED walletVars
    PROVE  Inv'
<1> USE DEF walletVars, opVars, tipVars, sweepVars
<1>1. /\ \/ closed_' = TRUE /\ UNCHANGED finish_ /\ spc' = "close"
         \/ finish_' = TRUE /\ UNCHANGED closed_ /\ spc' = "notify"
      /\ spc = "up"
      /\ UNCHANGED <<operation_id_queue_, operation_map_, state_, wpc, operation, toCancel, sawReady, walletVars>>
  BY Zenon DEF StoreClosed, StoreFinish
<1>2. Queued' = Queued /\ Created' = Created /\ \A p \in Ops : (Held(p))' <=> Held(p)
  BY Zenon, <1>1 DEF Queued, Created, Held
<1>3. TypeOK'
  BY Zenon, <1>1 DEF Inv, TypeOK, QueueTypeOK, StopPCs
<1>4. Places'
  BY Zenon, <1>1, <1>2, QueuedOps DEF Inv, Places
<1>5. Records'
  BY Zenon, <1>1 DEF Inv, Records
<1>6. UserOps'
  BY Zenon, <1>1, <1>2 DEF Inv, UserOps, User
<1>7. NothingForgotten'
  BY Zenon, <1>1, <1>2 DEF Inv, NothingForgotten, TypeOK, QueueTypeOK
<1>8. LastTask'
  BY Zenon, <1>1 DEF Inv, LastTask
<1> QED BY Zenon, <1>3, <1>4, <1>5, <1>6, <1>7, <1>8 DEF Inv

\* Steps of the thread that stops the queue which store no state.
LEMMA StoppingStep ==
    ASSUME Inv, UNCHANGED <<walletVars, queueVars, state_, operation>>,
           spc' \in StopPCs, toCancel' \subseteq Ops, sawReady' \in Ops \cup {NoOp},
           wpc' \in [Workers -> WorkerPCs],
           \A w \in Workers : wpc'[w] = wpc[w] \/ (wpc[w] = "wait" /\ wpc'[w] = "run"),
           spc' \in {"close", "cancel"} => closed_,
           sawReady' # NoOp => spc' = "cancel" /\ state_[sawReady'] # "none"
    PROVE  Inv'
<1> USE DEF walletVars, opVars, tipVars, sweepVars, queueVars
<1>1. Queued' = Queued /\ Created' = Created /\ \A p \in Ops : (Held(p))' <=> Held(p)
  BY Zenon DEF Queued, Created, Held
<1>2. TypeOK'
  BY Zenon DEF Inv, TypeOK, QueueTypeOK
<1>3. Places'
  <2>1. /\ \A v \in Workers : operation'[v] = NoOp <=> wpc'[v] \in {"run", "wait", "exit"}
        /\ \A v \in Workers : wpc'[v] \in {"check", "main", "start"} => runs'[operation'[v]] = 0
        /\ \A v \in Workers : wpc'[v] = "unlock" => state_'[operation'[v]] \in Finished
    BY Zenon DEF Inv, Places
  <2> QED BY Zenon, <1>1, <2>1, QueuedOps DEF Inv, Places
<1>4. Records'
  BY Zenon DEF Inv, Records
<1>5. UserOps'
  BY Zenon, <1>1 DEF Inv, UserOps, User
<1>6. NothingForgotten'
  BY Zenon, <1>1 DEF Inv, NothingForgotten, TypeOK, QueueTypeOK
<1>7. LastTask'
  BY Zenon DEF Inv, LastTask
<1> QED BY Zenon, <1>2, <1>3, <1>4, <1>5, <1>6, <1>7 DEF Inv


\* cancel() of the thread that closes the queue stores CANCELLED.
LEMMA CancelAllStoresStep ==
    ASSUME Inv, CancelAllStores, UNCHANGED walletVars
    PROVE  Inv'
<1> DEFINE p == sawReady
<1> USE DEF walletVars, opVars, tipVars, sweepVars
<1>1. /\ spc = "cancel" /\ p # NoOp /\ state_' = [state_ EXCEPT ![p] = CANCELLED] /\ sawReady' = NoOp
      /\ UNCHANGED <<queueVars, wpc, operation, spc, toCancel, walletVars>>
  BY Zenon DEF CancelAllStores
<1>2. p \in Ops /\ closed_ /\ CANCELLED \in Finished /\ state_[p] # "none"
  BY Zenon, <1>1 DEF Inv, TypeOK, QueueTypeOK, Records, Finished
<1>3. \A w \in Workers : wpc'[w] = wpc[w] \/ (wpc[w] = "end" /\ wpc'[w] = "unlock" /\ operation[w] = p)
  BY Zenon, <1>1
<1>4. /\ state_' \in [Ops -> OperationStatus]
      /\ state_'[p] = CANCELLED /\ \A o \in Ops : o # p => state_'[o] = state_[o]
      /\ CANCELLED \notin {"none", READY, EXECUTING}
      /\ Places' /\ UserOps' /\ NothingForgotten'
  BY Zenon, <1>1, <1>2, <1>3, StoreStep
<1>5. TypeOK'
  BY Zenon, <1>1, <1>4 DEF Inv, TypeOK, QueueTypeOK, queueVars
<1>6. Records'
  BY SMTT(30), <1>1, <1>4 DEF Inv, Records, queueVars, TypeOK, NoOp
<1>7. LastTask'
  BY Zenon, <1>1, <1>4 DEF Inv, LastTask, queueVars, TypeOK, QueueTypeOK
<1> QED BY Zenon, <1>4, <1>5, <1>6, <1>7 DEF Inv

\* Every step of the thread that stops the queue.
LEMMA StopStep ==
    ASSUME Inv, Stop
    PROVE  Inv'
<1>1. CASE StoreClosed \/ StoreFinish
  BY Zenon, <1>1, FlagStep DEF Stop
<1>2. CASE CancelAllStores
  BY Zenon, <1>2, CancelAllStoresStep DEF Stop
<1>3. UNCHANGED walletVars
  BY Zenon DEF Stop
<1>4. /\ spc \in StopPCs /\ toCancel \subseteq Ops /\ sawReady \in Ops \cup {NoOp} /\ operation_map_ \subseteq Ops
      /\ wpc \in [Workers -> WorkerPCs] /\ TypeOK
      /\ {"cancel", "notify", "join", "joined"} \subseteq StopPCs
      /\ spc \in {"close", "cancel"} => closed_
      /\ sawReady # NoOp => spc = "cancel" /\ state_[sawReady] # "none"
  BY Zenon DEF Inv, TypeOK, QueueTypeOK, Records, StopPCs
<1>5. CASE CancelAllBegins
  <2>1. /\ UNCHANGED <<walletVars, queueVars, state_, operation, wpc, sawReady>> /\ spc = "close"
        /\ spc' = "cancel" /\ toCancel' = operation_map_
    BY Zenon, <1>3, <1>5 DEF CancelAllBegins
  <2> QED BY Zenon, <1>4, <2>1, StoppingStep
<1>6. ASSUME NEW o \in Ops, CancelAllTests(o) PROVE Inv'
  <2>1. /\ UNCHANGED <<walletVars, queueVars, state_, operation, wpc, spc>> /\ spc = "cancel"
        /\ toCancel' \subseteq Ops /\ sawReady' \in Ops \cup {NoOp}
        /\ sawReady' # NoOp => state_[sawReady'] = READY
    BY Zenon, <1>3, <1>4, <1>6 DEF CancelAllTests
  <2>2. sawReady' # NoOp => spc' = "cancel" /\ state_[sawReady'] # "none"
    BY Zenon, <2>1 DEF READY
  <2> QED BY Zenon, <1>4, <2>1, <2>2, StoppingStep
<1>7. CASE CancelAllEnds \/ NotifyWorkers
  <2>1. /\ UNCHANGED <<walletVars, queueVars, state_, operation, toCancel, sawReady>> /\ sawReady = NoOp
        /\ spc' \in {"notify", "join"} /\ wpc' = NotifyAll
    BY Zenon, <1>3, <1>4, <1>7 DEF CancelAllEnds, NotifyWorkers
  <2> QED BY Zenon, <1>4, <2>1, NotifyAllFacts, StoppingStep
<1>8. CASE Joined
  <2>1. /\ UNCHANGED <<walletVars, queueVars, state_, operation, wpc, toCancel, sawReady>> /\ sawReady = NoOp
        /\ spc' = "joined"
    BY Zenon, <1>3, <1>4, <1>8 DEF Joined
  <2> QED BY Zenon, <1>4, <2>1, StoppingStep
<1> QED BY Zenon, <1>1, <1>2, <1>5, <1>6, <1>7, <1>8 DEF Stop, Stopping

-----------------------------------------------------------------------------
(* The invariant holds, and what follows from it.                          *)

\* InitWallet leaves everything empty.
LEMMA InitInv == Init => Inv
<1> SUFFICES ASSUME Init PROVE Inv
  BY Zenon
<1> USE DEF Init, QueueInit
<1>1. Queued = {} /\ Created = {}
  BY Zenon, EmptyFacts DEF Queued, Created
<1>2. TypeOK
  <2>1. sweepInterval \in Nat /\ 0 \in 0..MaxHeight /\ 0 \in 0..MaxReorgs /\ 0 \in 0..MaxTxs
    BY WalletTasksAssumption
  <2> QED BY Zenon, <2>1, EmptyFacts, TipFacts DEF TypeOK, QueueTypeOK, WorkerPCs, StopPCs, OperationStatus
<1>3. Places
  BY <1>1, EmptyFacts DEF Places
<1>4. Records /\ UserOps /\ NothingForgotten /\ LastTask
  BY Zenon, <1>1, TipFacts DEF Records, UserOps, User, NothingForgotten, LastTask, EXECUTING
<1> QED BY Zenon, <1>2, <1>3, <1>4 DEF Inv

\* A step that changes nothing.
LEMMA StutterStep ==
    ASSUME Inv, UNCHANGED vars
    PROVE  Inv'
<1> USE DEF vars, walletVars, opVars, tipVars, sweepVars
<1>1. Places' /\ Records' /\ UserOps' /\ NothingForgotten'
  BY Zenon, FrameStep
<1>2. TypeOK' /\ LastTask'
  BY Zenon DEF Inv, TypeOK, QueueTypeOK, LastTask, queueVars, stopVars
<1> QED BY Zenon, <1>1, <1>2 DEF Inv

(* Every step of a worker, an RPC handler, the notification thread and the *)
(* thread that stops the queue keeps the inductive invariant.              *)
THEOREM Invariance == Spec => []Inv
<1>1. ASSUME Inv, [Next]_vars PROVE Inv'
  <2>1. ASSUME NEW w \in Workers, Worker(w) PROVE Inv'
    <3>1. CASE QueueStep(w)
      BY Zenon, <1>1, <3>1, WorkerWaitExitStep, WorkerTakesStep, WorkerChecksStep, MainTestsStep DEF QueueStep
    <3>2. CASE ~QueueStep(w)
      BY Zenon, <1>1, <2>1, <3>2, StartStep, BodyStep, EndStep, UnlockStep DEF Worker
    <3> QED BY Zenon, <3>1, <3>2
  <2>2. ASSUME NEW o \in Ops, NEW k \in UserKinds, UserAsks(o, k) PROVE Inv'
    BY Zenon, <1>1, <2>2, UserAsksStep
  <2>3. ASSUME NEW o \in Ops, z_getoperationresult(o) PROVE Inv'
    BY Zenon, <1>1, <2>3, GetResultStep
  <2>4. CASE Tip
    BY Zenon, <1>1, <2>4, TipStep, CancelLastStep, AddTaskStep DEF Tip
  <2>5. CASE Stop
    BY Zenon, <1>1, <2>5, StopStep
  <2>6. CASE UNCHANGED vars
    BY Zenon, <1>1, <2>6, StutterStep
  <2> QED BY Zenon, <1>1, <2>1, <2>2, <2>3, <2>4, <2>5, <2>6 DEF Next
<1> QED BY <1>1, InitInv, PTL DEF Spec

(* No operation is in two hands or gets past its test in main() twice, for *)
(* any number of workers: no payment is made twice (AsyncRPCQueue::run).   *)
THEOREM OperationsRunOnce == Spec => []RunsOnce
<1>1. Inv => RunsOnce
  <2>1. ASSUME Inv, NEW w \in Workers, operation[w] # NoOp PROVE operation[w] \notin Queued
    BY Zenon, <2>1 DEF Inv, Places, Held
  <2> QED BY Zenon, <2>1 DEF Inv, Places, RunsOnce
<1> QED BY <1>1, Invariance, PTL

(* Until the queue is closed an accepted operation that is READY or        *)
(* EXECUTING is in the queue or with a worker, and locked coins belong to  *)
(* such an operation (addOperation, run, unlock_utxos).                    *)
THEOREM AcceptedOperationsKept == Spec => []NothingForgotten
<1>1. Inv => NothingForgotten
  BY Zenon DEF Inv
<1> QED BY <1>1, Invariance, PTL

(* RunSaplingConsolidation and RunSaplingSweep never leave two tasks of    *)
(* one kind waiting, whatever the intervals and however slow the workers.  *)
THEOREM AtMostOneTaskWaits == Spec => []OneTaskWaiting
<1>1. Inv => OneTaskWaiting
  BY Zenon DEF Inv, LastTask, OneTaskWaiting
<1> QED BY <1>1, Invariance, PTL

(* What a user asked for and is running can be looked up with              *)
(* z_getoperationstatus until the queue is closed.                         *)
THEOREM RunningOperationsVisible == Spec => []UserSeesOperation
<1>1. Inv => UserSeesOperation
  BY Zenon, WalletTasksAssumption DEF Inv, UserOps, User, UserSeesOperation
<1> QED BY <1>1, Invariance, PTL
=============================================================================
