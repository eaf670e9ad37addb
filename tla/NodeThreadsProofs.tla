-------------------------- MODULE NodeThreadsProofs -------------------------
(* Proofs about NodeThreads, for any number of workers, clients, tasks and *)
(* any depth of the work queue: what the threads rely on while the node    *)
(* shuts down.                                                             *)
EXTENDS NodeThreads, FiniteSetTheorems, TLAPS

-----------------------------------------------------------------------------
(* The inductive invariant.                                                *)

Counted == {w \in Workers : worker[w] \in {"fetch", "handle", "leave"}}

\* Where the main thread is: past InterruptHTTPServer's first and second
\* step, past WaitExit, past ~WorkQueue.
Rejecting == {"queue", "group", "join", "rpc", "wait", "delete", "exit", "loop", "end"}
Interrupted == Rejecting \ {"queue"}
Waited == {"delete", "exit", "loop", "end"}
Deleted == {"exit", "loop", "end"}

Types ==
    /\ queue \in Seq(Requests)
    /\ worker \in [Workers -> {"created", "fetch", "handle", "leave", "gone"}]
    /\ item \in [Workers -> Requests \cup {NoRequest}]
    /\ request \in [Requests -> {"none", "callback", "queued", "handled", "replied"}]
    /\ callback \in Requests \cup {NoRequest}
    /\ pc \in {"init", "run", "interrupt"} \cup Rejecting

\* ThreadCounter counts, and the queue never has more than its depth.
Counts == numThreads = Cardinality(Counted) /\ Len(queue) <= maxDepth

\* The order of the shutdown.
Order ==
    /\ pc \in Rejecting => rejecting
    /\ PromptThreads /\ pc \in Waited => callback = NoRequest /\ \A w \in Workers : worker[w] = "gone"
    /\ deleted <=> pc \in Deleted
    /\ PromptThreads /\ deleted => queue = <<>>
    /\ loop # "runs" => pc \in {"loop", "end"}

\* Who owes a request its answer.
Owners ==
    /\ \A r \in Requests : request[r] = "callback" => callback = r
    /\ \A r \in Requests : request[r] = "queued" => \E i \in DOMAIN queue : queue[i] = r
    /\ \A r \in Requests : request[r] = "handled" => \E w \in Workers : worker[w] = "handle" /\ item[w] = r

Served == PromptThreads => AnswersKept

\* The thread of the scheduler is counted while it is in serviceQueue, and is
\* gone when join_all has returned.
Service ==
    /\ nThreadsServicingQueue = IF service \in {"start", "gone"} THEN 0 ELSE 1
    /\ fRet /\ pc \in {"rpc", "wait"} \cup Waited => service = "gone"

Inv == Types /\ Counts /\ Order /\ Owners /\ Served /\ Service

-----------------------------------------------------------------------------
(* The steps of one component leave what the others rely on alone.         *)

\* Steps of the scheduler's thread and of the clock.
LEMMA ServiceFrame ==
    ASSUME Inv, UNCHANGED <<httpVars, pc, fRet>>, Service'
    PROVE  Inv'
<1> USE DEF httpVars, queueVars, loopVars
<1>1. Types' /\ Counts'
  BY Zenon DEF Inv, Types, Counts, Counted
<1>2. Order' /\ Owners' /\ Served'
  BY Zenon DEF Inv, Order, Owners, Served, AnswersKept
<1> QED BY Zenon, <1>1, <1>2 DEF Inv

\* serviceQueue, its wake-ups and the clock.
LEMMA ServiceSteps ==
    ASSUME Inv, pc # "end", ServiceStep \/ TimePasses \/ (SpuriousReturn /\ UNCHANGED <<httpVars, mainVars>>)
    PROVE  Inv'
<1>1. UNCHANGED <<httpVars, pc, fRet>>
  BY Zenon DEF ServiceStep, TimePasses, CallTask, mainVars
<1>2. Service'
  BY <1>1 DEF Inv, Service, ServiceStep, TimePasses, CallTask, StartService, BeginWait, TakeTask,
              TimedOut, ThrowInterrupted, FinishTask, SpuriousReturn, Tick
<1> QED BY Zenon, <1>1, <1>2, ServiceFrame

\* A worker is counted, and counted out.
LEMMA CountSteps ==
    ASSUME Inv, NEW w \in Workers, Count(w) \/ Leave(w), UNCHANGED <<schedulerVars, mainVars>>
    PROVE  Inv'
<1> USE DEF loopVars, schedulerVars, mainVars
<1>1. IsFiniteSet(Counted) /\ Cardinality(Counted) \in Nat
  BY Zenon, HTTPServerAssumption, FS_Subset, FS_CardinalityType DEF Counted
<1>2. /\ UNCHANGED <<queue, running, deleted, item, request, loopVars, schedulerVars, mainVars>>
      /\ \A v \in Workers : v # w => worker'[v] = worker[v]
      /\ worker' \in [Workers -> {"created", "fetch", "handle", "leave", "gone"}]
      /\ worker[w] # "handle"
      /\ \/ worker[w] = "created" /\ worker'[w] = "fetch" /\ numThreads' = numThreads + 1
         \/ worker[w] = "leave" /\ worker'[w] = "gone" /\ numThreads' = numThreads - 1
  BY DEF Count, Leave, Inv, Types
<1>3. numThreads' = Cardinality(Counted')
  <2>1. CASE worker[w] = "created"
    <3>1. w \notin Counted /\ Counted' = Counted \cup {w} /\ numThreads' = numThreads + 1
      BY <1>2, <2>1 DEF Counted
    <3> QED BY Zenon, <1>1, <3>1, FS_AddElement DEF Inv, Counts
  <2>2. CASE worker[w] = "leave"
    <3>1. w \in Counted /\ Counted' = Counted \ {w} /\ numThreads' = numThreads - 1
      BY Zenon, <1>2, <2>2 DEF Counted
    <3> QED BY Zenon, <1>1, <3>1, FS_RemoveElement DEF Inv, Counts
  <2> QED BY Zenon, <1>2, <2>1, <2>2
<1>4. Types' /\ Counts'
  BY Zenon, <1>2, <1>3 DEF Inv, Types, Counts
<1>5. Order'
  BY Zenon, <1>2 DEF Inv, Order
<1>6. Owners'
  BY <1>2 DEF Inv, Owners
<1>7. Served' /\ Service'
  BY <1>2 DEF Inv, Served, AnswersKept, Service
<1> QED BY Zenon, <1>4, <1>5, <1>6, <1>7 DEF Inv


\* A worker finds the queue interrupted or empty, or takes an item.
LEMMA FetchStep ==
    ASSUME Inv, NEW w \in Workers, Fetch(w), UNCHANGED <<schedulerVars, mainVars>>
    PROVE  Inv'
<1> USE DEF loopVars, schedulerVars, mainVars
<1>1. /\ worker[w] = "fetch"
      /\ UNCHANGED <<running, numThreads, deleted, loopVars, schedulerVars, mainVars>>
  BY Zenon DEF Fetch
<1>2. /\ \A v \in Workers : v # w => worker'[v] = worker[v] /\ item'[v] = item[v]
      /\ worker' \in [Workers -> {"created", "fetch", "handle", "leave", "gone"}]
      /\ worker'[w] \in {"fetch", "handle", "leave"}
  BY Zenon, <1>1 DEF Fetch, Inv, Types
<1>3. Counted' = Counted
  BY Zenon, <1>1, <1>2 DEF Counted
<1>4. ~(PromptThreads /\ pc \in Waited)
  BY Zenon, <1>1 DEF Inv, Order
<1>5. CASE UNCHANGED <<queue, item, request>>
  <2>1. Types' /\ Counts'
    BY Zenon, <1>1, <1>2, <1>3, <1>5 DEF Inv, Types, Counts
  <2>2. Order' /\ Service'
    BY <1>1, <1>4, <1>5 DEF Inv, Order, Service, Waited, Deleted
  <2>3. Owners' /\ Served'
    BY <1>1, <1>2, <1>5 DEF Inv, Owners, Served, AnswersKept
  <2> QED BY Zenon, <2>1, <2>2, <2>3 DEF Inv
<1>6. CASE queue # <<>> /\ worker' = [worker EXCEPT ![w] = "handle"]
           /\ item' = [item EXCEPT ![w] = Head(queue)]
           /\ request' = [request EXCEPT ![Head(queue)] = "handled"] /\ queue' = Tail(queue)
  <2>1. /\ Len(queue) \in Nat /\ Len(queue) > 0 /\ DOMAIN queue = 1..Len(queue)
        /\ Head(queue) = queue[1] /\ Head(queue) \in Requests /\ Tail(queue) \in Seq(Requests)
        /\ Len(Tail(queue)) = Len(queue) - 1 /\ DOMAIN Tail(queue) = 1..(Len(queue) - 1)
        /\ \A i \in 1..(Len(queue) - 1) : Tail(queue)[i] = queue[i + 1]
    BY <1>6 DEF Inv, Types
  <2>2. /\ worker'[w] = "handle" /\ item'[w] = Head(queue) /\ item' \in [Workers -> Requests \cup {NoRequest}]
        /\ request'[Head(queue)] = "handled"
        /\ request' \in [Requests -> {"none", "callback", "queued", "handled", "replied"}]
        /\ \A r \in Requests : r # Head(queue) => request'[r] = request[r]
    BY Zenon, <1>6, <2>1 DEF Inv, Types
  <2>3. Types'
    BY Zenon, <1>1, <1>2, <1>6, <2>1, <2>2 DEF Inv, Types
  <2>4. Counts'
    BY SMTT(30), <1>1, <1>3, <1>6, <2>1, HTTPServerAssumption DEF Inv, Counts
  <2>5. Order' /\ Service'
    BY <1>1, <1>4 DEF Inv, Order, Service, Waited, Deleted
  <2>6. ASSUME NEW r \in Requests, request'[r] = "queued" PROVE \E i \in DOMAIN queue' : queue'[i] = r
    <3>1. r # Head(queue) /\ request[r] = "queued"
      BY Zenon, <2>2, <2>6
    <3>2. PICK i \in DOMAIN queue : queue[i] = r
      BY Zenon, <3>1 DEF Inv, Owners
    <3>3. i - 1 \in 1..(Len(queue) - 1) /\ Tail(queue)[i - 1] = r
      BY <2>1, <3>1, <3>2
    <3> QED BY Zenon, <1>6, <2>1, <3>3
  <2>7. ASSUME NEW r \in Requests, request'[r] = "handled"
        PROVE  \E v \in Workers : worker'[v] = "handle" /\ item'[v] = r
    <3>1. CASE r = Head(queue)
      BY Zenon, <2>2, <3>1
    <3>2. CASE r # Head(queue)
      BY SMTT(30), <1>1, <1>2, <2>2, <2>7, <3>2 DEF Inv, Owners
    <3> QED BY Zenon, <3>1, <3>2
  <2>8. \A r \in Requests : request'[r] = "callback" => callback' = r
    BY <1>1, <2>2 DEF Inv, Owners
  <2>9. Served'
    BY Zenon, <1>1, <1>4 DEF Inv, Order, Served, AnswersKept, Waited
  <2> QED BY Zenon, <2>3, <2>4, <2>5, <2>6, <2>7, <2>8, <2>9 DEF Inv, Owners
<1> QED BY Zenon, <1>5, <1>6 DEF Fetch

\* A worker answers.
LEMMA HandleStep ==
    ASSUME Inv, NEW w \in Workers, HandleRequest(w)
    PROVE  Inv'
<1> USE DEF loopVars, queueVars, schedulerVars
<1>1. /\ worker[w] = "handle" /\ Reply({item[w]}) /\ item' = [item EXCEPT ![w] = NoRequest]
      /\ worker' = [worker EXCEPT ![w] = "fetch"]
      /\ UNCHANGED <<queueVars, waiting, loopVars, schedulerVars, pc, toSchedule, fRet, plz_stop>>
  BY Zenon DEF HandleRequest, Handle
<1>2. /\ \A v \in Workers : v # w => worker'[v] = worker[v] /\ item'[v] = item[v]
      /\ worker' \in [Workers -> {"created", "fetch", "handle", "leave", "gone"}]
      /\ item' \in [Workers -> Requests \cup {NoRequest}] /\ worker'[w] = "fetch"
  BY Zenon, <1>1 DEF Inv, Types
<1>3. /\ request' \in [Requests -> {"none", "callback", "queued", "handled", "replied"}]
      /\ \A r \in Requests : request'[r] = IF r = item[w] THEN "replied" ELSE request[r]
  BY Zenon, <1>1 DEF Reply, Inv, Types
<1>4. Counted' = Counted
  BY Zenon, <1>1, <1>2 DEF Counted
<1>5. ~(PromptThreads /\ pc \in Waited)
  BY Zenon, <1>1 DEF Inv, Order
<1>6. Types' /\ Counts'
  BY Zenon, <1>1, <1>2, <1>3, <1>4 DEF Inv, Types, Counts
<1>7. Order' /\ Service'
  BY Zenon, <1>1, <1>5 DEF Inv, Order, Service, Waited, Deleted
<1>8. Owners'
  BY <1>1, <1>2, <1>3 DEF Inv, Owners
<1>9. Served'
  BY Zenon, <1>1, <1>5 DEF Inv, Order, Served, AnswersKept, Waited
<1> QED BY Zenon, <1>6, <1>7, <1>8, <1>9 DEF Inv

\* A thread begins to wait, or wakes up for nothing.
LEMMA WakeStep ==
    ASSUME Inv, UNCHANGED <<queueVars, worker, item, request, loopVars, schedulerVars, mainVars>>
    PROVE  Inv'
<1> USE DEF loopVars, queueVars, schedulerVars, mainVars
<1>1. Types' /\ Counts'
  BY Zenon DEF Inv, Types, Counts, Counted
<1>2. Order' /\ Owners' /\ Served' /\ Service'
  BY Zenon DEF Inv, Order, Owners, Served, AnswersKept, Service
<1> QED BY Zenon, <1>1, <1>2 DEF Inv


-----------------------------------------------------------------------------
(* The event loop.                                                         *)

\* A request reaches the callback, or its answer is sent.
LEMMA RequestSteps ==
    ASSUME Inv, NEW r \in Requests, ReceiveRequest(r) \/ SendReply(r), UNCHANGED <<schedulerVars, mainVars>>
    PROVE  Inv'
<1> USE DEF queueVars, loopVars, schedulerVars, mainVars
<1>1. /\ UNCHANGED <<queueVars, waiting, worker, item, rejecting, registered, loop, schedulerVars, mainVars>>
      /\ loop # "exited" /\ callback = NoRequest
      /\ \/ ~rejecting /\ callback' = r /\ request' = [request EXCEPT ![r] = "callback"]
         \/ callback' = callback /\ request' = [request EXCEPT ![r] = "none"]
  BY Zenon DEF ReceiveRequest, SendReply, LoopOver
<1>2. /\ request' \in [Requests -> {"none", "callback", "queued", "handled", "replied"}]
      /\ \A q \in Requests : q # r => request'[q] = request[q]
      /\ request'[r] \in {"none", "callback"} /\ (request'[r] = "callback" => callback' = r)
  BY Zenon, <1>1 DEF Inv, Types
<1>3. Types' /\ Counts'
  BY Zenon, <1>1, <1>2 DEF Inv, Types, Counts, Counted
<1>4. Order' /\ Service'
  BY <1>1 DEF Inv, Order, Service, Waited, Rejecting
<1>5. Owners'
  <2>1. \A q \in Requests : request'[q] = "callback" => callback' = q
    BY Zenon, <1>1, <1>2, HTTPServerAssumption DEF Inv, Owners
  <2> QED BY SMTT(30), <1>1, <1>2, <2>1 DEF Inv, Owners
<1>6. Served'
  BY Zenon, <1>1 DEF Served, AnswersKept
<1> QED BY Zenon, <1>3, <1>4, <1>5, <1>6 DEF Inv

\* The rest of http_request_cb: refused, or one more item within the depth.
LEMMA DispatchStep ==
    ASSUME Inv, Dispatch, UNCHANGED <<schedulerVars, mainVars>>
    PROVE  Inv'
<1> USE DEF queueVars, loopVars, schedulerVars, mainVars
<1>1. /\ callback \in Requests /\ callback' = NoRequest
      /\ UNCHANGED <<running, numThreads, deleted, worker, item, rejecting, registered, loop, schedulerVars, mainVars>>
  BY Zenon DEF Dispatch, Inv, Types
<1>2. ~(PromptThreads /\ pc \in Waited)
  BY Zenon, <1>1, HTTPServerAssumption DEF Inv, Order
<1>3. Order' /\ Service'
  BY <1>1, <1>2 DEF Inv, Order, Service, Waited, Deleted
<1>4. Served'
  BY Zenon, <1>1, <1>2 DEF Inv, Order, Served, AnswersKept, Waited
<1>5. CASE Reply({callback}) /\ UNCHANGED queue
  <2>1. /\ request' \in [Requests -> {"none", "callback", "queued", "handled", "replied"}]
        /\ \A r \in Requests : request'[r] = IF r = callback THEN "replied" ELSE request[r]
    BY Zenon, <1>5 DEF Reply, Inv, Types
  <2>2. Types' /\ Counts'
    BY Zenon, <1>1, <1>5, <2>1 DEF Inv, Types, Counts, Counted
  <2>3. Owners'
    BY Zenon, <1>1, <1>5, <2>1 DEF Inv, Owners
  <2> QED BY Zenon, <1>3, <1>4, <2>2, <2>3 DEF Inv
<1>6. CASE ~Full /\ Enqueue(callback)
  <2>1. /\ queue' = Append(queue, callback) /\ request' = [request EXCEPT ![callback] = "queued"]
        /\ Len(queue) < maxDepth
    BY <1>6, HTTPServerAssumption DEF Full, Enqueue, Inv, Types
  <2>2. /\ queue' \in Seq(Requests) /\ Len(queue') = Len(queue) + 1 /\ Len(queue) \in Nat
        /\ DOMAIN queue = 1..Len(queue) /\ DOMAIN queue' = 1..(Len(queue) + 1)
        /\ queue'[Len(queue) + 1] = callback /\ \A i \in 1..Len(queue) : queue'[i] = queue[i]
    BY <1>1, <2>1 DEF Inv, Types
  <2>3. /\ request' \in [Requests -> {"none", "callback", "queued", "handled", "replied"}]
        /\ request'[callback] = "queued" /\ \A r \in Requests : r # callback => request'[r] = request[r]
    BY Zenon, <1>1, <2>1 DEF Inv, Types
  <2>4. Types'
    BY Zenon, <1>1, <2>2, <2>3 DEF Inv, Types
  <2>5. Counts'
    BY <1>1, <2>1, <2>2, HTTPServerAssumption DEF Inv, Counts, Counted
  <2>6. ASSUME NEW r \in Requests, request'[r] = "queued" PROVE \E i \in DOMAIN queue' : queue'[i] = r
    <3>1. CASE r = callback
      BY <2>2, <3>1
    <3>2. CASE r # callback
      <4>1. PICK i \in DOMAIN queue : queue[i] = r
        BY Zenon, <2>3, <2>6, <3>2 DEF Inv, Owners
      <4> QED BY <2>2, <4>1
    <3> QED BY Zenon, <3>1, <3>2
  <2>7. \A r \in Requests : request'[r] # "callback"
    BY Zenon, <2>3 DEF Inv, Owners
  <2>8. \A r \in Requests : request'[r] = "handled" => \E v \in Workers : worker'[v] = "handle" /\ item'[v] = r
    BY Zenon, <1>1, <2>3 DEF Inv, Owners
  <2> QED BY SMTT(30), <1>3, <1>4, <2>4, <2>5, <2>6, <2>7, <2>8 DEF Inv, Owners
<1> QED BY Zenon, <1>5, <1>6 DEF Dispatch

\* The loop ends: whatever was asked for has been answered when it was not
\* broken.
LEMMA LoopEndsStep ==
    ASSUME Inv, LoopEnds, UNCHANGED <<schedulerVars, mainVars>>
    PROVE  Inv'
<1> USE DEF queueVars, loopVars, schedulerVars, mainVars
<1>1. /\ UNCHANGED <<queueVars, waiting, worker, item, request, callback, rejecting, registered, schedulerVars, mainVars>>
      /\ callback = NoRequest /\ loop \in {"exit", "break"}
      /\ loop' = "exited" => Active = {}
  BY Zenon DEF LoopEnds
<1>2. Types' /\ Counts'
  BY Zenon, <1>1 DEF Inv, Types, Counts, Counted
<1>3. Order' /\ Service' /\ Owners'
  BY <1>1 DEF Inv, Order, Service, Owners
<1>4. Served'
  <2> SUFFICES ASSUME PromptThreads, loop' = "exited", NEW r \in Requests PROVE request[r] = "none"
    BY Zenon, <1>1 DEF Served, AnswersKept
  <2>1. pc \in {"loop", "end"}
    BY Zenon, <1>1 DEF Inv, Order
  <2>2. queue = <<>> /\ \A w \in Workers : worker[w] = "gone"
    BY Zenon, <2>1 DEF Inv, Order, Waited, Deleted
  <2>3. DOMAIN queue = {}
    BY <2>2
  <2>4. request[r] # "queued" /\ request[r] # "handled"
    BY Zenon, <2>2, <2>3 DEF Inv, Owners
  <2>5. request[r] # "callback"
    BY Zenon, <1>1, HTTPServerAssumption DEF Inv, Owners
  <2>6. request[r] # "replied"
    BY Zenon, <1>1 DEF Active
  <2> QED BY Zenon, <2>4, <2>5, <2>6 DEF Inv, Types
<1> QED BY Zenon, <1>2, <1>3, <1>4 DEF Inv


-----------------------------------------------------------------------------
(* The main thread.                                                        *)

\* Steps that leave the workers, the queue and the requests alone.
LEMMA MainFrame ==
    ASSUME Inv, UNCHANGED <<queue, numThreads, worker, item, request, callback>>,
           pc' \in {"init", "run", "interrupt"} \cup Rejecting, Order', Service', Served'
    PROVE  Inv'
<1>1. Types' /\ Counts'
  BY Zenon DEF Inv, Types, Counts, Counted
<1>2. Owners'
  BY Zenon DEF Inv, Owners
<1> QED BY Zenon, <1>1, <1>2 DEF Inv

\* Until the main thread interrupts the HTTP server.
LEMMA StartSteps ==
    ASSUME Inv, StartNode \/ AppInitDone \/ AppInitFailed \/ WaitForShutdown
    PROVE  Inv'
<1>1. CASE StartNode
  <2>1. UNCHANGED <<httpVars, pc, fRet>>
    BY Zenon, <1>1 DEF StartNode
  <2>2. Service'
    BY <1>1, <2>1 DEF StartNode, scheduleEvery, Inv, Service
  <2> QED BY Zenon, <2>1, <2>2, ServiceFrame
<1>2. CASE AppInitDone \/ AppInitFailed \/ WaitForShutdown
  <2>1. /\ UNCHANGED <<queue, numThreads, deleted, worker, item, request, callback, rejecting, loop, nThreadsServicingQueue, service>>
        /\ pc \in {"init", "run"} /\ pc' \in {"run", "interrupt"}
    BY Zenon, <1>2 DEF AppInitDone, AppInitFailed, AppInitReturns, WaitForShutdown, Goto, httpVars, queueVars, loopVars, schedulerVars
  <2>2. Order' /\ Service'
    BY <2>1 DEF Inv, Order, Service, Rejecting, Waited, Deleted
  <2>3. Served'
    BY Zenon, <2>1 DEF Inv, Served, AnswersKept
  <2> QED BY Zenon, <2>1, <2>2, <2>3, MainFrame
<1> QED BY Zenon, <1>1, <1>2

\* Interrupt, join_all and StopHTTPRPC.
LEMMA InterruptSteps ==
    ASSUME Inv, InterruptHTTPServer \/ InterruptThreadGroup \/ JoinAll \/ StopHTTPRPC
    PROVE  Inv'
<1> USE DEF httpVars, queueVars, loopVars, schedulerVars, Goto
<1>1. /\ UNCHANGED <<queue, numThreads, deleted, worker, item, request, callback, loop, nThreadsServicingQueue, service, fRet>>
      /\ pc \in {"interrupt", "queue", "group", "join", "rpc"} /\ pc' \in {"queue", "group", "join", "rpc", "wait"}
  BY Zenon DEF InterruptHTTPServer, InterruptThreadGroup, JoinAll, StopHTTPRPC, RejectRequests, Interrupt,
         InterruptService, UnregisterHTTPHandler
<1>2. rejecting'
  <2>1. CASE InterruptHTTPServer
    BY Zenon, <2>1 DEF InterruptHTTPServer, RejectRequests, Interrupt, Inv, Order, Rejecting
  <2>2. CASE InterruptThreadGroup \/ JoinAll \/ StopHTTPRPC
    BY Zenon, <2>2 DEF InterruptThreadGroup, JoinAll, StopHTTPRPC, UnregisterHTTPHandler, Inv, Order, Rejecting
  <2> QED BY Zenon, <2>1, <2>2
<1>3. Order'
  BY Zenon, <1>1, <1>2 DEF Inv, Order, Waited, Deleted
<1>4. Service'
  <2>1. fRet' /\ pc' \in {"rpc", "wait"} => service = "gone"
    BY Zenon DEF InterruptHTTPServer, InterruptThreadGroup, JoinAll, StopHTTPRPC, Inv, Service
  <2> QED BY Zenon, <1>1, <2>1 DEF Inv, Service, Waited
<1>5. Served'
  BY Zenon, <1>1 DEF Inv, Served, AnswersKept
<1>6. pc' \in {"init", "run", "interrupt"} \cup Rejecting
  BY Zenon, <1>1 DEF Rejecting
<1> QED BY Zenon, <1>1, <1>3, <1>4, <1>5, <1>6, MainFrame

\* No worker is counted: those that have started are gone.
LEMMA NobodyCounted ==
    ASSUME Inv, numThreads = 0, NEW w \in Workers
    PROVE  worker[w] \in {"created", "gone"}
<1>1. IsFiniteSet(Counted)
  BY Zenon, HTTPServerAssumption, FS_Subset DEF Counted
<1>2. Counted = {}
  BY Zenon, <1>1, FS_EmptySet DEF Inv, Counts
<1> QED BY Zenon, <1>2 DEF Counted, Inv, Types

\* StopHTTPServer up to the end of WaitExit.
LEMMA WaitExitStep ==
    ASSUME Inv, WaitExit
    PROVE  Inv'
<1>1. CASE WaitExitSleeps /\ UNCHANGED <<schedulerVars, mainVars>>
  BY Zenon, <1>1, WakeStep DEF WaitExitSleeps
<1>2. CASE ExitSeen /\ Goto("wait", "delete") /\ UNCHANGED <<httpVars, schedulerVars>>
  <2> USE DEF httpVars, queueVars, loopVars, schedulerVars, Goto
  <2>1. /\ UNCHANGED <<queue, numThreads, deleted, worker, item, request, callback, rejecting, loop, nThreadsServicingQueue, service, fRet>>
        /\ pc = "wait" /\ pc' = "delete"
    BY <1>2
  <2>2. PromptThreads => callback = NoRequest /\ \A w \in Workers : worker[w] = "gone"
    BY Zenon, <1>2, NobodyCounted DEF WaitExit, GotOn, ExitSeen
  <2>3. Order'
    BY Zenon, <2>1, <2>2 DEF Inv, Order, Rejecting, Waited, Deleted
  <2>4. Service' /\ Served'
    BY <2>1 DEF Inv, Service, Served, AnswersKept, Waited
  <2>5. pc' \in {"init", "run", "interrupt"} \cup Rejecting
    BY Zenon, <2>1 DEF Rejecting
  <2> QED BY Zenon, <2>1, <2>3, <2>4, <2>5, MainFrame
<1> QED BY <1>1, <1>2 DEF WaitExit

\* ~WorkQueue answers what is left in the queue.
LEMMA DeleteStep ==
    ASSUME Inv, Goto("delete", "exit"), DeleteQueue, UNCHANGED schedulerVars
    PROVE  Inv'
<1> USE DEF loopVars, schedulerVars, Goto
<1>1. /\ UNCHANGED <<running, numThreads, waiting, worker, item, loopVars, schedulerVars, fRet>>
      /\ pc = "delete" /\ pc' = "exit" /\ queue' = <<>> /\ deleted'
      /\ request' = [r \in Requests |-> IF \E i \in DOMAIN queue : queue[i] = r THEN "replied" ELSE request[r]]
  BY Zenon DEF DeleteQueue, Reply
<1>2. /\ request' \in [Requests -> {"none", "callback", "queued", "handled", "replied"}]
      /\ \A r \in Requests : request'[r] # "replied" => request'[r] = request[r]
      /\ \A r \in Requests : request'[r] # "queued"
  <2>1. \A r \in Requests : request'[r] = IF \E i \in DOMAIN queue : queue[i] = r THEN "replied" ELSE request[r]
    BY Zenon, <1>1
  <2> QED BY Zenon, <1>1, <2>1 DEF Inv, Types, Owners
<1>3. Types'
  BY SMTT(30), <1>1, <1>2 DEF Inv, Types, Rejecting
<1>4. Counts'
  BY SMTT(30), <1>1, HTTPServerAssumption DEF Inv, Counts, Counted
<1>5. Order' /\ Service'
  BY SMTT(30), <1>1 DEF Inv, Order, Service, Rejecting, Waited, Deleted
<1>6. Owners'
  BY SMTT(30), <1>1, <1>2 DEF Inv, Owners
<1>7. Served'
  BY Zenon, <1>1 DEF Inv, Order, Served, AnswersKept
<1> QED BY Zenon, <1>3, <1>4, <1>5, <1>6, <1>7 DEF Inv

\* The loop is asked to end and joined.
LEMMA LoopSteps ==
    ASSUME Inv,
           \/ Goto("exit", "loop") /\ AskLoop("exit")
           \/ LoopOver /\ Goto("loop", "end") /\ UNCHANGED httpVars
           \/ loop = "exit" /\ pc = "loop" /\ AskLoop("break") /\ UNCHANGED mainVars,
           UNCHANGED schedulerVars
    PROVE  Inv'
<1> USE DEF httpVars, queueVars, loopVars, schedulerVars, mainVars, Goto
<1>1. /\ UNCHANGED <<queue, numThreads, deleted, worker, item, request, callback, rejecting, nThreadsServicingQueue, service, fRet>>
      /\ pc \in {"exit", "loop"} /\ pc' \in {"loop", "end"}
      /\ loop' = "exited" => loop = "exited"
  BY Zenon DEF AskLoop, LoopOver
<1>2. Order' /\ Service'
  BY Zenon, <1>1 DEF Inv, Order, Service, Rejecting, Waited, Deleted
<1>3. Served'
  BY Zenon, <1>1 DEF Inv, Served, AnswersKept
<1>4. pc' \in {"init", "run", "interrupt"} \cup Rejecting
  BY Zenon, <1>1 DEF Rejecting
<1> QED BY Zenon, <1>1, <1>2, <1>3, <1>4, MainFrame


-----------------------------------------------------------------------------
(* The invariant holds, and what follows from it.                          *)

\* InitHTTPServer and StartHTTPServer leave everything empty and uncounted.
LEMMA InitInv == Init => Inv
<1> SUFFICES ASSUME Init PROVE Inv
  BY Zenon
<1> USE DEF Init, HTTPInit, SchedulerInit
<1>1. Counted = {}
  BY Zenon DEF Counted
<1>2. Types /\ Counts
  BY <1>1, FS_EmptySet, HTTPServerAssumption DEF Types, Counts
<1>3. Order /\ Owners /\ Served /\ Service
  BY Zenon DEF Order, Owners, Served, AnswersKept, Service, Rejecting, Waited, Deleted
<1> QED BY Zenon, <1>2, <1>3 DEF Inv

(* Every step of a worker, the event loop, the scheduler's thread and the  *)
(* main thread keeps the inductive invariant.                              *)
THEOREM Invariance == Spec => []Inv
<1>1. ASSUME Inv, [Next]_vars PROVE Inv'
  <2>1. CASE LoopStep
    BY SMTT(30), <1>1, <2>1, RequestSteps, DispatchStep, LoopEndsStep DEF LoopStep
  <2>2. ASSUME NEW w \in Workers, WorkerStep(w) PROVE Inv'
    BY Zenon, <1>1, <2>2, CountSteps, FetchStep, HandleStep DEF WorkerStep
  <2>3. CASE pc # "end" /\ (ServiceStep \/ TimePasses)
    BY <1>1, <2>3, ServiceSteps
  <2>4. CASE StartNode \/ AppInitDone \/ AppInitFailed \/ WaitForShutdown
    BY Zenon, <1>1, <2>4, StartSteps
  <2>5. CASE InterruptHTTPServer \/ InterruptThreadGroup \/ JoinAll \/ StopHTTPRPC
    BY Zenon, <1>1, <2>5, InterruptSteps
  <2>6. CASE WaitExit
    BY <1>1, <2>6, WaitExitStep
  <2>7. CASE StopHTTPServer \/ JoinLoop
    BY Zenon, <1>1, <2>7, DeleteStep, LoopSteps DEF StopHTTPServer, JoinLoop
  <2>8. CASE pc # "end" /\ Spurious
    <3>1. CASE \E t \in Workers \cup {main} : SpuriousWake(t) /\ UNCHANGED <<schedulerVars, mainVars>>
      BY Zenon, <1>1, <3>1, WakeStep DEF SpuriousWake
    <3> QED BY SMTT(30), <1>1, <2>8, <3>1, ServiceSteps DEF Spurious
  <2>9. CASE CreateFile \/ HandleSIGTERM
    <3>1. UNCHANGED <<httpVars, pc, fRet>> /\ Service'
      BY SMTT(30), <1>1, <2>9 DEF CreateFile, HandleSIGTERM, schedulerVars, Inv, Service
    <3> QED BY <1>1, <3>1, ServiceFrame
  <2>10. CASE UNCHANGED vars
    <3>1. UNCHANGED <<httpVars, pc, fRet>> /\ Service'
      BY Zenon, <1>1, <2>10 DEF vars, mainVars, schedulerVars, Inv, Service
    <3> QED BY Zenon, <1>1, <3>1, ServiceFrame
  <2> QED BY SMTT(30), <1>1, <2>1, <2>2, <2>3, <2>4, <2>5, <2>6, <2>7, <2>8, <2>9, <2>10 DEF Next, MainStep
<1> QED BY <1>1, InitInv, PTL DEF Spec

(* StopHTTPServer deletes the work queue only when no worker and no        *)
(* callback uses it, provided that started threads and the callback get on *)
(* before the main thread looks.                                           *)
THEOREM QueueDeletedLast == Spec => [](PromptThreads => QueueOutlivesUsers)
<1>1. Inv => (PromptThreads => QueueOutlivesUsers)
  BY Zenon DEF Inv, Order, QueueOutlivesUsers, Waited, Deleted
<1> QED BY <1>1, Invariance, PTL

(* Under the same proviso a loop that exits by itself leaves no request    *)
(* that reached the callback without an answer.                            *)
THEOREM NobodyLeftWaiting == Spec => [](PromptThreads => AnswersKept)
<1>1. Inv => (PromptThreads => AnswersKept)
  BY Zenon DEF Inv, Served
<1> QED BY <1>1, Invariance, PTL

(* WorkQueue::Enqueue never lets the queue grow past -rpcworkqueue.        *)
THEOREM DepthKept == Spec => []QueueBounded
<1>1. Inv => QueueBounded
  BY Zenon DEF Inv, Counts, QueueBounded
<1> QED BY <1>1, Invariance, PTL

(* The assertion in ~CScheduler holds after a start that did not fail,     *)
(* whatever tasks are scheduled and wherever the interrupt finds the       *)
(* thread.                                                                 *)
THEOREM SchedulerAssertion == Spec => []SchedulerStopped
<1>1. Inv => SchedulerStopped
  BY Zenon DEF Inv, Service, SchedulerStopped, Waited
<1> QED BY <1>1, Invariance, PTL

-----------------------------------------------------------------------------
(* The scheduler's clock.                                                  *)

\* While the thread sleeps, what it waits for is the time of the first task.
Clock ==
    /\ taskQueue \in Seq([task : Tasks, left : Nat])
    /\ service = "call" => function \in Tasks
    /\ toSchedule \in Seq(Tasks)
    /\ service = "until" => taskQueue # <<>> /\ timeToWaitFor = taskQueue[1].left

\* What a sequence of elements of a set is.
LEMMA SequenceFacts ==
    ASSUME NEW E, NEW s \in Seq(E)
    PROVE  /\ Len(s) \in Nat /\ DOMAIN s = 1..Len(s) /\ \A i \in 1..Len(s) : s[i] \in E
           /\ s # <<>> => Head(s) \in E /\ Head(s) = s[1] /\ Tail(s) \in Seq(E)
  OBVIOUS

\* A task is put into the queue.
LEMMA InsertKeeps ==
    ASSUME taskQueue \in Seq([task : Tasks, left : Nat]), NEW t \in Tasks, Insert(t)
    PROVE  taskQueue' \in Seq([task : Tasks, left : Nat])
<1> DEFINE E == [task : Tasks, left : Nat]
           e == [task |-> t, left |-> Delta[t]]
<1>1. e \in E
  BY SchedulerAssumption
<1>2. PICK n \in 0..Len(taskQueue) :
         taskQueue' = [i \in 1..Len(taskQueue) + 1 |->
                         IF i <= n THEN taskQueue[i] ELSE IF i = n + 1 THEN e ELSE taskQueue[i - 1]]
  BY Zenon DEF Insert
<1> HIDE DEF E, e
<1>3. Len(taskQueue) \in Nat /\ \A i \in 1..Len(taskQueue) : taskQueue[i] \in E
  BY Zenon, SequenceFacts DEF E
<1>4. taskQueue' \in [1..Len(taskQueue) + 1 -> E]
  BY <1>1, <1>2, <1>3
<1>5. Len(taskQueue) + 1 \in Nat
  BY <1>3
<1>6. taskQueue' \in Seq(E)
  BY <1>4, <1>5
<1> QED BY <1>6 DEF E


\* serviceQueue and the clock.
LEMMA ClockSteps ==
    ASSUME Clock, ServiceStep \/ TimePasses \/ SpuriousReturn, UNCHANGED toSchedule
    PROVE  Clock'
<1> DEFINE E == [task : Tasks, left : Nat]
<1>0. taskQueue \in Seq(E)
  BY DEF Clock
<1>1. CASE StartService \/ ThrowInterrupted \/ SpuriousReturn
  BY <1>1 DEF Clock, StartService, ThrowInterrupted, SpuriousReturn
<1>2. CASE BeginWait
  <2>1. taskQueue # <<>> => Head(taskQueue) = taskQueue[1]
    BY <1>0
  <2> QED BY <1>2, <2>1 DEF Clock, BeginWait
<1>3. CASE TakeTask
  <2>1. taskQueue # <<>> /\ taskQueue' = Tail(taskQueue) /\ service' = "call" /\ function' = Head(taskQueue).task
    BY <1>3 DEF TakeTask
  <2>2. Tail(taskQueue) \in Seq(E) /\ Head(taskQueue) \in E
    BY Zenon, <1>0, <2>1, SequenceFacts
  <2>3. function' \in Tasks
    BY <2>1, <2>2
  <2> QED BY Zenon, <2>1, <2>2, <2>3 DEF Clock
<1>4. CASE CallTask
  <2>1. function \in Tasks /\ Insert(function) /\ service' = "loop"
    BY Zenon, <1>4 DEF CallTask, FinishTask, Clock
  <2>2. taskQueue' \in Seq(E)
    BY Zenon, <1>0, <2>1, InsertKeeps
  <2> QED BY Zenon, <2>1, <2>2 DEF Clock
<1>5. CASE Tick
  <2> DEFINE Less(e) == [e EXCEPT !.left = IF @ > 0 THEN @ - 1 ELSE 0]
  <2>1. /\ taskQueue' = [i \in DOMAIN taskQueue |-> Less(taskQueue[i])]
        /\ timeToWaitFor' = IF timeToWaitFor > 0 THEN timeToWaitFor - 1 ELSE 0
        /\ UNCHANGED <<service, function>>
    BY Zenon, <1>5 DEF Tick
  <2>2. ASSUME NEW e \in E PROVE Less(e) \in E /\ Less(e).left = IF e.left > 0 THEN e.left - 1 ELSE 0
    BY <2>2
  <2>3. Len(taskQueue) \in Nat /\ DOMAIN taskQueue = 1..Len(taskQueue) /\ \A i \in 1..Len(taskQueue) : taskQueue[i] \in E
    BY Zenon, <1>0, SequenceFacts
  <2> HIDE DEF Less, E
  <2>4. taskQueue' \in [1..Len(taskQueue) -> E]
    BY Zenon, <2>1, <2>2, <2>3
  <2>5. taskQueue' \in Seq(E) /\ Len(taskQueue') = Len(taskQueue)
    BY <2>3, <2>4
  <2>6. ASSUME service = "until" PROVE taskQueue' # <<>> /\ timeToWaitFor' = taskQueue'[1].left
    <3>1. taskQueue # <<>> /\ timeToWaitFor = taskQueue[1].left
      BY Zenon, <2>6 DEF Clock
    <3>2. 1 \in 1..Len(taskQueue)
      BY <1>0, <2>3, <3>1
    <3>3. taskQueue'[1] = Less(taskQueue[1]) /\ taskQueue[1] \in E
      BY Zenon, <2>1, <2>3, <3>2
    <3>4. taskQueue' # <<>>
      BY <2>3, <2>5, <3>2
    <3> QED BY Zenon, <2>1, <2>2, <3>1, <3>3, <3>4
  <2> QED BY Zenon, <2>1, <2>5, <2>6 DEF Clock, E
<1> QED BY Zenon, <1>1, <1>2, <1>3, <1>4, <1>5 DEF ServiceStep, TimePasses

\* The tasks that StartNode schedules, in some order.
LEMMA InitClock == Init => Clock
<1> SUFFICES ASSUME Init PROVE Clock
  BY Zenon
<1>1. Cardinality(Tasks) \in Nat /\ \E s : s \in Bijection(1..Cardinality(Tasks), Tasks)
  BY Zenon, NodeThreadsAssumption, FS_CardinalityType DEF ExistsBijection
<1>2. toSchedule \in Bijection(1..Cardinality(Tasks), Tasks)
  BY Zenon, <1>1 DEF Init
<1>3. toSchedule \in [1..Cardinality(Tasks) -> Tasks]
  BY Zenon, <1>2 DEF Bijection, Injection, Surjection
<1>4. toSchedule \in Seq(Tasks)
  BY <1>1, <1>3
<1> QED BY <1>4 DEF Clock, Init, SchedulerInit

(* serviceQueue never calls a task before its time, whatever the tasks and *)
(* their intervals, whoever schedules meanwhile and however often the wait *)
(* is cut short.                                                           *)
THEOREM TasksInTime == Spec => NeverEarly
<1>1. ASSUME Clock, [Next]_vars PROVE Clock'
  <2>1. CASE ServiceStep \/ TimePasses \/ (SpuriousReturn /\ UNCHANGED <<httpVars, mainVars>>)
    <3>1. UNCHANGED toSchedule
      BY Zenon, <2>1 DEF ServiceStep, TimePasses, CallTask, mainVars
    <3> QED BY Zenon, <1>1, <2>1, <3>1, ClockSteps
  <2>2. CASE StartNode
    <3>1. /\ toSchedule # <<>> /\ toSchedule \in Seq(Tasks) /\ toSchedule' = Tail(toSchedule)
          /\ Insert(Head(toSchedule)) /\ service' # "until" /\ (service' = "call" => service = "call") /\ UNCHANGED function
      BY Zenon, <1>1, <2>2 DEF StartNode, scheduleEvery, Clock
    <3>2. Head(toSchedule) \in Tasks /\ Tail(toSchedule) \in Seq(Tasks)
      BY <3>1
    <3>3. taskQueue' \in Seq([task : Tasks, left : Nat])
      BY Zenon, <1>1, <3>1, <3>2, InsertKeeps DEF Clock
    <3> QED BY Zenon, <1>1, <3>1, <3>2, <3>3 DEF Clock
  <2>3. CASE UNCHANGED <<taskQueue, service, timeToWaitFor, function, toSchedule>>
    BY Zenon, <1>1, <2>3 DEF Clock
  <2>4. CASE LoopStep \/ (\E w \in Workers : WorkerStep(w)) \/ CreateFile \/ HandleSIGTERM \/ UNCHANGED vars
    BY Zenon, <2>3, <2>4 DEF LoopStep, WorkerStep, HandleRequest, CreateFile, HandleSIGTERM, vars, schedulerVars, mainVars
  <2>5. CASE AppInitDone \/ AppInitFailed \/ WaitForShutdown \/ InterruptHTTPServer \/ InterruptThreadGroup \/ JoinAll
    BY Zenon, <2>3, <2>5 DEF AppInitDone, AppInitFailed, AppInitReturns, WaitForShutdown, InterruptHTTPServer,
         InterruptThreadGroup, InterruptService, JoinAll, Goto, schedulerVars
  <2>6. CASE StopHTTPRPC \/ WaitExit \/ StopHTTPServer \/ JoinLoop
    BY Zenon, <2>3, <2>6 DEF StopHTTPRPC, WaitExit, StopHTTPServer, JoinLoop, Goto, schedulerVars, mainVars
  <2>7. CASE \E t \in Workers \cup {main} : SpuriousWake(t) /\ UNCHANGED <<schedulerVars, mainVars>>
    BY Zenon, <2>3, <2>7 DEF schedulerVars, mainVars
  <2> QED BY Zenon, <1>1, <2>1, <2>2, <2>4, <2>5, <2>6, <2>7 DEF Next, MainStep, Spurious
<1>2. ASSUME Clock, [Next]_vars, service = "until", service' = "call" PROVE Head(taskQueue).left = 0
  <2>1. ~UNCHANGED service
    BY Zenon, <1>2
  <2>2. ServiceStep \/ TimePasses \/ StartNode \/ (SpuriousReturn /\ UNCHANGED <<httpVars, mainVars>>)
    <3>1. ~(LoopStep \/ (\E w \in Workers : WorkerStep(w)) \/ CreateFile \/ HandleSIGTERM \/ UNCHANGED vars)
      BY Zenon, <2>1 DEF LoopStep, WorkerStep, HandleRequest, CreateFile, HandleSIGTERM, vars, schedulerVars
    <3>2. ~(AppInitDone \/ AppInitFailed \/ WaitForShutdown \/ InterruptHTTPServer \/ InterruptThreadGroup \/ JoinAll)
      BY Zenon, <2>1 DEF AppInitDone, AppInitFailed, AppInitReturns, WaitForShutdown, InterruptHTTPServer,
           InterruptThreadGroup, InterruptService, JoinAll, schedulerVars
    <3>3. ~(StopHTTPRPC \/ WaitExit \/ StopHTTPServer \/ JoinLoop)
      BY Zenon, <2>1 DEF StopHTTPRPC, WaitExit, StopHTTPServer, JoinLoop, schedulerVars
    <3>4. ~\E t \in Workers \cup {main} : SpuriousWake(t) /\ UNCHANGED <<schedulerVars, mainVars>>
      BY Zenon, <2>1 DEF schedulerVars
    <3> QED BY Zenon, <1>2, <3>1, <3>2, <3>3, <3>4 DEF Next, MainStep, Spurious
  <2>3. TakeTask
    BY Zenon, <1>2, <2>2 DEF ServiceStep, TimePasses, StartNode, SpuriousReturn, Tick, scheduleEvery, StartService,
         BeginWait, ThrowInterrupted, CallTask, FinishTask
  <2>4. taskQueue # <<>> /\ taskQueue[1].left = 0
    BY Zenon, <1>2, <2>3 DEF Clock, TakeTask, TimedOut
  <2>5. Head(taskQueue) = taskQueue[1]
    BY Zenon, <1>2, <2>4, SequenceFacts DEF Clock
  <2> QED BY Zenon, <2>4, <2>5
<1>3. Clock /\ [Next]_vars => [service = "until" /\ service' = "call" => Head(taskQueue).left = 0]_vars
  BY Zenon, <1>2
<1> QED BY <1>1, <1>3, InitClock, PTL DEF Spec, NeverEarly
=============================================================================
