----------------------------- MODULE HTTPServer -----------------------------
(***************************************************************************)
(* The HTTP server (src/src/httpserver.cpp): the event loop that receives  *)
(* requests, the bounded WorkQueue, its worker threads, and the calls that *)
(* take it down.  NodeThreads runs it with the main thread.                *)
(*                                                                         *)
(* A request is a client that waits for one answer at a time.  Every scope *)
(* of the queue's lock is one step; the unlocked test of "running" before  *)
(* it decides nothing that the test under the lock does not.               *)
(***************************************************************************)
EXTENDS Integers, Sequences, FiniteSets

CONSTANTS
    Workers,            \* -rpcthreads detached threads
    Requests,
    maxDepth,           \* -rpcworkqueue
    NoRequest,
    main                \* the main thread, where it waits on the same condition

\* InitHTTPServer raises -rpcworkqueue and StartHTTPServer -rpcthreads to 1.
ASSUME HTTPServerAssumption ==
    /\ IsFiniteSet(Workers) /\ Workers # {} /\ main \notin Workers
    /\ maxDepth \in Nat \ {0} /\ NoRequest \notin Requests

VARIABLES
    \* WorkQueue
    queue, running, numThreads,
    deleted,            \* the destructor has run
    waiting,            \* threads asleep on cond
    worker, item,       \* what each worker does, and its WorkItem
    \* the event loop
    request,            \* where each request is
    callback,           \* the request http_request_cb is at work on
    rejecting,          \* http_reject_request_cb is the callback
    registered,         \* pathHandlers is not empty
    loop                \* the thread: it "runs", is asked to "exit" or "break", has
                        \* "exited" or was "broken"

queueVars == <<queue, running, numThreads, deleted>>
loopVars == <<callback, rejecting, registered, loop>>
httpVars == <<queueVars, waiting, worker, item, request, loopVars>>

HTTPTypeOK ==
    /\ queue \in Seq(Requests) /\ {running, deleted, rejecting, registered} \subseteq BOOLEAN
    /\ numThreads \in 0..Cardinality(Workers)
    /\ waiting \subseteq Workers \cup {main}
    /\ worker \in [Workers -> {"created", "fetch", "handle", "leave", "gone"}]
    /\ item \in [Workers -> Requests \cup {NoRequest}]
    /\ request \in [Requests -> {"none", "callback", "queued", "handled", "replied"}]
    /\ callback \in Requests \cup {NoRequest}
    /\ loop \in {"runs", "exit", "break", "exited", "broken"}

\* InitHTTPServer, StartHTTPServer.
HTTPInit ==
    /\ queue = <<>> /\ running = TRUE /\ numThreads = 0 /\ deleted = FALSE
    /\ waiting = {}
    /\ worker = [w \in Workers |-> "created"] /\ item = [w \in Workers |-> NoRequest]
    /\ request = [r \in Requests |-> "none"]
    /\ callback = NoRequest /\ rejecting = FALSE /\ registered = TRUE /\ loop = "runs"

NotifyNobody == UNCHANGED waiting
NotifyOne == IF waiting = {} THEN UNCHANGED waiting ELSE \E t \in waiting : waiting' = waiting \ {t}

NotifyAll == waiting' = {}

LoopOver == loop \in {"exited", "broken"}

\* WriteReply: the reply is an event for the loop.
Reply(rs) == request' = [r \in Requests |-> IF r \in rs THEN "replied" ELSE request[r]]

-----------------------------------------------------------------------------
(* The worker threads: WorkQueue::Run *)

\* ThreadCounter()
Count(w) ==
    /\ worker[w] = "created"
    /\ numThreads' = numThreads + 1
    /\ worker' = [worker EXCEPT ![w] = "fetch"]
    /\ UNCHANGED <<queue, running, deleted, waiting, item, request, loopVars>>

Fetch(w) ==
    /\ worker[w] = "fetch" /\ w \notin waiting
    /\ \/ /\ ~running
          /\ worker' = [worker EXCEPT ![w] = "leave"]
          /\ UNCHANGED <<queue, waiting, item, request>>
       \/ /\ running /\ queue = <<>>
          /\ waiting' = waiting \cup {w}
          /\ UNCHANGED <<queue, worker, item, request>>
       \/ /\ running /\ queue # <<>>
          /\ item' = [item EXCEPT ![w] = Head(queue)]
          /\ request' = [request EXCEPT ![Head(queue)] = "handled"]
          /\ queue' = Tail(queue)
          /\ worker' = [worker EXCEPT ![w] = "handle"]
          /\ UNCHANGED waiting
    /\ UNCHANGED <<running, numThreads, deleted, loopVars>>

SpuriousWake(t) ==
    /\ t \in waiting
    /\ waiting' = waiting \ {t}
    /\ UNCHANGED <<queueVars, worker, item, request, loopVars>>

\* The handler writes a reply, and the item is deleted.
Handle(w) ==
    /\ worker[w] = "handle"
    /\ Reply({item[w]})
    /\ item' = [item EXCEPT ![w] = NoRequest]
    /\ worker' = [worker EXCEPT ![w] = "fetch"]
    /\ UNCHANGED <<queueVars, waiting, loopVars>>

LeaveQuietly(w) ==
    /\ worker[w] = "leave"
    /\ numThreads' = numThreads - 1
    /\ NotifyNobody
    /\ worker' = [worker EXCEPT ![w] = "gone"]
    /\ UNCHANGED <<queue, running, deleted, item, request, loopVars>>

\* ~ThreadCounter()
Leave(w) ==
    /\ worker[w] = "leave"
    /\ numThreads' = numThreads - 1
    /\ NotifyAll
    /\ worker' = [worker EXCEPT ![w] = "gone"]
    /\ UNCHANGED <<queue, running, deleted, item, request, loopVars>>

-----------------------------------------------------------------------------
(* The event loop *)

\* A request on an open connection: http_request_cb begins.  What
\* http_reject_request_cb gets it answers at once.
ReceiveRequest(r) ==
    /\ ~LoopOver /\ callback = NoRequest /\ request[r] = "none"
    /\ ~rejecting
    /\ callback' = r
    /\ request' = [request EXCEPT ![r] = "callback"]
    /\ UNCHANGED <<queueVars, waiting, worker, item, rejecting, registered, loop>>

Full == Len(queue) >= maxDepth

Enqueue(r) ==
    /\ queue' = Append(queue, r)
    /\ request' = [request EXCEPT ![r] = "queued"]
    /\ NotifyOne

\* The rest of http_request_cb: a client or path that is refused, the queue
\* full, or the request handed to the workers.
Dispatch ==
    /\ callback # NoRequest
    /\ \/ Reply({callback}) /\ UNCHANGED <<queue, waiting>>
       \/ registered /\ Full /\ Reply({callback}) /\ UNCHANGED <<queue, waiting>>
       \/ registered /\ ~Full /\ Enqueue(callback)
    /\ callback' = NoRequest
    /\ UNCHANGED <<running, numThreads, deleted, worker, item, rejecting, registered, loop>>

\* The event of WriteReply: evhttp_send_reply.
SendReply(r) ==
    /\ ~LoopOver /\ callback = NoRequest /\ request[r] = "replied"
    /\ request' = [request EXCEPT ![r] = "none"]
    /\ UNCHANGED <<queueVars, waiting, worker, item, loopVars>>

Active == {r \in Requests : request[r] = "replied"}

\* event_base_dispatch returns: after loopexit when no event is active, after
\* loopbreak at once.
LoopEnds ==
    /\ callback = NoRequest
    /\ \/ loop = "exit" /\ Active = {} /\ loop' = "exited"
       \/ loop = "break" /\ loop' = "broken"
    /\ UNCHANGED <<queueVars, waiting, worker, item, request, callback, rejecting, registered>>

-----------------------------------------------------------------------------
(* Called by the main thread *)

\* InterruptHTTPServer: first the callback, then the queue.
RejectRequests ==
    /\ rejecting' = TRUE
    /\ UNCHANGED <<queueVars, waiting, worker, item, request, callback, registered, loop>>

Interrupt ==
    /\ running' = FALSE
    /\ NotifyAll
    /\ UNCHANGED <<queue, numThreads, deleted, worker, item, request, loopVars>>

\* StopHTTPRPC
UnregisterHTTPHandler ==
    /\ registered' = FALSE
    /\ UNCHANGED <<queueVars, waiting, worker, item, request, callback, rejecting, loop>>

WaitExitSleeps ==
    /\ waiting' = waiting \cup {main}
    /\ UNCHANGED <<queueVars, worker, item, request, loopVars>>

DeleteQueueOnly ==
    /\ queue' = <<>> /\ deleted' = TRUE
    /\ UNCHANGED <<running, numThreads, waiting, worker, item, request, loopVars>>

\* ~WorkQueue: every item left is deleted, which answers its request.
DeleteQueue ==
    /\ Reply({queue[i] : i \in DOMAIN queue})
    /\ queue' = <<>> /\ deleted' = TRUE
    /\ UNCHANGED <<running, numThreads, waiting, worker, item, loopVars>>

AskLoop(to) ==
    /\ loop' = IF LoopOver THEN loop ELSE to
    /\ UNCHANGED <<queueVars, waiting, worker, item, request, callback, rejecting, registered>>
=============================================================================
