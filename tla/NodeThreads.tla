----------------------------- MODULE NodeThreads ----------------------------
(***************************************************************************)
(* The life of the node's own threads (src/src/init.cpp, bitcoind.cpp):    *)
(* HTTPServer and Scheduler with the main thread, from the start of the    *)
(* servers to the return of AppInit, which destroys the scheduler.         *)
(*                                                                         *)
(* Shutdown is asked for by the RPC stop, a signal and the file plz_stop.  *)
(* What else Interrupt and Shutdown do is left out (WalletTasks has        *)
(* StopRPC, BlockStore the flush).                                         *)
(***************************************************************************)
EXTENDS HTTPServer, Scheduler, Functions

CONSTANTS
    CheckIfWeShouldStop,    \* the task that looks for the file
    PromptThreads           \* a thread that was started, or is in a callback,
                            \* gets on before the main thread takes away its queue

ASSUME NodeThreadsAssumption == IsFiniteSet(Tasks) /\ CheckIfWeShouldStop \in Tasks

VARIABLES
    pc,                     \* the main thread
    toSchedule,             \* what StartNode has still to schedule, in order
    fRet,                   \* AppInit2 has not failed
    plz_stop,               \* the file exists
    fRequestShutdown

mainVars == <<pc, toSchedule, fRet, plz_stop, fRequestShutdown>>
vars == <<httpVars, schedulerVars, mainVars>>

TypeOK ==
    /\ HTTPTypeOK /\ SchedulerTypeOK
    /\ pc \in {"init", "run", "interrupt", "queue", "group", "join", "rpc", "wait", "delete", "exit", "loop", "end"}
    /\ toSchedule \in Seq(Tasks)
    /\ {fRet, plz_stop, fRequestShutdown} \subseteq BOOLEAN

\* The scheduler's thread and the servers have been started.
Init ==
    /\ HTTPInit /\ SchedulerInit
    /\ pc = "init" /\ fRet = TRUE
    /\ toSchedule = CHOOSE s \in Bijection(1..Cardinality(Tasks), Tasks) : TRUE
    /\ plz_stop = FALSE /\ fRequestShutdown = FALSE

-----------------------------------------------------------------------------
(* The threads *)

LoopStep == /\ (\E r \in Requests : ReceiveRequest(r) \/ SendReply(r)) \/ Dispatch \/ LoopEnds
            /\ UNCHANGED <<schedulerVars, mainVars>>

\* Any request may be the RPC stop, which calls StartShutdown once the RPC
\* warm-up, which ends after StartNode, is over.
HandleRequest(w) ==
    /\ Handle(w)
    /\ fRequestShutdown' \in {fRequestShutdown, fRequestShutdown \/ toSchedule = <<>>}
    /\ UNCHANGED <<schedulerVars, pc, toSchedule, fRet, plz_stop>>

WorkerStep(w) == \/ (Count(w) \/ Fetch(w) \/ Leave(w)) /\ UNCHANGED <<schedulerVars, mainVars>>
                 \/ HandleRequest(w)

\* The function is called with the scheduler's lock released.
CallTask ==
    /\ FinishTask
    /\ fRequestShutdown' = (fRequestShutdown \/ (function = CheckIfWeShouldStop /\ plz_stop))
    /\ UNCHANGED <<httpVars, pc, toSchedule, fRet, plz_stop>>

ServiceStep ==
    \/ /\ StartService \/ BeginWait \/ TakeTask \/ ThrowInterrupted
       /\ UNCHANGED <<httpVars, mainVars>>
    \/ CallTask

\* Wake-ups that nothing causes.
Spurious == \/ (\E t \in Workers \cup {main} : SpuriousWake(t)) /\ UNCHANGED <<schedulerVars, mainVars>>
            \/ SpuriousReturn /\ UNCHANGED <<httpVars, mainVars>>

TimePasses == Tick /\ UNCHANGED <<httpVars, mainVars>>

\* The operator makes the file.
CreateFile ==
    /\ ~plz_stop /\ plz_stop' = TRUE
    /\ UNCHANGED <<httpVars, schedulerVars, pc, toSchedule, fRet, fRequestShutdown>>

HandleSIGTERM ==
    /\ ~fRequestShutdown /\ fRequestShutdown' = TRUE
    /\ UNCHANGED <<httpVars, schedulerVars, pc, toSchedule, fRet, plz_stop>>

-----------------------------------------------------------------------------
(* The main thread: AppInit, WaitForShutdown, Interrupt, Shutdown *)

Goto(from, to) ==
    /\ pc = from /\ pc' = to
    /\ UNCHANGED <<toSchedule, fRet, plz_stop, fRequestShutdown>>

StartNode ==
    /\ pc = "init" /\ toSchedule # <<>>
    /\ scheduleEvery(Head(toSchedule))
    /\ toSchedule' = Tail(toSchedule)
    /\ UNCHANGED <<httpVars, pc, fRet, plz_stop, fRequestShutdown>>

\* AppInit2 returns !fRequestShutdown, or false on an error before.
AppInitReturns(ret) ==
    /\ pc = "init"
    /\ fRet' = ret /\ pc' = IF ret THEN "run" ELSE "interrupt"
    /\ UNCHANGED <<httpVars, schedulerVars, toSchedule, plz_stop, fRequestShutdown>>
AppInitDone == toSchedule = <<>> /\ AppInitReturns(~fRequestShutdown)
AppInitFailed == toSchedule # <<>> /\ AppInitReturns(FALSE)

WaitForShutdown == fRequestShutdown /\ Goto("run", "interrupt") /\ UNCHANGED <<httpVars, schedulerVars>>

\* Interrupt
InterruptHTTPServer ==
    /\ UNCHANGED schedulerVars
    /\ \/ Goto("interrupt", "queue") /\ RejectRequests
       \/ Goto("queue", "group") /\ Interrupt

\* join_all is left out when AppInit2 failed.
InterruptThreadGroup == Goto("group", IF fRet THEN "join" ELSE "rpc") /\ InterruptService /\ UNCHANGED httpVars

JoinAll == service = "gone" /\ Goto("join", "rpc") /\ UNCHANGED <<httpVars, schedulerVars>>

\* Shutdown
StopHTTPRPC == Goto("rpc", "wait") /\ UnregisterHTTPHandler /\ UNCHANGED schedulerVars

GotOn == callback = NoRequest /\ \A w \in Workers : worker[w] # "created"

ExitNotAwaited == TRUE
ExitSeen == numThreads = 0

\* StopHTTPServer
WaitExit ==
    /\ pc = "wait" /\ main \notin waiting
    /\ PromptThreads => GotOn
    /\ UNCHANGED schedulerVars
    /\ \/ ExitSeen /\ Goto("wait", "delete") /\ UNCHANGED httpVars
       \/ ~ExitSeen /\ WaitExitSleeps /\ UNCHANGED mainVars

StopHTTPServer ==
    /\ UNCHANGED schedulerVars
    /\ \/ Goto("delete", "exit") /\ DeleteQueue
       \/ Goto("exit", "loop") /\ AskLoop("exit")

\* try_join_for gives the loop two seconds.
JoinLoop ==
    /\ UNCHANGED schedulerVars
    /\ \/ LoopOver /\ Goto("loop", "end") /\ UNCHANGED httpVars
       \/ loop = "exit" /\ pc = "loop" /\ AskLoop("break") /\ UNCHANGED mainVars

MainStep ==
    \/ StartNode \/ AppInitDone \/ WaitForShutdown
    \/ InterruptHTTPServer \/ InterruptThreadGroup \/ JoinAll
    \/ StopHTTPRPC \/ WaitExit \/ StopHTTPServer \/ JoinLoop

-----------------------------------------------------------------------------
\* The process ends when the main thread has returned from AppInit.
Next ==
    /\ pc # "end"
    /\ \/ LoopStep \/ (\E w \in Workers : WorkerStep(w))
       \/ ServiceStep \/ TimePasses
       \/ MainStep \/ AppInitFailed
       \/ Spurious \/ CreateFile \/ HandleSIGTERM

Going(A) == pc # "end" /\ A

\* Every thread is scheduled, handlers and tasks return, and libevent runs
\* each active event before it polls again without end.
Spec ==
    /\ Init /\ [][Next]_vars
    /\ \A w \in Workers : WF_vars(Going(WorkerStep(w)))
    /\ WF_vars(Going((Dispatch \/ LoopEnds) /\ UNCHANGED <<schedulerVars, mainVars>>))
    /\ \A r \in Requests : SF_vars(Going(SendReply(r) /\ UNCHANGED <<schedulerVars, mainVars>>))
    /\ WF_vars(Going(ServiceStep)) /\ WF_vars(Going(TimePasses)) /\ WF_vars(MainStep)

-----------------------------------------------------------------------------
(* The work queue outlives its users: StopHTTPServer deletes it only when  *)
(* every detached worker has left Run ("Precondition: worker threads have  *)
(* all stopped") and no callback is about to call Enqueue.                 *)
QueueOutlivesUsers == deleted => callback = NoRequest /\ \A w \in Workers : worker[w] = "gone"

(* Unless the loop had to be broken, nobody who got as far as the callback *)
(* is left without an answer: not the client of stop ("Shutdown will take  *)
(* long enough that the response should get back"), nor those whose item   *)
(* was still in the queue, nor one that was added after the interrupt.     *)
AnswersKept == loop = "exited" => \A r \in Requests : request[r] = "none"

(* Enqueue keeps the queue within -rpcworkqueue.                           *)
QueueBounded == Len(queue) <= maxDepth

(* The assertion in ~CScheduler: no thread is in serviceQueue any more when *)
(* the scheduler goes.  Only for a start that did not fail, because        *)
(* AppInit leaves out join_all otherwise.                                  *)
SchedulerStopped == pc = "end" /\ fRet => nThreadsServicingQueue = 0

(* "Call func at/after time t": the task serviceQueue takes after a        *)
(* time-out is due, also when others were scheduled while it slept.        *)
NeverEarly == [][service = "until" /\ service' = "call" => Head(taskQueue).left = 0]_vars

(* Every request that reaches the callback is answered, unless the loop is *)
(* broken first: no wake-up of a worker is lost.                           *)
Answered == \A r \in Requests : request[r] # "none" ~> request[r] = "none" \/ loop \in {"break", "broken"}

(* Once shutdown is requested, or the file is there ("a disk-based method  *)
(* where a node can realize it should stop"), the node ends: the task      *)
(* notices the file, and join_all, WaitExit (which sleeps on the workers'  *)
(* own condition) and the join of the loop return.                         *)
ShutdownEnds == (fRequestShutdown \/ plz_stop) ~> pc = "end"
=============================================================================
