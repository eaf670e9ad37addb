------------------------------ MODULE Scheduler -----------------------------
(***************************************************************************)
(* CScheduler (src/src/scheduler.cpp) with the one thread that init.cpp    *)
(* gives it and periodic tasks only, as net.cpp schedules them.            *)
(*                                                                         *)
(* Times are relative: what is left until a task is due, 0 for a task that *)
(* is overdue.  stop() is never called; the thread is interrupted, which   *)
(* boost reports where it waits.                                           *)
(***************************************************************************)
EXTENDS Integers, Sequences

CONSTANTS Tasks, Delta, NoTask      \* Delta: task -> deltaSeconds

ASSUME SchedulerAssumption == Delta \in [Tasks -> Nat \ {0}] /\ NoTask \notin Tasks

VARIABLES
    taskQueue,                  \* sequence of [task, left], in the multimap's order
    service,                    \* where serviceQueue is
    timeToWaitFor,              \* 0 when it is out of scope
    function,                   \* the task being called
    nThreadsServicingQueue,
    interruptRequested

schedulerVars == <<taskQueue, service, timeToWaitFor, function, nThreadsServicingQueue, interruptRequested>>

MaxDelta == CHOOSE d \in {Delta[t] : t \in Tasks} : \A t \in Tasks : Delta[t] <= d

SchedulerTypeOK ==
    /\ taskQueue \in Seq([task : Tasks, left : 0..MaxDelta])
    /\ service \in {"start", "loop", "idle", "until", "call", "gone"}
    /\ timeToWaitFor \in 0..MaxDelta
    /\ function \in Tasks \cup {NoTask}
    /\ nThreadsServicingQueue \in 0..1 /\ interruptRequested \in BOOLEAN

SchedulerInit ==
    /\ taskQueue = <<>> /\ service = "start" /\ timeToWaitFor = 0 /\ function = NoTask
    /\ nThreadsServicingQueue = 0 /\ interruptRequested = FALSE

\* multimap::insert puts a task after those that are due at the same time.
Insert(t) ==
    \E n \in 0..Len(taskQueue) :
        /\ \A i \in DOMAIN taskQueue : taskQueue[i].left <= Delta[t] <=> i <= n
        /\ taskQueue' = [i \in 1..Len(taskQueue) + 1 |->
                            IF i <= n THEN taskQueue[i]
                            ELSE IF i = n + 1 THEN [task |-> t, left |-> Delta[t]]
                            ELSE taskQueue[i - 1]]

\* schedule and its notify_one, which wakes the thread.
scheduleEvery(t) ==
    /\ Insert(t)
    /\ IF service \in {"idle", "until"} THEN service' = "loop" /\ timeToWaitFor' = 0
       ELSE UNCHANGED <<service, timeToWaitFor>>
    /\ UNCHANGED <<function, nThreadsServicingQueue, interruptRequested>>

\* Time passes, as long as there is a thread to see it.
Tick ==
    /\ service # "gone"
    /\ \E i \in DOMAIN taskQueue : taskQueue[i].left > 0
    /\ taskQueue' = [i \in DOMAIN taskQueue |-> [taskQueue[i] EXCEPT !.left = IF @ > 0 THEN @ - 1 ELSE 0]]
    /\ timeToWaitFor' = IF timeToWaitFor > 0 THEN timeToWaitFor - 1 ELSE 0
    /\ UNCHANGED <<service, function, nThreadsServicingQueue, interruptRequested>>

-----------------------------------------------------------------------------
(* serviceQueue *)

StartService ==
    /\ service = "start"
    /\ nThreadsServicingQueue' = nThreadsServicingQueue + 1
    /\ service' = "loop"
    /\ UNCHANGED <<taskQueue, timeToWaitFor, function, interruptRequested>>

\* The thread begins to wait: for a task, or for the time of the first one.
BeginWait ==
    /\ service = "loop"
    /\ IF taskQueue = <<>> THEN service' = "idle" /\ UNCHANGED timeToWaitFor
       ELSE service' = "until" /\ timeToWaitFor' = Head(taskQueue).left
    /\ UNCHANGED <<taskQueue, function, nThreadsServicingQueue, interruptRequested>>

\* wait or wait_until returns although nobody notified and no time has come.
SpuriousReturn ==
    /\ service = "idle" \/ (service = "until" /\ timeToWaitFor > 0)
    /\ ~interruptRequested
    /\ service' = "loop" /\ timeToWaitFor' = 0
    /\ UNCHANGED <<taskQueue, function, nThreadsServicingQueue, interruptRequested>>

TimedOutAnyhow == service = "until"
TimedOut == service = "until" /\ timeToWaitFor = 0

\* wait_until times out: the first task is taken off the queue and called.
TakeTask ==
    /\ TimedOut /\ ~interruptRequested /\ taskQueue # <<>>
    /\ function' = Head(taskQueue).task
    /\ taskQueue' = Tail(taskQueue)
    /\ service' = "call" /\ timeToWaitFor' = 0
    /\ UNCHANGED <<nThreadsServicingQueue, interruptRequested>>

\* Repeat: the function returns and is scheduled again.
FinishTask ==
    /\ service = "call"
    /\ Insert(function)
    /\ function' = NoTask
    /\ service' = "loop"
    /\ UNCHANGED <<timeToWaitFor, nThreadsServicingQueue, interruptRequested>>

ThrowUncounted ==
    /\ service \in {"idle", "until"} /\ interruptRequested
    /\ service' = "gone" /\ timeToWaitFor' = 0
    /\ UNCHANGED <<taskQueue, function, nThreadsServicingQueue, interruptRequested>>

\* thread_interrupted, caught and thrown again.
ThrowInterrupted ==
    /\ service \in {"idle", "until"} /\ interruptRequested
    /\ nThreadsServicingQueue' = nThreadsServicingQueue - 1
    /\ service' = "gone" /\ timeToWaitFor' = 0
    /\ UNCHANGED <<taskQueue, function, interruptRequested>>

\* thread_group::interrupt_all
InterruptService ==
    /\ interruptRequested' = TRUE
    /\ UNCHANGED <<taskQueue, service, timeToWaitFor, function, nThreadsServicingQueue>>
=============================================================================
