SPECIFICATION Spec
CONSTANTS
    w1 = w1  w2 = w2  r1 = r1  r2 = r2
    Workers = {w1, w2}  Requests = {r1, r2}  maxDepth = 1
    NoRequest = NoRequest  main = main
    CheckIfWeShouldStop = CheckIfWeShouldStop
    Tasks = {CheckIfWeShouldStop}  Delta <- Interval  NoTask = NoTask
    PromptThreads = TRUE
INVARIANTS   SchedulerStopped
PROPERTIES  Answered ShutdownEnds
CHECK_DEADLOCK FALSE
