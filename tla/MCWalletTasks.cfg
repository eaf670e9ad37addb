SPECIFICATION FairSpec
CONSTANTS
    Workers = {w1}
    MaxOps = 2
    UserKinds = {"merge"}
    consolidationInterval = 2
    sweepInterval = 1
    Near = 0
    MaxTxs = 1
    MaxHeight = 2
    MaxLag = 1
    MaxReorgs = 1
INVARIANTS RunsOnce NothingForgotten OneTaskWaiting UserSeesOperation
PROPERTIES OperationsEnd StopReturns
CHECK_DEADLOCK FALSE
