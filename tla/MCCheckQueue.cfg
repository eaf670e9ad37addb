SPECIFICATION FairSpec
CONSTANTS
    Workers = {w1, w2}
    Master = master
    nBatchSize = 2
    MaxChecks = 4
INVARIANTS
    IdleBetweenRounds
    ResultIsConjunction
    EachCheckHeldOnce
PROPERTIES
    WaitReturns
