SPECIFICATION Spec
CONSTANTS
    g = g  a1 = a1  a2 = a2  a3 = a3  b1 = b1  b2 = b2  c2 = c2
    none = none
    Blocks <- ThreeWayBlocks  Genesis = g  Parent <- ThreeWay  Chain <- ThreeWayChain
    Height <- ThreeWayHeight  ChainWork <- HeavyWork
    Notarizes <- ThreeWayNotarizes  NoBlock = none
    BadContext = {c2}  BadConnect = {}
    NetThreads = {n1}  RpcThreads = {r1}
    Invalidatable = {a3, b1, b2}  Reconsiderable = {a3, b2}  FutureBlocks = {}
    MAX_REORG_LENGTH = 2  BLOCK_DOWNLOAD_WINDOW = 2
    AcCC = TRUE  DiskErrors = FALSE  MaxRpc = 2  MaxCleared = 1
INVARIANTS CandidatesSound UnlinkedWaits SettledIsBest ActiveChainValid
PROPERTIES NotarizedStays
CHECK_DEADLOCK FALSE
