SPECIFICATION Spec
CONSTANTS
    g = g  a1 = a1  a2 = a2  a3 = a3  b1 = b1  b2 = b2  c2 = c2
    none = none
    Blocks <- ThreeWayBlocks  Genesis = g  Parent <- ThreeWay  Chain <- ThreeWayChain
    Height <- ThreeWayHeight  ChainWork <- HeavyWork
    Notarizes <- ThreeWayPlain  NoBlock = none
    BadContext = {}  BadConnect = {c2}
    NetThreads = {n1, n2}  RpcThreads = {}
    Invalidatable = {}  Reconsiderable = {}  FutureBlocks = {b2}
    MAX_REORG_LENGTH = 2  BLOCK_DOWNLOAD_WINDOW = 2
    AcCC = FALSE  DiskErrors = TRUE  MaxRpc = 0  MaxCleared = 0
INVARIANTS LinkedIfUsable SettledIsBest
PROPERTIES SequenceFixed
CHECK_DEADLOCK FALSE
