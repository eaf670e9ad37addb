SPECIFICATION Spec
CONSTANTS
    g = g  a1 = a1  a2 = a2  b1 = b1  b2 = b2
    c = c  ca = ca  cb = cb  tp = tp  tq = tq  tr = tr  s = s  x = x  z = z  m = m
    n1 = n1  r0 = r0  r1 = r1  r2 = r2  NoTx = NoTx  NoRoot = NoRoot
    TxOrder <- Order  Coinbases = {ca, cb}
    Ins <- Spends  Outs <- Makes  Nullifier <- Reveals  Anchor <- From
    LockTime <- Locked  Expiry <- Expires  Branch <- Commits  Invalid = {x}
    Blocks = {g, a1, a2, b1, b2}  Base = g
    Parent <- Tree  Height <- Heights  Vtx <- BlockTxs  Root <- Roots
    UpgradeHeight = 8  COINBASE_MATURITY = 2
    Peers = {1, 2}  Sent = {tp, tq, tr, s, x, z, m}  Large = {m}  nMaxOrphanTx = 2
    MaxEvents = 4
INVARIANTS  NoDanglingPointer OrphansSound NeverThrows 
PROPERTIES WalletsCatchUp
CHECK_DEADLOCK FALSE
