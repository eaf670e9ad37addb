SPECIFICATION SpecWithErrors
CONSTANTS
    Txids = {}
    Outputs = {o1}
    Nullifiers = {}
    Roots = {r0, r1}
    EmptyRoot = r0
    Blocks = {b1}
    NullHash = nullHash
    NoEntry = noEntry
INVARIANTS
    TipRootOnDisk
