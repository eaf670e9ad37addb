SPECIFICATION Spec
CONSTANTS
    Txids = {t1}
    Outputs = {o1, o2}
    Nullifiers = {n1}
    Roots = {r0, r1}
    EmptyRoot = r0
    Blocks = {b1}
    NullHash = null
    NoEntry = none
INVARIANTS
    CachesAgree
    FreshUnlessPulledIn
    BestAnchorKnown
PROPERTIES
    BehavesAsPlainCopies
