SPECIFICATION Spec
CONSTANTS
    g = g  a1 = a1  a2 = a2  a3 = a3  a4 = a4  b4 = b4  b5 = b5
    Blocks = {g, a1, a2, a3, a4, b4, b5}
    Genesis = g  Parent <- Tree  Height <- Heights
    MAX_BLOCKFILE_SIZE = 2  MaxFile = 3  MaxUndo = 3
    BLOCK_DOWNLOAD_WINDOW = 1
    fPruneMode = TRUE  nPruneTarget = 4  nPruneAfterHeight = 3  MIN_BLOCKS_TO_KEEP = 3
    CheckBlocks = 3  MaxFaults = 0
    NoBlock = none
INVARIANT RestartSucceeds
CHECK_DEADLOCK FALSE
