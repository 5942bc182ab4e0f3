CONSTANTS
    Process = {w, r}
    Writer = w
    File = {db1, tmp}
    Shape <- MCShape
    Junk <- MCJunk
    MaxTxs = 3
    MaxBlocks = 2
    MaxKeys = 2
    MaxOpens = 3
    MaxFaults = 1
SYMMETRY Symmetry
SPECIFICATION Spec
INVARIANTS TypeOK Chained Reloads RootIsTree
PROPERTIES LossNeedsFailedOpen WireKeepsBlock
CHECK_DEADLOCK FALSE
