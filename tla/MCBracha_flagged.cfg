SPECIFICATION Spec
CONSTANTS
    n1 = n1
    n2 = n2
    n3 = n3
    n4 = n4
    b1 = b1
    Node = {n1, n2, n3, n4}
    Leader = n1
    FaultNode = {n4}
    CrashNode = {n4}
    Flagged = {n4}
    Block = {b1}
    ValidBlock = {b1}
    Repeatable = {}
    None = None
    Garbage = {}
    TestDriver = TRUE
    MaxProposals = 1
    MaxRuns = 1
    MaxLost = 0
CHECK_DEADLOCK FALSE
SYMMETRY Followers
INVARIANT QuiescentDelivery
