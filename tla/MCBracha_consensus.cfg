SPECIFICATION Spec
CONSTANTS
    n1 = n1
    n2 = n2
    n3 = n3
    b1 = b1
    b2 = b2
    Node = {n1, n2, n3}
    Leader = n1
    FaultNode = {}
    CrashNode = {}
    Flagged = {}
    Block = {b1, b2}
    ValidBlock = {b1}
    Repeatable = {}
    None = None
    Garbage = {}
    TestDriver = FALSE
    MaxProposals = 1
    MaxRuns = 1
    MaxLost = 0
CHECK_DEADLOCK FALSE
SYMMETRY Followers
INVARIANTS
    TypeOK
    Validity
    ReadyJustified
    QuiescentDelivery
