SPECIFICATION Spec
CONSTANTS
    n1 = n1
    n2 = n2
    b1 = b1
    b2 = b2
    Node = {n1, n2}
    Leader = n1
    FaultNode = {}
    CrashNode = {}
    Flagged = {}
    Block = {b1, b2}
    ValidBlock = {b1, b2}
    Repeatable = {b1}
    None = None
    Garbage = {freed}
    freed = freed
    TestDriver = TRUE
    MaxProposals = 2
    MaxRuns = 2
    MaxLost = 1
CHECK_DEADLOCK FALSE
INVARIANTS
    DeliveryQuorum
    RunAgreement
    FollowerAccepted
PROPERTIES
    NoDuplicateDelivery
    ImplementsBlockLog
