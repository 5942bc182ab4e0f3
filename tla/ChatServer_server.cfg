SPECIFICATION FairSpec
CONSTANTS
    Sender = {s1}
    Wallet = {w1}
    MaxTalks = 2
    MaxRequests = 1
    MaxSets = 1
    MaxTasks = 1
CHECK_DEADLOCK FALSE
INVARIANTS
    TypeOK
    LinkOrder
    SyncCurrent
PROPERTIES
    CallsReturn
    WakeupReaches
