SPECIFICATION FairSpec
CONSTANTS
    NumServers = 2
    Caller = {c1, c2}
    Destroyed = TRUE
    MaxBroadcasts = 2
CHECK_DEADLOCK FALSE
INVARIANTS
    TypeOK
    MutexNotLeaked
PROPERTIES
    ImplementsLog
    DestructorReturns
