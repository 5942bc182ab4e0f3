SPECIFICATION FairSpec
CONSTANTS
    NumServers = 2
    Caller = {c1}
    Destroyed = FALSE
    MaxBroadcasts = 2
CHECK_DEADLOCK FALSE
PROPERTY AllSent
