SPECIFICATION FairSpec
CONSTANTS
    Producer = {"tx", "propose"}
    Event = {"tx", "propose"}
    TypeOf <- OwnType
    MaxTasks = 2
CHECK_DEADLOCK FALSE
INVARIANTS
    TypeOK
    RunsPerEvent
    ThrowsOnOverlap
PROPERTY HeardRuns
