CONSTANTS
    KeyLen = 3
    CharBits = 3
    Thread = {proposer, consensus}
    Block = {1}
    MaxCalls = 4
    MaxLost = 1
SYMMETRY Symmetry
SPECIFICATION Spec
INVARIANTS TypeOK OneTime AbortsOnlyOnOverlap CleanAccepted
CHECK_DEADLOCK FALSE
