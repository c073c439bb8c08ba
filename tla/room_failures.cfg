SPECIFICATION FairSpec
CONSTANTS
    Blocks = {b1, b2}
    Values = {v1, v2}
    IsTarget = FALSE
    Max <- MaxFailures
    NoBatch = NoBatch
    NoAck = NoAck
    NoExchange = NoExchange
INVARIANTS
    TypeOK
    PromiseKept
PROPERTIES
    UnsavedEventuallySettles
CHECK_DEADLOCK FALSE
