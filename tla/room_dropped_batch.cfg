SPECIFICATION Spec
CONSTANTS
    Blocks = {b1, b2}
    Values = {v1, v2}
    IsTarget = FALSE
    Max <- MaxDroppedBatch
    NoBatch = NoBatch
    NoAck = NoAck
    NoExchange = NoExchange
SYMMETRY Symmetry
INVARIANTS
    AckCoversDurable
CHECK_DEADLOCK FALSE
