SPECIFICATION Spec
CONSTANTS
    Blocks = {b1, b2}
    Values = {v1, v2}
    IsTarget = TRUE
    Max <- MaxWriters
    NoBatch = NoBatch
    NoAck = NoAck
    NoExchange = NoExchange
SYMMETRY Symmetry
INVARIANTS
    BaselineIsStored
    BatchOnBaseline
CHECK_DEADLOCK FALSE
