SPECIFICATION Spec
CONSTANTS
    Blocks = {b1, b2}
    Values = {v1, v2}
    IsTarget = TRUE
    Max <- MaxRelays
    NoBatch = NoBatch
    NoAck = NoAck
    NoExchange = NoExchange
SYMMETRY Symmetry
INVARIANTS
    NoSilentLoss
PROPERTIES
    ImplementsDurableRoom
CHECK_DEADLOCK FALSE
