SPECIFICATION Spec
CONSTANTS
    Members = {m1, m2}
    MaxRetries = 1
    MaxEdits = 2
    MaxFailures = 0
    MaxConflicts = 0
    MaxPersistNow = 1
    NoMember = NoMember
    NoSession = NoSession
    NoBatch = NoBatch
    NoOperation = NoOperation
SYMMETRY Symmetry
INVARIANTS
    AttributionExact
CHECK_DEADLOCK FALSE
