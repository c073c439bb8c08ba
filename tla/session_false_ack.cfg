SPECIFICATION Spec
CONSTANTS
    Members = {m1, m2}
    MaxRetries = 1
    MaxEdits = 1
    MaxFailures = 2
    MaxConflicts = 0
    MaxPersistNow = 1
    NoMember = NoMember
    NoSession = NoSession
    NoBatch = NoBatch
    NoOperation = NoOperation
SYMMETRY Symmetry
INVARIANTS
    PersistNowCovers
CHECK_DEADLOCK FALSE
