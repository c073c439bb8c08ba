SPECIFICATION Spec
CONSTANTS
    Requests = {r1, r2}
    Remembered = 1
    Scenarios <- Instances
SYMMETRY Symmetry
INVARIANTS
    TypeOK
    AckedPatchIsStoredOnce
    ForeignWriteIsKept
CHECK_DEADLOCK FALSE
