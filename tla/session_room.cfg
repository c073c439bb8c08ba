SPECIFICATION FairSpec
CONSTANTS
    Members = {m1, m2}
    MaxRetries = 1
    MaxEdits = 2
    MaxFailures = 2
    MaxConflicts = 1
    MaxPersistNow = 1
    NoMember = NoMember
    NoSession = NoSession
    NoBatch = NoBatch
    NoOperation = NoOperation
INVARIANTS
    TypeOK
    UnsavedKeepsContributor
    CreditsRemembered
    NeverStranded
    PersistNowCoversTracked
PROPERTIES
    NothingLostOnUnload
    SessionSettles
    FencedIsReleased
CHECK_DEADLOCK FALSE
