SPECIFICATION Spec
CONSTANTS
    Clients = {a, b}
    MaxTokens = 2
    TokenTtl = 1
    Max <- MaxEvents
SYMMETRY Symmetry
INVARIANTS
    TypeOK
    EditsOfThisLoad
    FrameWasAllowed
    RecentTokenKept
CHECK_DEADLOCK FALSE
