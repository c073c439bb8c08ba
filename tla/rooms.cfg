SPECIFICATION FairSpec
CONSTANTS
    Processes = {p1, p2}
    Nobody = Nobody
    Max <- MaxEvents
INVARIANTS
    OneWorkingRoom
    NoLockWithoutRoom
    StaleRoomIsTold
    FenceIsOfRoom
PROPERTIES
    FencedRoomIsFreed
    ClientIsAnswered
CHECK_DEADLOCK FALSE
