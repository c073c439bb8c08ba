SPECIFICATION FairSpec
CONSTANTS
    Messages = {m1}
    Workers = {w1, w2}
    MaxRetries = 1
    NoDelivery = NoDelivery
    Entities = {e}
    Locales = {src, tgt}
    Source = src
    Clients = {"c1", "c2", "c3"}
    Sockets = {"s1", "s2"}
    SocketOf <- SharedSocket
    Members = {"m1", "m2"}
    MemberOf <- TwoMembers
    AwarenessIds = {"id"}
    Nobody = Nobody
    Grace = 1
    Budgets <- Scenarios
INVARIANTS
    TypeOK
    StaleIsHeard
    DrainIsExact
    AwayIsTimed
    PresenceIsReleased
PROPERTIES
    MessageSettles
    ImplementsDurableQueue
    ClearedForCause
CHECK_DEADLOCK FALSE
