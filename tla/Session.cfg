SPECIFICATION FairSpec
CONSTANTS
    K = 2
    Addrs = {a1, a2}
    NULL = NULL
    N = 1
    EventCap = 3
    Shortfall = 1
INVARIANTS
    TypeOK
    RefreshesAddUp
    RequestsLive
PROPERTIES
    SuspendReturns
    EventThreadLeaves
