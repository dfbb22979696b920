SPECIFICATION FairSpec
CONSTANTS
    Clients = {video, events}
    Structs = {s1, s2}
    NULL = NULL
    Word = 17
    Intervals = {1, 2}
    Slack = 2
    CallSlack = 0
    MaxTimers = 2
INVARIANTS
    TypeOK
    OnePlace
    MapExact
PROPERTY ImplementsTimers
