CONSTANTS
    Nodes = {n1, n2, n3}
    p1 = p1
    p2 = p2
    Packets = {p1, p2}
    Consumers = {decoder}
    NULL = NULL
    PktSize <- MCPktSize
    HdrSize = 10
SPECIFICATION FairSpec
INVARIANTS
    TypeOK
    ListWellFormed
    NoLostWakeup
PROPERTY ImplementsFairFifo
