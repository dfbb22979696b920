\* MCMediaPlayerSafe.cfg
SPECIFICATION Spec
CONSTANTS
    Players = {p1, p2}
    NULL = NULL
    Wild = Wild
    MAX_PLAYER_QUEUE_SIZE = 1
    Film = 3
SYMMETRY PlayerSymmetry
INVARIANT TypeOK
INVARIANT OnlyLateUse
INVARIANT JoinedBeforeDelete
PROPERTY OnlyStartHidesStop
PROPERTY NoStartBesideLoop
\* A crash ends everything, and a suspend of an unsettled session may hang.
CHECK_DEADLOCK FALSE
