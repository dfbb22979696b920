\* MCMediaPlayerLive.cfg
SPECIFICATION FairSpec
CONSTANTS
    Players = {p1}
    NULL = NULL
    Wild = Wild
    MAX_PLAYER_QUEUE_SIZE = 1
    Film = 6
INVARIANT QueuesBounded
PROPERTY SuspendReturns
PROPERTY PlaybackEnds
\* A crash ends everything, and a suspend of an unsettled session may hang.
CHECK_DEADLOCK FALSE
