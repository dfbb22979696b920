SPECIFICATION FairSpec
CONSTANTS
    s16 = s16
    other = other
    Formats = {s16, other}
    Default = s16
    Bytes <- FrameBytes
    SILENCE = 2
    Requests = {1, 3}
    PacketFrames = {1, 2, 3}
    Rounding = 1
    Full = 3
    Delay = 1
    NULL = NULL
    Film = 5
    QueueLimit = 2
INVARIANT TypeOK
INVARIANT ClockTrue
PROPERTY ClockForward
PROPERTY ImplementsStream
PROPERTY CallbackReturns
CHECK_DEADLOCK FALSE
