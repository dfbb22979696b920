\* A stop before the first frame.
SPECIFICATION Spec
CONSTANTS
    s16 = s16
    other = other
    Formats = {s16, other}
    Default = s16
    Bytes <- FrameBytes
    SILENCE = 2
    Requests = {1, 3}
    PacketFrames = {1, 2}
    Rounding = 0
    Full = 3
    Delay = 1
    NULL = NULL
    Film = 2
    QueueLimit = 2
INVARIANT SilenceHasBuffer
