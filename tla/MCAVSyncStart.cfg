\* A film whose first time stamp is 0.
SPECIFICATION Spec
CONSTANTS
    Start = 0
    Period = 4
    Repeats = {0}
    Ticks = {1}
    Errors = {}
    Unset <- ClockGarbage
    Startup = 0
    Skews <- SmallHeadStarts
    Jitter = 1
    INITIAL_DELAY = 4
    MIN_DELAY = 1
    MAX_DELAY = 10
    AV_SYNC_THRESHOLD = 1
    AV_NOSYNC_THRESHOLE = 9
    N = 2
    Film = 6
    Strays = 0
    Stalls = 0
INVARIANT StampsTrue
