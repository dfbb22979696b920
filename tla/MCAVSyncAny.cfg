\* Repeated pictures, missing time stamps, stalls and late timers.
SPECIFICATION Spec
CONSTANTS
    Start = 30
    Period = 4
    Repeats = {0, 1}
    Ticks = {1, 2}
    Errors <- Wrong
    Unset <- ClockGarbage
    Startup = 1
    Skews <- SmallHeadStarts
    Jitter = 1
    INITIAL_DELAY = 4
    MIN_DELAY = 1
    MAX_DELAY = 10
    AV_SYNC_THRESHOLD = 1
    AV_NOSYNC_THRESHOLE = 9
    N = 2
    Film = 5
    Strays = 1
    Stalls = 1
INVARIANT TypeOK
INVARIANT StampsTrue
INVARIANT RefreshSoon
