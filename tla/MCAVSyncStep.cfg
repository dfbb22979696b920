\* A film of 25 pictures per second, the code's figures in milliseconds.
SPECIFICATION Spec
CONSTANTS
    Start = 2000
    Period = 40
    Repeats = {0}
    Ticks = {1}
    Errors = {}
    Unset <- ClockGarbage
    Startup = 3
    Skews <- HeadStarts
    Jitter = 2
    INITIAL_DELAY = 40
    MIN_DELAY = 10
    MAX_DELAY = 1000
    AV_SYNC_THRESHOLD = 10
    AV_NOSYNC_THRESHOLE = 10000
    N = 2
    Film = 120
    Strays = 0
    Stalls = 0
INVARIANT ComesIntoStep
PROPERTY KeepsStep
