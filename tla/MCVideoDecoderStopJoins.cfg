CONSTANTS
    N = 2
    Dims = {small, large}
    NoBmp = NoBmp
    EventCap = 2
    MaxPackets = 2
    MaxFrames = 6
SPECIFICATION Spec
INVARIANT StopJoins
SYMMETRY Symmetry
