CONSTANTS
    N = 2
    Dims = {small, large}
    NoBmp = NoBmp
    EventCap = 2
    MaxPackets = 2
    MaxFrames = 4
SPECIFICATION FairSpec
INVARIANTS
    TypeOK
    PicturesInRing
    SlotExclusive
    BitmapCurrent
    OneRefresh
    AllocHandshake
    DeletedOutsideRing
PROPERTIES
    StopReturns
    ImplementsFairChannel
