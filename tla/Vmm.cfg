SPECIFICATION VmmSpec
CONSTANTS
    NumFrames = 14
    Pids = {p1, p2}
    MmapPages <- MCMmapPages
    MunmapPages <- MCMunmapPages
    StorePages <- MCStorePages
    MaxLen = 1
    BrkBase = 5
    BrkWants <- MCBrkWants
    UserBase = 1
    Image <- MCImage
    StackArea <- MCStackArea
    ArgArea <- MCArgArea
SYMMETRY MCSymmetry
INVARIANTS
    FramesOwnedOnce
    NoTableLost
    PagesArePrivate
    BreakIsMapped
CHECK_DEADLOCK FALSE
