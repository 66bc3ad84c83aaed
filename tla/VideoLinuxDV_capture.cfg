SPECIFICATION FairSpec
CONSTANTS
    N = 3
    Size = 4
    Threads = {t1, t2}
    MaxFrames = 3
    HeadersLost = FALSE
    NoThread = NoThread
INVARIANT WholeImage
PROPERTIES ImplementsVideoSource CloseEnds
CHECK_DEADLOCK FALSE
