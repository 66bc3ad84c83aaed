SPECIFICATION Spec
CONSTANTS
    N = 3
    Size = 4
    Threads = {t1, t2}
    MaxFrames = 3
    HeadersLost = TRUE
    NoThread = NoThread
INVARIANT WholeImage
CHECK_DEADLOCK FALSE
