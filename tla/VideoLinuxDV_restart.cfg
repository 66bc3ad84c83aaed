SPECIFICATION Spec
CONSTANTS
    N = 3
    Size = 4
    Threads = {t1, t2}
    MaxFrames = 3
    HeadersLost = FALSE
    NoThread = NoThread
INVARIANT Restartable
CHECK_DEADLOCK FALSE
