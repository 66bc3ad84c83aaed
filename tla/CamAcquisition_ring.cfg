SPECIFICATION FairSpec
CONSTANTS
    N = 3
    SubBuffers = 2
    Timeouts = TRUE
    PartialFailures = FALSE
    TearDownFailures = TRUE
    MaxHandles = 2
    MaxFrames = 5
    NULL = NULL
INVARIANTS BuffersKept DriverInStep FramesInOrder
PROPERTY AcquireEnds
CHECK_DEADLOCK FALSE
