SPECIFICATION FairSpec
CONSTANTS
    N = 2
    SubBuffers = 1
    Timeouts = TRUE
    PartialFailures = FALSE
    TearDownFailures = TRUE
    MaxHandles = 2
    MaxFrames = 3
    NULL = NULL
PROPERTY StopEnds
CHECK_DEADLOCK FALSE
