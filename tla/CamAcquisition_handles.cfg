SPECIFICATION Spec
CONSTANTS
    N = 2
    SubBuffers = 1
    Timeouts = TRUE
    PartialFailures = FALSE
    TearDownFailures = FALSE
    MaxHandles = 2
    MaxFrames = 3
    NULL = NULL
INVARIANT HandlesClosed
