SPECIFICATION Spec
CONSTANTS
    N = 2
    SubBuffers = 2
    Timeouts = TRUE
    PartialFailures = TRUE
    TearDownFailures = FALSE
    MaxHandles = 2
    MaxFrames = 3
    NULL = NULL
INVARIANT CurrentNotAttached
