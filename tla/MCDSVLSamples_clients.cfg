SPECIFICATION FairSpec
CONSTANTS
    Clients = {c1, c2}
    Forcing = {}
    Timeouts = TRUE
    Buffers = 6
    MaxSamples = 7
    None = None
INVARIANTS HeldSamplesLive CountsHolders CaptureNeverStalls
PROPERTIES ImplementsPool WaitEnds
CHECK_DEADLOCK FALSE
