SPECIFICATION Spec
CONSTANTS
    Clients = {c1, c2}
    Forcing = {c1}
    Timeouts = TRUE
    Buffers = 6
    MaxSamples = 4
    None = None
INVARIANT HeldSamplesLive
CHECK_DEADLOCK FALSE
