SPECIFICATION Spec
CONSTANTS
    Clients = {c1, c2}
    Forcing = {}
    Timeouts = TRUE
    Buffers = 6
    MaxSamples = 4
    None = None
PROPERTY NoSampleMissed
CHECK_DEADLOCK FALSE
