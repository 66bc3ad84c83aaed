SPECIFICATION Spec
CONSTANTS
    Clients = {c1, c2}
    Forcing = {}
    Timeouts = TRUE
    Buffers = 6
    MaxSamples = 4
    None = None
INVARIANT DisableReleasesAll
CHECK_DEADLOCK FALSE
