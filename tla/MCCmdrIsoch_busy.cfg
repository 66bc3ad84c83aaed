SPECIFICATION Spec
CONSTANTS
    Requests = {r1, r2}
    NoMemory = FALSE
    None = None
INVARIANT BusySetupKeepsStream
CHECK_DEADLOCK FALSE
