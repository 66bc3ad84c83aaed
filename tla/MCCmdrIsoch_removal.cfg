SPECIFICATION Spec
CONSTANTS
    Requests = {r1, r2}
    NoMemory = FALSE
    None = None
INVARIANT RemovalCompletesAll
CHECK_DEADLOCK FALSE
