SPECIFICATION FairSpec
CONSTANTS
    Requests = {r1, r2}
    NoMemory = TRUE
    None = None
PROPERTY TearDownCompletes
CHECK_DEADLOCK FALSE
