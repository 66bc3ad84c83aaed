SPECIFICATION FairSpec
CONSTANTS
    Requests = {r1, r2}
    NoMemory = FALSE
    None = None
INVARIANTS OneOwner CompletedOnce
PROPERTY TearDownCompletes
CHECK_DEADLOCK FALSE
