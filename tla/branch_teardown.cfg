\* A stream branch and the ai_shm branch, removed together.
SPECIFICATION BTFairSpec
CONSTANTS
    Branches = {b1, shm1}
    AiShm = {shm1}
    NoBranch = NoBranch
    BranchFails = TRUE
    StopsMidway = TRUE
INVARIANT TeardownIsExact
PROPERTY RemovalCompletes
CHECK_DEADLOCK FALSE
