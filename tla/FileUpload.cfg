SPECIFICATION PersistentSpec
CONSTANTS
    Calls = {c1, c2}
    Size = 3
    MaxDrops = 1
    MaxRestarts = 1
CHECK_DEADLOCK FALSE
INVARIANTS TypeOK SuccessIsComplete
PROPERTIES RetryCompletes
