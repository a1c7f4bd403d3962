SPECIFICATION StoreSpec
CONSTANTS
    Processes = {1, 2}
    Careful = TRUE
    MaxLockFiles = 2
    MaxKeys = 2
    MaxGeneration = 5
    MaxStarts = 3
INVARIANTS StoreTypeOK StartsAdvance
PROPERTIES LockSettles
