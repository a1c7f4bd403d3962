SPECIFICATION StoreSpec
CONSTANTS
    Processes = {1, 2}
    Careful = TRUE
    MaxLockFiles = 2
    MaxKeys = 2
    MaxGeneration = 3
    MaxStarts = 2
INVARIANTS OneOwner
