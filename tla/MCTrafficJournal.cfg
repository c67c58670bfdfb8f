CONSTANTS
    up = up
    down = down
    Directions = {up, down}
    Modulus = 3
    MaxMoved <- MCMaxMoved
    MaxStarts = 2
    MaxQueries = 1
    MaxUnlockFailures = 1
SPECIFICATION Spec
INVARIANTS CountsOnce NothingLost QueryReadsSettled
PROPERTIES StopResolves
CHECK_DEADLOCK FALSE
