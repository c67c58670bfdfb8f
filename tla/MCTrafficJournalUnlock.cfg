CONSTANTS
    up = up
    down = down
    Directions = {up}
    Modulus = 3
    MaxMoved <- MCMaxMoved
    MaxStarts = 2
    MaxQueries = 1
    MaxUnlockFailures = 1
SPECIFICATION Spec
INVARIANTS NeverOvercounts
CHECK_DEADLOCK FALSE
