SPECIFICATION StoreReadsSpec
CONSTANTS
    g = g  a = a  b = b
    Hash <- MCHash
    LaunchBlock = 2
    Tolerance = 1
    MaxReplacements = 1
INVARIANT OneCheckpoint
CHECK_DEADLOCK FALSE
