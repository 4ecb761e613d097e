SPECIFICATION CacheSpec
CONSTANTS
    r1 = r1
    r2 = r2
    Request = {r1, r2}
    Cache <- Analytics
    TTL = 3
    MinInterval = 2
    ForceInterval = 1
    MaxVersion = 2
    MaxReorgs = 0
    MaxSourceFailures = 1
    MaxRedisFailures = 0
    MaxProcessRestarts = 0
    MaxPipe = 3
SYMMETRY RequestSymmetry
PROPERTIES RefreshCovers
CHECK_DEADLOCK FALSE
