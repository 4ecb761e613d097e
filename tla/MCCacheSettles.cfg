SPECIFICATION FairCacheSpec
CONSTANTS
    r1 = r1
    r2 = r2
    Request = {r1}
    Cache <- TokenIndex
    TTL = 3
    MinInterval = 2
    ForceInterval = 1
    MaxVersion = 2
    MaxReorgs = 1
    MaxSourceFailures = 1
    MaxRedisFailures = 1
    MaxProcessRestarts = 1
    MaxPipe = 2
PROPERTIES Settles
CHECK_DEADLOCK FALSE
