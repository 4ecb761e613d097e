SPECIFICATION DeliverySpec
CONSTANTS
    Page = {p1, p2}
    Events = 2
    Launches = {2}
    Announced = {2}
    ReplayLimit = 4
    DedupeLimit = 4
    MaxBatch = 1
    MaxDrops = 1
    MaxFailures = 1
    MaxDetachments = 1
    MaxRestarts = 1
    Request = {r1, r2}
    Cache <- Market
    TTL = 2
    MinInterval = 2
    ForceInterval = 1
    MaxVersion = 2
    MaxReorgs = 1
    MaxSourceFailures = 1
    MaxRedisFailures = 1
    MaxProcessRestarts = 0
    MaxPipe = 2
SYMMETRY DeliverySymmetry
INVARIANTS StartupObserved AppliedOnce WaitingIsServed  Fallback
PROPERTIES RefreshesSpaced
CHECK_DEADLOCK FALSE
