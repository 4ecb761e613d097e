SPECIFICATION RestartedSpec
CONSTANTS
    Page = {p1, p2}
    Events = 3
    Launches = {}
    Announced = {}
    ReplayLimit = 3
    DedupeLimit = 3
    MaxBatch = 1
    MaxDrops = 0
    MaxFailures = 0
    MaxDetachments = 0
    MaxRestarts = 1
INVARIANTS NothingMissed
CHECK_DEADLOCK FALSE
