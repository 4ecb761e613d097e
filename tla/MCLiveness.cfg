SPECIFICATION LivenessSpec
CONSTANTS
    a1 = a1  a2 = a2  a3 = a3  a4 = a4
    b1 = b1  b2 = b2  b3 = b3  b4 = b4  d3 = d3  d4 = d4
    t1 = t1  t2 = t2  h1 = h1  h2 = h2  Zero = Zero  NoHash = NoHash
    Block <- MCBlock
    Chains <- MCChains
    Logs <- MCLogs
    Token <- MCToken
    Holder <- MCHolder
    Confirmations = 1
    BatchSize = 2
    ReorgDepth = 2
    MaxHeight = 4
    MaxReplacements = 1
    MaxFaults = 1
    Page = {p1}
    Events = 6
    Launches = {2}
    Announced = {}
    ReplayLimit = 3
    DedupeLimit = 3
    MaxBatch = 2
    MaxDrops = 3
    MaxFailures = 0
    MaxDetachments = 0
    MaxRestarts = 0
    Token0 = {t1}
    Creator = {c1}
    InitialTick <- MCInitialTick
    TradeFees <- MCTradeFees
INVARIANT NothingMissed
PROPERTIES CatchesUp  Drained PollingRecovers
CHECK_DEADLOCK FALSE
