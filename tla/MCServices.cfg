SPECIFICATION ServicesSpec
CONSTANTS
    t1 = t1
    t2 = t2
    Token = {t1, t2}
    Token0 = {t1}
    Creator = {k1}
    MaxTick = 20
    MinPrice = 2
    MaxPrice = 100
    Bps = 10
    MaxImpact = 2
    CreatorShare = 7
    RewardShare = 3
    MaxReward = 1
    MinBuyback = 2
    Cooldown = 1
    PoolFee = 3
    TickSpacing = 4
    InitialTick <- MCInitialTick
    TradeFees <- MCTradeFees
    MaxTrades = 2
    MaxGifts = 1
    MaxFaults = 1
    Factory = {f0, g1, g2}
    First = f0
    NoFile = NoFile
    MaxNonce = 2
    Request = {r1, r2}
    Capacity = 1
    RateCapacity = 2
    ChallengeLimit = 1
    UpdateLimit = 1
    Lifetime = 2
    Window = 1
    MaxTime = 2
    MaxChallenges = 2
    Client = {q1, q2, q3}
    QuoteKey = {x1, x2}
    None = None
    Ttl = 1
    IndexedAge = 1
    MaxCached = 1
    MaxPending = 1
    Attempts = 2
    RateWindow = 2
    RateLimit = 3
    MaxClock = 4
    root = root
    left = left
    right = right
    Hash <- MCHash
    LaunchBlock = 1
    Tolerance = 1
    MaxReplacements = 1
INVARIANTS TypeOK Solvent Accounted ProfilesCount ReportsTruly
    AuthorityFollowsRegistry FilesAgree SpentStaysSpent PublishedIsServable AvatarKept
    SingleHedgeSet 
CHECK_DEADLOCK FALSE
