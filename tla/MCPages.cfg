SPECIFICATION PagesSpec
CONSTANTS
    Ask <- MCAsk
    NoAsk <- MCNoAsk
    ExecutionAge = 0
    QuoteAge = 1
    MaxTxs = 3
    Metadata = {m1, m2}
    Fee = {0, 1, 2}
    Nothing = Nothing
    MaxSent = 2
    MaxFees = 2
    None = None
    MaxTraded = 3
    MaxPending = 2
    FeedLimit = 3
    MaxHeight = 3
    MaxOrphans = 1
    Card = {page, tab}
    Always = {page}
    NoSnapshot = NoSnapshot
    MaxMade = 2
    MaxGenerated = 3
    Connector = {rabby, other, frame}
    Safe = frame
    Control = {desktop, mobile}
    NoConnector = NoConnector
    MaxPrompts = 2
INVARIANTS SentAsShown TradesCovered LaunchedAsDescribed  CountedOnce
    GuessesAreReplaced CardHolds SingleFlight
PROPERTIES RememberedStaysShown 
CHECK_DEADLOCK FALSE
