SPECIFICATION Spec
CONSTANTS
    a1 = a1  a2 = a2  a3 = a3  a4 = a4
    b1 = b1  b2 = b2  b3 = b3  b4 = b4  d3 = d3  d4 = d4
    t1 = t1  t2 = t2  h1 = h1  h2 = h2  Zero = Zero  NoHash = NoHash
    Block <- MCBlock
    Chains <- MCChains
    Logs <- MCLogs
    Token <- MCToken
    Holder <- MCHolder
    Confirmations = 1
    BatchSize = 2
    ReorgDepth = 2
    MaxHeight = 4
    MaxReplacements = 2
    MaxFaults = 1
INVARIANTS TypeOK RowsVouch MaterializedFromEvents NoOverdraft StoredIsPublished
PROPERTY ImplementsStore
CHECK_DEADLOCK FALSE
