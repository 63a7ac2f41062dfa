SPECIFICATION Spec
CONSTANTS
    s1 = s1
    s2 = s2
    p1 = p1
    p2 = p2
    p3 = p3
    o1 = o1
    e1 = e1
    e2 = e2
    Symbols <- MCSymbols
    MaxBookAge = 1
    FirstBackoff = 1
    MaxBackoff = 2
    NetDelay = 1
    MaxWire = 2
    MaxAged = 3
    Pairs <- MCPairs
    Synthetic <- MCSynthetic
    Denied <- MCDenied
    Floor = 1
    Ceiling = 2
    Quotes <- MCQuotes
    BookAge <- MCBookAge
    SymbolOf <- MCSymbolOf
    MiddleSymbol = s2
    LegBy = 1
    IntermediateFor = 2
    Lifetime = 2
    LastLook = 4
    Nothing = Nothing
    Failed = Failed
    Pending = Pending
    Delay = 2
    LastSample = 6
    MaxPushes = 6
    Tickets <- MCTickets
    Size = 3
    MaxReports = 3
    Calls <- MCCalls
    AmountIn <- MCAmountIn
    LeastOut <- MCLeastOut
    Fraction = 2
    Unlimited = 9
    Yields <- MCYields
    Notional = 24
    AskLadders <- MCAsks
    BidLadders <- MCBids
    Intermediates <- MCMids
    PoolPrices <- MCPrices
    FeeTiers = {100}
    OwnTier = 500
    Per = 100
    TakerFee = 1
    Gas = 1
    WithdrawalFee = 2
    BridgeGas = 2
    FloatQuote = 48
    TransferRisk = 1
    MinNet = 2
    SanityNet = 90
    PriceCap = 6
    EdgeCap = 60
    Unpriced = Unpriced
    Sightings <- MCSightings
    Gaps = {2, 6}
    Grid <- MCGrid
    StudyFloor = 2
    Latencies = {0, 5}
    Offsets = {6, 12}
    Lively = 3
    TapeLength = 5
    Records <- MCRecords
    MaxRecords = 3
    LevelDepth = 12
    GasUnits = 2
    NotionalCaps = {23, 24}
    LossLimit = 1
    Alt = Alt
    Usd = Usd
    Eth = Eth
    Markets <- MCMarkets
    Stables = {Usd}
    Wrapped = Eth
    Coins <- MCCoins
    LiquidPools <- MCPools
    Registry <- MCRegistry
    ScanChains = {"main"}
    MaxCandidates = 1
    Cooldown = 1
    LastHour = 1
    MaxStarted = 5
    StaticPairs <- MCStatic
    KnownChains = {"main", "side"}
    Policies <- MCPolicies
    Spellings <- MCSpellings
    NoToken = NoToken
CHECK_DEADLOCK FALSE
INVARIANTS
    TypeOK
    FeedCurrent
    DecisionSound
    TradeOnCurrentBooks
    PlaceboFromHistory
    OrderReportsTrue
    ExposureIsOneTrade
    SwapsAsPromised
    ClaimIsCashFlow
    
    
    UniverseSound
PROPERTIES
    FeedReturns
