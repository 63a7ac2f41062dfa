SPECIFICATION Spec
CONSTANTS
    c1 = c1
    c2 = c2
    t1 = t1
    t2 = t2
    q1 = q1
    q2 = q2
    Audited <- MCAudited
    Listings <- MCListings
    Verdict <- MCVerdict
    NetsOf <- MCNetsOf
    NoNet = NoNet
    AuditFloor = 2
    Offset = 2
    Within = 1
    SameCycle = 1
    CycleGaps = {1, 2}
    LastInstant = 3
    MaxDecisions = 3
    MaxSlips = 1
    Readers <- MCCallers
    Askers <- MCCallers
    Pickers <- MCCallers
    Targets <- MCTargets
    Reread = 2
    Span = 1
    Ticks <- MCTicks
    ReadBy = 1
    MaxTime = 4
    Ttl = 2
    Grace = 2
    GasTtl = 2
    FetchBy = 1
    LastGas = 5
    Tiers <- MCTiers
    Ranks <- MCRanks
    RefreshEvery = 2
    QuoteBy = 1
    LastPick = 4
    MaxCycles = 2
    StoreFaults = 2
    Q = 64
    FeeUnits = 10
    Fee = 1
    MinTick <- MCMinTick
    MaxTick = 12
    Spacing = 2
    SqrtAt <- MCSqrtAt
    Positions <- MCAbutting
    Starts <- MCStarts
    Inputs <- MCInputs
    Scan = 3
    MaxTicks = 3
    MaxBatch = 2
    MaxCrossings = 3
    NoPrice = NoPrice
CHECK_DEADLOCK FALSE
INVARIANTS
    TypeOK
    EntryOfOneRead
    EveryObservationAccounted
    QuoteExact
    AuditFaithful
PROPERTIES
    PriceFresh
    TicksFresh
    NativePriceFresh
    TierFresh
    RecordingEnds
