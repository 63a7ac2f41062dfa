SPECIFICATION QuotingSpec
CONSTANTS
    Q = 64
    FeeUnits = 10
    Fee = 1
    MinTick <- MCMinTick
    MaxTick = 12
    Spacing = 2
    SqrtAt <- MCSqrtAt
    Positions <- MCPositions
    Starts <- MCStarts
    Inputs <- MCInputs
    Scan = 3
    MaxTicks = 3
    MaxBatch = 2
    MaxCrossings = 3
    NoPrice = NoPrice
CHECK_DEADLOCK FALSE
INVARIANT
    QuoterAgreement
