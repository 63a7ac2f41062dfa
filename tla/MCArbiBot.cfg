SPECIFICATION LiveSpec
CONSTANTS
    Limit = 2
    MaxUnsaved = 1
    Results <- MCResults
    MaxErrors = 2
    MaxOpps = 2
    MaxDay = 1
    MaxPnl = 2
INVARIANTS
    TypeOK
    PnlExact
    HaltSurvivesRestart
PROPERTIES
    NoTradePastLimit
    StopsWhenAsked
    
