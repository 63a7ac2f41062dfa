SPECIFICATION LiveSpec
CONSTANTS
    c1 = c1
    c2 = c2
    c3 = c3
    c4 = c4
    Calls <- MCCalls
    Unit = 2
    Rate = 5
    MaxConcurrency = 2
    Scale = 5
    Floor = 1
    Recovery = 1
    Horizon = 7
    CallBy = 2
CHECK_DEADLOCK FALSE
INVARIANTS
    LimiterTypeOK
    GrantsPaced
    NoStaleBurst
    NoSlotLeaks
PROPERTIES
    OnlyDelays
