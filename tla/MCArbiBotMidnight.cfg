SPECIFICATION Spec
CONSTANTS
    Limit = 2
    MaxUnsaved = 0
    Results <- MCResults
    MaxErrors = 2
    MaxOpps = 1
    MaxDay = 1
    MaxPnl = 2
PROPERTY HaltIsForToday
