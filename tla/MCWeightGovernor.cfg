SPECIFICATION LiveSpec
CONSTANTS
    r1 = r1
    r2 = r2
    r3 = r3
    Requests <- MCRequests
    Weight <- MCWeight
    MaxWeight = 4
    SafetyPercent = 50
    Window = 2
    Latency = 1
    BanLengths = {1, 4}
    Backoffs = {1}
    Foreign = {1}
    Tightened = {1}
    MaxTime = 7
    CallBy = 1
CHECK_DEADLOCK FALSE
INVARIANTS
    TypeOK
    LedgerExact
    WithinExchangeLimit
    OneRequestPerBan
PROPERTIES
    AdmissionFitsWindow
    EveryCallerLeaves
