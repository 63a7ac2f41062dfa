SPECIFICATION Spec
CONSTANTS
    r1 = r1
    r2 = r2
    r3 = r3
    Requests <- MCRequests
    Weight <- MCWeight
    MaxWeight = 4
    SafetyPercent = 50
    Window = 2
    Latency = 1
    BanLengths = {1, 3}
    Backoffs = {1, 3}
    Foreign = {0, 1}
    Tightened = {1}
    MaxTime = 4
    CallBy = 4
CHECK_DEADLOCK FALSE
PROPERTY HeaderWinsUpward
