CONSTANTS
    n1 = n1  n2 = n2  n3 = n3
    Vin = {n1, n2, n3}
    Position <- MCPosition
    UpAtStart = {n1, n2, n3}
    Start = 2
    Lag = 1
    MaxAge = 1
    MaxTip = 3
    MaxReports = 3
    MaxSideBlocks = 1
    MaxRestarts = 1
    MaxOutages = 1
SPECIFICATION Spec
INVARIANTS ReachableIsNotBlamed
CHECK_DEADLOCK FALSE
