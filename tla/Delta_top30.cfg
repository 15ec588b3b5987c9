CONSTANTS
    k1 = k1  k2 = k2  p1 = p1
    Keys = {k1, k2}
    Pollers = {p1}
    Watches <- Alone
    Kinds = {"waits"}
    TopN = 1
    MaxGap = 1
    MaxBefore = 1
    MaxTime = 2
    MaxGrowth = 2
    MaxRestarts = 0
    MaxFaults = 0
SPECIFICATION Spec
INVARIANT RowsAreWindows
