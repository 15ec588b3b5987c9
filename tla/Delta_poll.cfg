CONSTANTS
    k1 = k1  k2 = k2  p1 = p1
    Keys = {k1, k2}
    Pollers = {p1}
    Watches <- Alone
    Kinds = {"waits", "indexes", "files"}
    TopN = 2
    MaxGap = 1
    MaxBefore = 1
    MaxTime = 2
    MaxGrowth = 2
    MaxRestarts = 1
    MaxFaults = 1
SPECIFICATION Spec
SYMMETRY KeySymmetry
INVARIANTS RowsAreWindows RowsAreExact  NeverOverbooked
PROPERTY NothingSkipped
