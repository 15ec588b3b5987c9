CONSTANTS
    Handlers = {h1, h2}
    Daemons = {d1, d2}
    Pollers = {p1, p2}
    InstLists = {none0, prod}
    NoInst = none0
    Alerts = {defaults}
    DefaultAlerts = defaults
    Ops = {"start", "stop", "alerts", "status"}
    None = None
    CrashPoints = {"idle", "lock", "drain", "truncate", "write"}
    Disconnects = FALSE
    DiskFaults = TRUE
SPECIFICATION Spec
SYMMETRY LifecycleSymmetry
INVARIANTS AtMostOneDaemon
PROPERTY ImplementsService
