CONSTANTS
    Handlers = {h1, h2}
    Daemons = {d1, d2}
    Pollers = {p1}
    InstLists = {none0}
    NoInst = none0
    Alerts = {defaults}
    DefaultAlerts = defaults
    Ops = {"start", "stop", "alerts"}
    None = None
    CrashPoints = {}
    Disconnects = TRUE
    DiskFaults = FALSE
SPECIFICATION FairSpec
INVARIANTS NoOrphanDaemon
PROPERTIES HandlersAnswer CancelledDrains
