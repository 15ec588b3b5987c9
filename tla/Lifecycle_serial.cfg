CONSTANTS
    Handlers = {h1}
    Daemons = {d1, d2}
    Pollers = {p1, p2}
    InstLists = {none0, prod}
    NoInst = none0
    Alerts = {defaults, edited}
    DefaultAlerts = defaults
    Ops = {"start", "stop", "alerts", "status"}
    None = None
    CrashPoints = {"idle", "lock", "drain", "truncate"}
    Disconnects = FALSE
    DiskFaults = FALSE
SPECIFICATION Spec
INVARIANTS RunsWhatFileSays AckedIsPersisted EditsSurvive
PROPERTY ReloadKeepsInstances
