CONSTANTS
    Handlers = {h1, h2}
    Daemons = {d1, d2}
    Pollers = {p1}
    InstLists = {none0, prod}
    NoInst = none0
    Alerts = {defaults}
    DefaultAlerts = defaults
    Ops = {"start", "alerts"}
    None = None
    CrashPoints = {}
    Disconnects = FALSE
    DiskFaults = FALSE
SPECIFICATION Spec
PROPERTY ReloadKeepsInstances
