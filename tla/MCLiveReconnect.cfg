SPECIFICATION Spec
CONSTANTS
    Traces = {"t"}
    Roots = {1}
    SpanIds = {1, 2}
    EvalIds = {1}
    OtherTraceIds = {}
    EvalVersions = 1
    SpanCap = 2
    Tabs = {c1}
    OtherTabs = {}
    Items <- MCItems
    TraceOf <- MCTraceOf
    MaxVer <- MCMaxVer
    Cap <- MCCap
    Clients <- MCClients
    Watches <- MCWatches
    Conns = {n1, n2}
    Pollers = {p1, p2}
    MaxSubscribers = 2
    MaxPerTrace = 2
    MaxErrors = 2
    MaxStrikes = 0
    MaxMs = 2
    MaxRows = 2
    SharedMs = TRUE
    Faults = {"fetch", "drop", "hide", "slow"}
    MaxFaults = 2
SYMMETRY Symmetry
INVARIANTS
    NothingMissed
    BoundaryDelivered
CHECK_DEADLOCK FALSE
