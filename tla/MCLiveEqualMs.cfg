SPECIFICATION Spec
CONSTANTS
    Traces = {"t"}
    Roots = {1}
    SpanIds = {1, 2}
    EvalIds = {}
    OtherTraceIds = {}
    EvalVersions = 1
    SpanCap = 3
    Tabs = {c1, c2}
    OtherTabs = {}
    Items <- MCItems
    TraceOf <- MCTraceOf
    MaxVer <- MCMaxVer
    Cap <- MCCap
    Clients <- MCClients
    Watches <- MCWatches
    Conns = {n1, n2}
    Pollers = {p1, p2}
    MaxSubscribers = 2
    MaxPerTrace = 2
    MaxErrors = 3
    MaxStrikes = 0
    MaxMs = 3
    MaxRows = 2
    SharedMs = TRUE
    Faults = {}
    MaxFaults = 0
INVARIANTS
    BoundaryDelivered
CHECK_DEADLOCK FALSE
