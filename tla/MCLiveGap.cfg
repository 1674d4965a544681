SPECIFICATION Spec
CONSTANTS
    Traces = {"t"}
    Roots = {}
    SpanIds = {2, 3, 4}
    EvalIds = {}
    OtherTraceIds = {}
    EvalVersions = 1
    SpanCap = 3
    Tabs = {c1, c2}
    OtherTabs = {}
    Items <- MCItems
    TraceOf <- MCTraceOf
    MaxVer <- MCMaxVer
    Cap <- MCCap
    Clients <- MCClients
    Watches <- MCWatches
    Conns = {n1, n2}
    Pollers = {p1, p2}
    MaxSubscribers = 2
    MaxPerTrace = 2
    MaxErrors = 3
    MaxStrikes = 0
    MaxMs = 3
    MaxRows = 3
    SharedMs = FALSE
    Faults = {"drop"}
    MaxFaults = 1
INVARIANTS
    NoGap
CHECK_DEADLOCK FALSE
