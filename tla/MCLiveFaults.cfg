SPECIFICATION Spec
CONSTANTS
    Traces = {"t", "u"}
    Roots = {}
    SpanIds = {2, 3}
    EvalIds = {}
    OtherTraceIds = {3}
    EvalVersions = 1
    SpanCap = 3
    Tabs = {c1, c2}
    OtherTabs = {d1}
    Items <- MCItems
    TraceOf <- MCTraceOf
    MaxVer <- MCMaxVer
    Cap <- MCCap
    Clients <- MCClients
    Watches <- MCWatches
    Conns = {n1, n2, n3}
    Pollers = {p1, p2}
    MaxSubscribers = 2
    MaxPerTrace = 2
    MaxErrors = 1
    MaxStrikes = 1
    MaxMs = 2
    MaxRows = 2
    SharedMs = FALSE
    Faults = {"fetch", "catchup", "drop", "hide", "slow", "unnoticed"}
    MaxFaults = 2
SYMMETRY Symmetry
INVARIANTS
    BrokerBooks
CHECK_DEADLOCK FALSE
