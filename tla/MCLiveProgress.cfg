SPECIFICATION FairSpec
CONSTANTS
    Traces = {"t"}
    Roots = {1}
    SpanIds = {1, 2, 3}
    EvalIds = {}
    OtherTraceIds = {}
    EvalVersions = 1
    SpanCap = 2
    Tabs = {"c1"}
    OtherTabs = {}
    Items <- MCItems
    TraceOf <- MCTraceOf
    MaxVer <- MCMaxVer
    Cap <- MCCap
    Clients <- MCClients
    Watches <- MCWatches
    Conns = {"n1"}
    Pollers = {"p1"}
    MaxSubscribers = 2
    MaxPerTrace = 2
    MaxErrors = 2
    MaxStrikes = 0
    MaxMs = 3
    MaxRows = 3
    SharedMs = FALSE
    Faults = {"fetch", "drop"}
    MaxFaults = 1
PROPERTIES
    PollersEnd
    RowsArrive
CHECK_DEADLOCK FALSE
