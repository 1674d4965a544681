SPECIFICATION PagesSpec
CONSTANTS
    Traces = {"t"}
    Roots = {1}
    SpanIds = {1, 2}
    EvalIds = {1}
    OtherTraceIds = {}
    EvalVersions = 1
    SpanCap = 3
    Tabs = {c1, c2}
    OtherTabs = {}
    Items <- MCItems
    TraceOf <- MCTraceOf
    MaxVer <- MCMaxVer
    Cap <- MCCap
    Clients <- MCClients
    Watches <- MCWatches
    Conns = {n1, n2}
    Pollers = {p1, p2}
    MaxSubscribers = 2
    MaxPerTrace = 2
    MaxErrors = 2
    MaxStrikes = 0
    MaxMs = 3
    MaxRows = 3
    SharedMs = FALSE
    Faults = {}
    MaxFaults = 0
    RailTabs = {"l1", "l2"}
    RailTraces = {1, 2}
    Old = {1}
    MaxRunning = 1
    RailTtl = 1
    MaxQueries = 3
    MaxFlaws = 1
SYMMETRY Symmetry
INVARIANTS
    NoGap
PROPERTIES
    SettledTabsHaveRoot
    ReadingAdvances
    RailHonest
CHECK_DEADLOCK FALSE
