SPECIFICATION ServicesSpec
CONSTANTS
    Keys = {"x", "y", "z"}
    Capacity = 3
    Cost = 3
    Rate = 2
    MaxKeys = 2
    MaxTime = 2
    MaxSteps = 1
    Visitors = {"v1", "v2"}
    MaxConcurrent = 1
    DailyBudget = 2
    Tries = 2
    MaxDay = 2
    MaxRestarts = 1
    Readers = {"r1", "r2"}
    Ttl = 2
    Timeout = 2
    MaxClock = 6
    RowHeight = 2
    Overscan = 1
    Fallback = 5
    Boxes = {3, 5}
    MostRows = 6
    Size = 4
    RootSpan = 3
    MaxAsks = 3
    Chats = {"c1", "c2"}
    Blocks = {"b"}
    MaxInits = 3
    Ops = {"o1", "o2"}
    MaxModelSteps = 3
    MaxTools = 1
    Names <- Libraries
    Instrumentors = {"oa", "lc"}
    LoaderOf <- Loaders
    Leaky = {"lc"}
    MaxNames = 2
    MaxPyInits = 3
    KeySets <- TwoKeys
    MaxWritten = 1
    Count = 3
    Limit = 2
    MaxRetries = 1
    Low = 1
    High = 5
    Threshold = 3
    Replies <- JudgeReplies
    RawRules <- SomeRules
    MaxRules = 2
    MaxPasses = 2
    TraceSpans <- ThreeSpans
    Of <- SomeSpans
    SpanCap = 3
    EventCap = 1
    MaxRows = 4
    MaxNow = 4
    Durations = {2, 3}
    Pauses = {1}
    MaxRuns = 3
    MaxAge = 17
    TreeSize = 3
    Lost = {9}
    Tokens <- PowersOfTwo
INVARIANTS
    RateHonoured CapsHonoured RowsMounted PageFollowsReader TreeIsSound
    RuntimeTransparent ContentMoves OutcomesHonest ViewsAgree
PROPERTIES
    LimiterHonest ClicksSettle OutageReported WaterfallSound
    HooksBalanced BoundedMapSpec VerdictsHold DemoDataSound
CHECK_DEADLOCK FALSE
