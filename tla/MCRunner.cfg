SPECIFICATION RunnerSpec
CONSTANTS
    N = 3
    Last = 3
    Spans <- MCSpans
    Start <- MCStart
    Contents = {"h1", "h2"}
    Content <- MCContent
    Sampled = {1, 2, 3}
    Configs = {"g1", "g2"}
    FirstConfig = "g1"
    Keys = {}
    BatchLimit = 3
    Overlap = 2
    Lookback = 4
    Window = 2
    Runners = {"r"}
    Editors = {"e"}
    MaxVersion = 2
    MaxTime = 3
    MaxAborts = 1
    ScoredSpans = {"s1", "s2"}
    VariantOf <- SpanVariants
    StartAt <- SpanStarts
    Judgments <- SomeJudgments
    SdkLookback = 1
    SdkLimit = 2
    RegressionWindow = 2
    MinSamples = 1
    Drop = 0
    MaxTicks = 2
    MaxEvents = 3
    MaxVersions = 2
INVARIANTS
    InTimeNeverPassed
    OneConfigPerVersion
    
PROPERTIES
    RunsOnlyAdd
CHECK_DEADLOCK FALSE
