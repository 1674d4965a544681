SPECIFICATION FairSpec
CONSTANTS
    N = 3
    Last = 3
    Spans <- MCSpans
    Start <- MCStart
    Contents = {"h1", "h2"}
    Content <- MCContent
    Sampled = {1, 2, 3}
    Configs = {"g1"}
    FirstConfig = "g1"
    Keys = {}
    BatchLimit = 2
    Overlap = 2
    Lookback = 4
    Window = 2
    Runners = {"r"}
    Editors = {}
    MaxVersion = 1
    MaxTime = 3
    MaxAborts = 0
PROPERTIES
    InTimeScored
CHECK_DEADLOCK FALSE
