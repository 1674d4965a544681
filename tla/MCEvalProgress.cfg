SPECIFICATION FairSpec
CONSTANTS
    N = 3
    Last = 2
    Spans <- MCSpans
    Start <- MCStart
    Contents = {"h1", "h2"}
    Content <- MCContent
    Sampled = {2, 3}
    Configs = {"g1"}
    FirstConfig = "g1"
    Keys = {"k"}
    BatchLimit = 2
    Overlap = 1
    Lookback = 4
    Window = 2
    Runners = {"r"}
    Editors = {}
    MaxVersion = 1
    MaxTime = 3
    MaxAborts = 1
INVARIANTS
    SignalsSpaced
PROPERTIES
    InTimeScored
CHECK_DEADLOCK FALSE
