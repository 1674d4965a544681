SPECIFICATION MCSpec
CONSTANTS
    Requests = {"a", "b", "e", "m"}
    MaxAttempts = 2
    RowCount <- MCRowCount
    Malformed = {"m"}
    Capacity = 1
    MaxRows = 2
    MaxFailures = 1
    MaxCrashes = 1
INVARIANTS
    Accounted
    SpanBeforeContent
    RetriesDoNotDuplicate
    MemoryBounded
    DrainedOnExit
PROPERTIES
    ImplementsIngest
    RowsLeaveMemory
    StopTerminates
