SPECIFICATION Spec
CONSTANTS
    Requests = {"a", "b"}
    MaxAttempts = 1
    RowCount <- MCRowCount
    Malformed = {}
    Capacity = 1
    MaxRows = 2
    MaxFailures = 1
    MaxCrashes = 0
INVARIANTS
    BuffersThroughBlips
