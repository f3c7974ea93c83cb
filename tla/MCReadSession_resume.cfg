SPECIFICATION Spec
CONSTANTS
    MaxTail = 2
    Commands = {}
    IgnoreCommandRecords = FALSE
    StartAtTail = TRUE
    Count = NoLimit
    NoLimit = NoLimit
    BatchSize = 1
    BatchesBuffer = 1
    MaxAttempts = 2
    ServerErrors = {"draining"}
    MaxFaults = 1
    MayClose = FALSE
    Futures = {}
INVARIANTS
    ReturnedExactly
CHECK_DEADLOCK FALSE
