SPECIFICATION Spec
CONSTANTS
    MaxTail = 3
    Commands = {1}
    IgnoreCommandRecords = TRUE
    StartAtTail = FALSE
    Count = 2
    NoLimit = NoLimit
    BatchSize = 2
    BatchesBuffer = 1
    MaxAttempts = 2
    ServerErrors = {"retryable", "fatal", "draining", "eof"}
    MaxFaults = 2
    MayClose = TRUE
    Futures = {f1}
INVARIANTS
    TypeOK
    ReturnedExactly
    CaughtUpIsTrue
    EndIsComplete
CHECK_DEADLOCK FALSE
