SPECIFICATION FairSpec
CONSTANTS
    MaxTail = 2
    Commands = {0}
    IgnoreCommandRecords = TRUE
    StartAtTail = FALSE
    Count = NoLimit
    NoLimit = NoLimit
    BatchSize = 1
    BatchesBuffer = 1
    MaxAttempts = 2
    ServerErrors = {"fatal", "draining"}
    MaxFaults = 1
    MayClose = TRUE
    Futures = {f1}
PROPERTIES
    ReaderSettles
CHECK_DEADLOCK FALSE
