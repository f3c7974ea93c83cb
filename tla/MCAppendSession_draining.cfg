SPECIFICATION Spec
CONSTANTS
    NoMatch = NoMatch
    Batches = {1, 2}
    Count <- OneRecordEach
    Size <- OneRecordEach
    Setups <- DrainedSetup
    Sessions = {1, 2, 3}
    AckBuffer = 2
    MaxFaults = 1
    MaxBytes = 0
    MaxItems = 2
    MaxAttempts = 2
INVARIANTS
    NoDuplicates
CHECK_DEADLOCK FALSE
