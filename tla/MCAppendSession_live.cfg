SPECIFICATION FairSpec
CONSTANTS
    NoMatch = NoMatch
    Batches = {1, 2}
    Count <- AsManyAsItsNumber
    Size <- OneRecordEach
    Setups <- PlainWithBreaks
    Sessions = {1, 2, 3}
    AckBuffer = 2
    MaxFaults = 1
    MaxBytes = 0
    MaxItems = 1
    MaxAttempts = 2
INVARIANTS
    AckedIsDurable
PROPERTIES
    SessionSettles
CHECK_DEADLOCK FALSE
