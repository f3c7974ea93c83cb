SPECIFICATION Spec
CONSTANTS
    NoMatch = NoMatch
    Batches = {1, 2}
    Count <- OneRecordEach
    Size <- OneRecordEach
    Setups <- AllSetups
    Sessions = {1, 2, 3}
    AckBuffer = 2
    MaxFaults = 1
    MaxBytes = 0
    MaxItems = 2
    MaxAttempts = 2
INVARIANTS
    AccountsExact
    SingleResolver
    ExactUnlessDuplicated
    CleanAfterClose
    NoDuplicates
PROPERTIES
    ImplementsOrderedAppends
    DefiniteUnlessUnread
CHECK_DEADLOCK FALSE
