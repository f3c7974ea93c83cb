SPECIFICATION Spec
CONSTANTS
    Records = {r1, r2, d1}
    Watched = {r1, r2}
    Size <- DirectIsLarger
    Flushes = {f1}
    ChannelBuffer = 1
    Setups <- SafetySetups
    NoMatch = NoMatch
    MaxStream = 3
    MaxBytes = 2
    MaxItems = 0
SYMMETRY Interchangeable
INVARIANTS
    PermitsConserved
    PositionsExact
    FlushIsDurable
    ChannelClosedLast
    ReportsAreHonest
    StreamInOrder
CHECK_DEADLOCK FALSE
