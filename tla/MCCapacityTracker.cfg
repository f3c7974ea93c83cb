SPECIFICATION Spec
CONSTANTS
    c1 = c1
    c2 = c2
    c3 = c3
    c4 = c4
    Callers = {c1, c2, c3, c4}
    Size <- MCSize
    MaxBytes = 3
    MaxItems = 2
INVARIANTS
    ItemsAreHeld
    BytesAreHeld
    WithinLimits
    NoLostWakeup
PROPERTIES
    WaitsEnd
CHECK_DEADLOCK FALSE
