SPECIFICATION FairSpec
CONSTANTS
    Records = {r1, r2}
    Watched = {r1, r2}
    Size <- OneByteEach
    Flushes = {f1}
    ChannelBuffer = 1
    Setups <- LivenessSetups
    NoMatch = NoMatch
    MaxStream = 2
    MaxBytes = 1
    MaxItems = 0
INVARIANTS
    LingerArmed
PROPERTIES
    ProducerSettles
CHECK_DEADLOCK FALSE
