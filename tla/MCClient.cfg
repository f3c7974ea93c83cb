SPECIFICATION Spec
CONSTANTS
    r1 = r1
    r2 = r2
    r3 = r3
    h1 = h1
    Requests = {r1, r2, r3}
    Hosts = {h1}
    MaxEntries = 3
    MaxSessions = 2
    MaxAttempts = 4
    Width = 7
    Delays <- MCDelays
    MaxOthers = 1
    MaxFrameSize = 5
    ReadChunkSize = 3
    InitialCapacity = 4
    MaxFrames = 3
    Names = {1, 2, 3, 4}
    Limit = 2
    MaxChanges = 2
SYMMETRY RequestSymmetry
INVARIANTS
    TypeOK
    SessionsExact
    PoisonedIsClosed
    AppendedOnce
    FailuresAreTrue
    BackoffBounded
    FrameReaderExact
    ListedExactly
    DiscoveryExact
CHECK_DEADLOCK FALSE
