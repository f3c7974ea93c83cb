SPECIFICATION FairSpec
CONSTANTS
    MaxRecords = 2
    MaxSessions = 3
    MaxInFlight = 1
    MaxFaults = 2
    MaxNacks = 2
    StartSeqNum = "earliest"
INVARIANTS
    BentoTypeOK
    NoLoss
    ResetStands
PROPERTY
    InputCloses
CHECK_DEADLOCK FALSE
