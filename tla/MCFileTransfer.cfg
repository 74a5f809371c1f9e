SPECIFICATION FairSpec
CONSTANTS
    p1 = p1
    None = None
    Transfers = 2
    Port <- MCPort
    Size = 2
    Threshold = 0
    MaxOpens = 1
INVARIANTS
    QueueBounded
    BeliefsHold
    CancelledSendsAtMostOne
PROPERTIES
    SuccessIsWhole
    NobodyWaitsForEver
CHECK_DEADLOCK FALSE
