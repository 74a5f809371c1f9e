SPECIFICATION FairSpec
CONSTANTS
    a1 = a1
    p1 = p1
    p2 = p2
    None = None
    Panel <- MCPanel
    Port <- MCPort
    Loggers = 2
    Arrivals = 2
    Faults = 1
INVARIANTS
    FileIsFaithful
    RegisteredIsLogging
PROPERTIES
    WriterEnds
CHECK_DEADLOCK FALSE
