SPECIFICATION Spec
CONSTANTS
    p1 = p1
    p2 = p2
    w1 = w1
    w2 = w2
    w3 = w3
    None = None
    Port <- MCPort
    Worker <- MCTwoWorkers
    MaxData = 1
INVARIANTS
    EntriesMatchRunners
PROPERTIES
    CloseAllStopsEveryone
    ThreadsKeepLifecycle
CHECK_DEADLOCK FALSE
