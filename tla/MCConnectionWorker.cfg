SPECIFICATION FairSpec
CONSTANTS
    gui = gui
    file = file
    Senders <- MCSenders
    Owner = gui
    ReadChunk = 2
    BatchThreshold = 2
    BatchTimeout = 2
    MaxBytes = 3
    MaxSends = 2
INVARIANTS
    TrafficKept
PROPERTIES
    WorkerProgresses
    ImplementsLifecycle
CHECK_DEADLOCK FALSE
