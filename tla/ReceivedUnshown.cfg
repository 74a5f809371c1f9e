SPECIFICATION Spec
CONSTANTS
    p1 = p1
    p2 = p2
    Port <- MCPort
    Shown <- MCShown
    Tab = 2
    BufferSize = {1}
    MaxInputs = 2
    MaxBuffer = 4
    RingSize = 3
    Stream <- MCStream
    PacketSize = {1}
    RingOps = 2
INVARIANTS
    FlushedIsShown
CHECK_DEADLOCK FALSE
