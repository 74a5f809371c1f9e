SPECIFICATION FairSpec
CONSTANTS
    p1 = p1
    p2 = p2
    Port <- MCPort
    Shown <- MCShown
    Tab = 2
    BufferSize = {1, 2}
    MaxInputs = 4
    MaxBuffer = 4
    RingSize = 3
    Stream <- MCStream
    PacketSize = {1, 2}
    RingOps = 4
INVARIANTS
    Conserved
    EventsReachAll
    PacketsAreRecent
    BuffersKeepBytes
PROPERTIES
    HandedOn
CHECK_DEADLOCK FALSE
