SPECIFICATION Spec
CONSTANTS
    None = None
    Edit <- MCEdit
    Theme <- MCTheme
    Language = {"en", "ko"}
    ColorFile <- MCColorFile
    c1 = c1
    c2 = c2
    c3 = c3
    Command <- MCCommand
    MaxHistory = 2
    Depth = 2
    Width = {500}
    Size = {24}
    MaxStarts = 2
    MaxActs = 3
    MaxSends = 3
    MaxFaults = 1
INVARIANTS
    AppearanceAgrees
    HistoryRecent
PROPERTIES
    LossIsReported
    ComesBack
    EchoFollows
SYMMETRY Commands
CHECK_DEADLOCK FALSE
