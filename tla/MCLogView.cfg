SPECIFICATION LogSpec
CONSTANTS
    MaxLines = 5
    Text = {2, 3}
    Piece = {1, 2}
    MaxWritten = 9
    MaxClicks = 8
INVARIANTS
    LogIsRecent
    FilterFollows
PROPERTIES
    FindIsCyclic
CHECK_DEADLOCK FALSE
