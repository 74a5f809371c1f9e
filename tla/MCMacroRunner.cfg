SPECIFICATION FairSpec
CONSTANTS
    Row = {1, 2, 3}
    Expecting = {2, 3}
    Uncompilable = {3}
    Plan <- MCPlan
    Option <- MCOption
    MaxLoop = 2
    Backlog = 2
    MaxStarts = 2
    MaxPauses = 2
INVARIANTS
    SendsAtMostOne
    RowsInOrder
PROPERTIES
    ExpectAnswered
    RunEnds
CHECK_DEADLOCK FALSE
