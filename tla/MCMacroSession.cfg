SPECIFICATION SessionFairSpec
CONSTANTS
    Row = {1, 2}
    Expecting = {}
    Uncompilable = {}
    Plan <- MCPlan
    Option <- MCOption
    MaxLoop = 1
    Backlog = 1
    MaxStarts = 2
    MaxPauses = 1
    Port = {p, q}
    Malformed = {2}
    MaxEvents = 2
INVARIANTS
    QuietPanel
PROPERTIES
    StarvedMacroEnds
CHECK_DEADLOCK FALSE
