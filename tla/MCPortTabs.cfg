SPECIFICATION Spec
CONSTANTS
    p1 = p1
    p2 = p2
    Port <- MCPort
    PortOrder <- MCPortOrder
    Results <- MCResults
    NoPort = NoPort
    MaxWorkers = 1
    SavedTabs <- MCSavedTabs
    MaxTabs = 2
    MaxScans = 2
INVARIANTS TabIsTrue ControlsFollow EveryTabIsListed
CHECK_DEADLOCK FALSE
