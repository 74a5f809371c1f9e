SPECIFICATION ListFairSpec
CONSTANTS
    c1 = c1
    c2 = c2
    c3 = c3
    Command = {c1, c2, c3}
    Typed = {c1}
    Blank = Blank
    NotANumber = NotANumber
    NewDelay = 100
    Script <- MCScript
    Broken = Broken
    Own = Own
    MaxRows = 4
    MaxEdits = 3
    MaxLoads = 1
INVARIANTS EditsKeepList ScriptRoundTrip
PROPERTIES ButtonsRenewed LoaderRecovers
CHECK_DEADLOCK FALSE
