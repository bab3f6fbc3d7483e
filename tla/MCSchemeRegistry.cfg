SPECIFICATION Spec
CONSTANTS
    Procs = {p1, p2}
    NoProc = NoProc
    Ids = {"a", "b"}
    Defs <- MCDefs
    Caps = {"x", "y"}
    NoDef = NoDef
    Directories <- MCDirectories
    Ops = {"Register", "Get", "Has", "HasCapability", "ValidateCapability", "SchemeIDs", "Summary"}
INVARIANTS
    OneWinnerPerScheme
    MapWritesAreExclusive
    SummaryIsSnapshot
PROPERTIES
    OnlySummaryBlocks
CHECK_DEADLOCK FALSE
