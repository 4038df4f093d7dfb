SPECIFICATION Spec
CONSTANTS
    NoId = "none"
    NoTool = "none"
    Now = 99
    Window = 1
    None = None
    Sessions = {s1}
    Procs = {p1}
    MaxRows = 5
    MaxFaults = 0
    MaxUpgrades = 1
    MaxEvents = 1
INVARIANTS
    OnlyNewTurns
CHECK_DEADLOCK FALSE
