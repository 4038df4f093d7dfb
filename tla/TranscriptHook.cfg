SPECIFICATION Spec
CONSTANTS
    NoId = "none"
    NoTool = "none"
    Now = 99
    Window = 1
    None = None
    Sessions = {s1, s2}
    Procs = {p1, p2}
    MaxRows = 4
    MaxFaults = 1
    MaxUpgrades = 1
    MaxEvents = 1
SYMMETRY Symmetry
INVARIANTS
    OneProcessPerLock
    DoneIsDelivered
    RepeatedOnlyAfterFault
    NumbersStable
CHECK_DEADLOCK FALSE
