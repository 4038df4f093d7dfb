SPECIFICATION Spec
CONSTANTS
    Agents = {a1, a2}
    Installers = {i1}
    NoAgent = NoAgent
    UpgradeMark = UpgradeMark
    MaxVersion = 3
    MaxCommands = 3
    MaxFaults = 2
SYMMETRY Symmetry
INVARIANTS PointersNameDirs EntriesTellTruth HooksFollowCurrent HookNotLost
CHECK_DEADLOCK FALSE
