SPECIFICATION Spec
CONSTANTS
    Agents = {a1}
    Installers = {i1}
    NoAgent = NoAgent
    UpgradeMark = UpgradeMark
    MaxVersion = 2
    MaxCommands = 2
    MaxFaults = 0
INVARIANT RetryRecovers
CHECK_DEADLOCK FALSE
