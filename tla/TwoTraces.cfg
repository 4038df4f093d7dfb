SPECIFICATION Spec
CONSTANTS
    Procs = {p1, p2}
    Sessions = {s1}
    NoSession = NoSession
    MaxRuns = 1
    MaxTurns = 1
    MaxStarts = 2
    MaxFaults = 0
INVARIANT OneTracePerRun
CHECK_DEADLOCK FALSE
