SPECIFICATION Spec
CONSTANTS
    t1 = t1
    t2 = t2
    t3 = t3
    t4 = t4
    server = server
    recovery = recovery
    NoTrace = NoTrace
    Traces = {t1, t2, t3}
    Ingesters = {server, recovery}
    MaxDay = 1
    BatchSize = 2
    Oversized = {}
    Refused = {}
    Poison = {}
    MaxFailures = 0
INVARIANTS
    AcceptedStaysAboveCommit
