SPECIFICATION CleanedSpec
CONSTANTS
    t1 = t1
    t2 = t2
    t3 = t3
    server = server
    recovery = recovery
    NoTrace = NoTrace
    Traces = {t1, t2}
    Ingesters = {server, recovery}
    MaxDay = 3
    BatchSize = 1
    Oversized = {}
    Refused = {}
    Poison = {}
    MaxFailures = 1
    RetentionDays = 2
    SizeLimited = TRUE
CONSTRAINT Undisturbed
SYMMETRY Symmetry
INVARIANTS
    KeptBesideCleaner
PROPERTIES
    RetentionKeepsUnsent
    RacesOnlyWithIngest
