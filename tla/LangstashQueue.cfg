SPECIFICATION FairSpec
CONSTANTS
    t1 = t1
    t2 = t2
    t3 = t3
    t4 = t4
    server = server
    recovery = recovery
    NoTrace = NoTrace
    Traces = {t1, t2, t3}
    Ingesters = {server, recovery}
    MaxDay = 2
    BatchSize = 2
    Oversized = {t3}
    Refused = {t2}
    Poison = {t2}
    MaxFailures = 2
INVARIANTS
    NoAcceptedTraceLost
    SettledUpToCommit
    UniqueSeq
    ResentOnlyAfterFailure
PROPERTIES
    SettledInOrder
    ImplementsAtLeastOnce
    
