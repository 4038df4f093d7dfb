SPECIFICATION FairSpec
CONSTANTS
    j1 = j1
    j2 = j2
    j3 = j3
    NoJob = NoJob
    Jobs = {j1, j2}
    Branch <- MCBranch
    Silent = {j2}
    MaxRestarts = 1
PROPERTIES
    CancelStopsTests
    EveryJobEnds
CHECK_DEADLOCK FALSE
