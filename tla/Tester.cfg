SPECIFICATION Spec
CONSTANTS
    j1 = j1
    j2 = j2
    j3 = j3
    NoJob = NoJob
    Jobs = {j1, j2, j3}
    Branch <- MCBranch
    Silent = {j3}
    MaxRestarts = 1
INVARIANTS
    TrackedIsQueuedOrRunning
    BranchExclusive
PROPERTIES
    EndChangesOnlyByCancel
CHECK_DEADLOCK FALSE
