SPECIFICATION FairSpec
CONSTANTS
    big = big
    broken = broken
    stray = stray
    Traces = {big, broken, stray}
    Unlocked = {broken, stray}
    Raising = {stray}
    Pieces <- MCPieces
    MaxDay = 2
    MaxDiskErrors = 2
    MaxCrashes = 1
INVARIANTS
    
    QueuedTwiceOnlyAfterFailure

    
