CONSTANTS
    Files <- TwoFiles
    Scripts <- Answers
    MaxTurns = 3
    MaxBatches = 1
    MaxFilesRead = 2
    MaxSearches = 1
    MaxBounces = 1
    Breaker = 2
    MaxCycles = 3
    RecorderCap = 8
    MaxAttempts = 2
    Worlds <- Silent
SPECIFICATION Spec
INVARIANT GapsAreNamed
CHECK_DEADLOCK FALSE
