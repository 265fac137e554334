SPECIFICATION FairSpec
CONSTANTS
    Tasks = {i1}
    IndexTasks = {i1}
    repo = repo
    Repos <- OneRepo
    RepoOf <- AllInRepo
    Dispatchers = {d1}
    MaxAttempts = 5
    BackoffLimit = 1
    ClaimBound = 6
    Faults <- AllFaults
    NoTask = NoTask
INVARIANTS QueuedIsClean
PROPERTIES LeasedRunNeverKilled LeasedRunEnds ImplementsLifecycle
