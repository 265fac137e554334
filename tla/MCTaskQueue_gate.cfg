SPECIFICATION FairSpec
CONSTANTS
    Tasks = {i1, r1}
    IndexTasks = {i1}
    repo = repo
    Repos <- OneRepo
    RepoOf <- AllInRepo
    Dispatchers = {d1}
    MaxAttempts = 2
    BackoffLimit = 1
    ClaimBound = 3
    Faults = {"crash", "api_error"}
    NoTask = NoTask
INVARIANT AttemptsBounded
PROPERTY WaitingReleased
