SPECIFICATION Spec
CONSTANTS
    Tasks = {r1}
    IndexTasks = {}
    repo = repo
    Repos <- OneRepo
    RepoOf <- AllInRepo
    Dispatchers = {d1, d2}
    MaxAttempts = 2
    BackoffLimit = 1
    ClaimBound = 3
    Faults = {"pod_death"}
    NoTask = NoTask
PROPERTY LeasedRunNeverKilled
