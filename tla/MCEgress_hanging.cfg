CONSTANTS
    Tasks = {1}
    Findings = {f}
    Tracked = {"start", "resolve", "review"}
    Pods = 1
    OUTBOX_MAX_ATTEMPTS = 2
    reactions_enabled = TRUE
    check_runs_enabled = TRUE
    Faults = {}
    PostBound = 1
    IdBound = 20
SPECIFICATION Spec
INVARIANT OpenedCheckResolved
CHECK_DEADLOCK FALSE
