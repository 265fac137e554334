CONSTANTS
    Tasks = {1}
    Findings = {f}
    Tracked = {"review", "resolve"}
    Pods = 2
    OUTBOX_MAX_ATTEMPTS = 2
    reactions_enabled = TRUE
    check_runs_enabled = TRUE
    Faults = {"handler_crash"}
    PostBound = 1
    IdBound = 20
SPECIFICATION Spec
INVARIANT CheckMatchesReview
CHECK_DEADLOCK FALSE
