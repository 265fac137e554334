CONSTANTS
    Tasks = {1}
    Findings = {f}
    Tracked = {"notice", "start", "resolve"}
    Pods = 1
    OUTBOX_MAX_ATTEMPTS = 2
    reactions_enabled = FALSE
    check_runs_enabled = TRUE
    Faults = {"reconciler_crash", "post_error", "db_error", "mark_error"}
    PostBound = 1
    IdBound = 20
SPECIFICATION FairSpec
PROPERTY IntentSettles
CHECK_DEADLOCK FALSE
