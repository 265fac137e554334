CONSTANTS
    Tasks = {1}
    Findings = {f}
    Tracked = {"review", "reply", "notice", "verdict"}
    Pods = 2
    OUTBOX_MAX_ATTEMPTS = 2
    reactions_enabled = TRUE
    check_runs_enabled = FALSE
    Faults = {"handler_crash", "pod_death"}
    PostBound = 1
    IdBound = 20
SPECIFICATION Spec
INVARIANT FinalizedLeavesIntent
PROPERTIES NoApologyOverContent NoThumbOverFindings
CHECK_DEADLOCK FALSE
