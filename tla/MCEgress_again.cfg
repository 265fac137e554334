CONSTANTS
    Tasks = {1, 2}
    Findings = {f}
    Tracked = {"review", "reply", "notice"}
    Pods = 1
    OUTBOX_MAX_ATTEMPTS = 2
    reactions_enabled = FALSE
    check_runs_enabled = TRUE
    Faults = {"post_error", "cancel", "lost_response", "reconciler_crash",
              "mark_error"}
    PostBound = 2
    IdBound = 20
SPECIFICATION Spec
CONSTRAINT ReReview
INVARIANTS FindingPostedOnce DeliveredIsKnown
PROPERTY RepostedWhenUnsure
CHECK_DEADLOCK FALSE
