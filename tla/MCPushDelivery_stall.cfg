CONSTANTS
    Configs = {c1}
    Workers = {w1, w2}
    max_attempts = 2
    max_events_per_claim = 2
    push_config_cap = 1
    Faults <- AllFaults
    NoConfig = NoConfig
    EventBound = 3
    AttemptBound = 3
SPECIFICATION FairSpec
INVARIANT NothingSkipped
PROPERTY EventSettles
CHECK_DEADLOCK FALSE
