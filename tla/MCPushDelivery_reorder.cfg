CONSTANTS
    Configs = {c1}
    Workers = {w1, w2}
    max_attempts = 2
    max_events_per_claim = 3
    push_config_cap = 1
    Faults = {"stall"}
    NoConfig = NoConfig
    EventBound = 3
    AttemptBound = 3
SPECIFICATION Spec
SYMMETRY Interchangeable
PROPERTY InOrder
CHECK_DEADLOCK FALSE
