SPECIFICATION Spec
CONSTANTS
    MaxHeads = 3
    MaxAttempts = 2
    MaxSlots = 3
    Worlds <- Storm
INVARIANT NewestHeadReviewed
CHECK_DEADLOCK FALSE
