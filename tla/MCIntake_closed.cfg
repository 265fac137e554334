SPECIFICATION Spec
CONSTANTS
    MaxHeads = 3
    MaxAttempts = 2
    MaxSlots = 3
    Worlds <- CloseWhileIndexing
INVARIANT ClosedStopsWork
CHECK_DEADLOCK FALSE
