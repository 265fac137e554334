SPECIFICATION FairSpec
CONSTANTS
    IndexTasks = {i1, i2}
    ReviewTasks = {r1}
    Heads = 2
    MaxRetries = 1
    MaxEnqueues = 1
    Budgets <- Worlds
    None = None
CHECK_DEADLOCK FALSE
PROPERTIES IndexRunMarksWhole SweepKeepsAnIndex DeniedIsPurged
