SPECIFICATION Spec
CONSTANTS
    NTasks = 3
    MaxAttempts = 2
    ClampMaxDelta = 1
    Patches <- MCPatches
    Worlds <- AllWorlds
    Admins = {a1, a2}
INVARIANT NearIsInline
CHECK_DEADLOCK FALSE
