CONSTANTS
    Runs = {r1}
    Callers = {ann}
    MaxHandles = 3
    MaxRequests = 2
    MaxStreams = 2
    QuotaMax = 2
    StreamCap = 1
    HookCap = 1
    Worlds <- TwoHandles
SPECIFICATION Spec
INVARIANT EndedIsSweepable
CHECK_DEADLOCK FALSE
