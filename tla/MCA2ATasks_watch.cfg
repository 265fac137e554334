CONSTANTS
    Runs = {r1}
    Callers = {ann}
    MaxHandles = 3
    MaxRequests = 2
    MaxStreams = 2
    QuotaMax = 2
    StreamCap = 1
    HookCap = 1
    Worlds <- Watched
SPECIFICATION Spec
INVARIANT StreamDeliversTheEnd
CHECK_DEADLOCK FALSE
