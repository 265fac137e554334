CONSTANTS
    Runs = {r1}
    Callers = {ann}
    MaxHandles = 3
    MaxRequests = 2
    MaxStreams = 2
    QuotaMax = 2
    StreamCap = 1
    HookCap = 1
    Worlds <- OneCancel
SPECIFICATION Spec
INVARIANT PollAgreesWithLog
CHECK_DEADLOCK FALSE
