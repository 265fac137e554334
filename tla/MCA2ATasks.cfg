CONSTANTS
    Runs = {r1}
    Callers = {ann}
    MaxHandles = 4
    MaxRequests = 2
    MaxStreams = 2
    QuotaMax = 2
    StreamCap = 1
    HookCap = 1
    Worlds <- AllWorlds
SPECIFICATION FairSpec
INVARIANTS
    LogEndsAtFinal
    ReportedReachesLog
    StreamShowsTheEnd
    CancelLeavesAnEnd
PROPERTIES
    SweepSparesLiveRuns
    StreamCloses
CHECK_DEADLOCK FALSE
