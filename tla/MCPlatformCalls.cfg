SPECIFICATION FairSpec
CONSTANTS
    NTasks = 3
    MaxAttempts = 2
    ClampMaxDelta = 1
    Patches <- MCPatches
    Worlds <- AllWorlds
    Admins = {a1, a2}
CHECK_DEADLOCK FALSE
INVARIANTS NothingLost SuppressedWasPosted AnchorsAccepted RejectedWasRejected
PROPERTIES FeedbackFollows EditsSurvive
