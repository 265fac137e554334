SPECIFICATION Spec
CONSTANTS
    MaxHeads = 3
    MaxAttempts = 2
    MaxSlots = 3
    Worlds <- GithubPush
INVARIANT PushIsReviewed
CHECK_DEADLOCK FALSE
