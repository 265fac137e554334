SPECIFICATION Spec
CONSTANTS
    MaxHeads = 3
    MaxAttempts = 2
    MaxSlots = 3
    Worlds <- DroppedMention
INVARIANT MentionSurvivesDrop
CHECK_DEADLOCK FALSE
