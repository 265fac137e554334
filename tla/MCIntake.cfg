SPECIFICATION Spec
CONSTANTS
    MaxHeads = 3
    MaxAttempts = 2
    MaxSlots = 3
    Worlds <- AllWorlds
INVARIANTS
    OneTaskPerDelivery
    MentionLands
    PushSparesMentions
    NewestHeadReviewed
    SupersededStops
CHECK_DEADLOCK FALSE
