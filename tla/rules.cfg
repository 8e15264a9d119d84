SPECIFICATION Spec
CONSTANTS
    Rows <- SomeRows
    MaxRows = 7
    TierRows <- SomeTiers
    VowSize = 2
    Powers = {0, 1, 2, 3, 4}
    AllowDebug = TRUE
    SlotCount = 3
    MaxLayers = 2
    Interval = 1
    MaxSteps = 3
    Seeds = {0, 1, 2, 3, 4, 5}
    MaxDays = 4
INVARIANTS WholePool RewardsExist VowRules SeedsDistribute StreakEarned
CHECK_DEADLOCK FALSE
