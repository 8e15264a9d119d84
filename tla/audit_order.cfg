SPECIFICATION Spec
CONSTANTS
    Rate = 2
    Costs = {1, 3}
    Margin = 2
    MaxStall = 1
    MaxTicks = 5
    MaxSkew = 0
    MaxEvents = 3
INVARIANTS HonestLogReconciles
CHECK_DEADLOCK FALSE
