SPECIFICATION Spec
CONSTANTS
    Rate = 2
    Costs = {0, 3}
    Margin = 2
    MaxStall = 1
    MaxTicks = 5
    MaxSkew = 2
    MaxEvents = 3
INVARIANTS SpacedLogReconciles UnloggedIsSynced UnloggedPlausible
CHECK_DEADLOCK FALSE
