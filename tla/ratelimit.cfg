SPECIFICATION FairSpec
CONSTANTS
    r1 = r1
    r2 = r2
    r3 = r3
    Procs <- ThreeRequests
    Counter = 0
    Limit = 2
    Window = 2
    Stores = {"memory", "redis"}
    MaxFaults = 1
    MaxCrashes = 1
    MaxCount = 4
INVARIANTS TypeOK WindowLimit CounterArmed
PROPERTIES NotPinnedInMemory
