SPECIFICATION FairSpec
CONSTANTS
    r1 = r1
    r2 = r2
    r3 = r3
    Procs <- TwoRequests
    Counter = 0
    Limit = 2
    Window = 2
    Stores = {"redis"}
    MaxFaults = 0
    MaxCrashes = 0
    MaxCount = 4
PROPERTIES NotPinned
