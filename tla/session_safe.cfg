SPECIFICATION FairSpec
CONSTANTS
    r1 = r1
    r2 = r2
    t1 = t1
    t2 = t2
    Procs <- TwoRequests
    Kinds <- AllKinds
    Tickets <- TwoTickets
    MaxSessions = 3
    MaxFaults = 1
    SlowHolders = FALSE
    StoreSurvives = TRUE
INVARIANTS TypeOK OneLiveSession TicketUsedOnce RefreshTokenSpentOnce
PROPERTIES LocksFreed
CHECK_DEADLOCK FALSE
