SPECIFICATION Spec
CONSTANTS
    r1 = r1
    r2 = r2
    t1 = t1
    t2 = t2
    Procs <- TwoRequests
    Kinds = {"login", "logout"}
    Tickets <- TwoTickets
    MaxSessions = 2
    MaxFaults = 0
    SlowHolders = FALSE
    StoreSurvives = TRUE
PROPERTIES LogoutSparesNewSession
CHECK_DEADLOCK FALSE
