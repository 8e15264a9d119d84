SPECIFICATION FairSpec
CONSTANTS
    r1 = r1
    r2 = r2
    pull = pull
    streak = streak
    Procs <- TwoRequests
    Items <- TwoItems
    MaxRetries = 2
    MaxFaults = 3
INVARIANTS TypeOK QueuedOnce OldestFirst SettledStaysOut SteamKnows
PROPERTIES RetriesEnd
