SPECIFICATION Spec
CONSTANTS
    r1 = r1
    r2 = r2
    pull = pull
    streak = streak
    Procs <- OneRequest
    Items <- OneItem
    MaxRetries = 2
    MaxFaults = 0
INVARIANTS UnsyncedIsRetried
