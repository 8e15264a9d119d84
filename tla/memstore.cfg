SPECIFICATION FairSpec
CONSTANTS
    limit = limit
    session = session
    Keys <- TwoKeys
    Values <- SomeValues
    TTLs <- SomeTTLs
    MaxVal = 3
PROPERTIES ImplementsMap Reclaimed
