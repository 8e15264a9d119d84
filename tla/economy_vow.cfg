SPECIFICATION FairSpec
CONSTANTS
    r1 = r1
    r2 = r2
    r3 = r3
    pebble = pebble
    gem = gem
    Procs <- TwoRequests
    Kinds <- VowKinds
    SlotCount = 1
    MaxLayers = 1
    Interval = 1
    Rate = 2
    PullCost = 1
    Cooldown = 1
    Items <- TwoSkins
    RarityOf <- MixedSkins
    VowSize = 2
    VowCosts = {2}
    AllowDebug = TRUE
    MaxVows = 2
    MaxTicks = 2
    MaxSkew = 0
INVARIANTS ItemLedger WalletLedger
PROPERTIES RequestsEnd ImplementsLedger
