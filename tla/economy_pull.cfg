SPECIFICATION Spec
CONSTANTS
    r1 = r1
    r2 = r2
    r3 = r3
    pebble = pebble
    gem = gem
    Procs <- TwoRequests
    Kinds <- PullKinds
    SlotCount = 2
    MaxLayers = 1
    Interval = 2
    Rate = 1
    PullCost = 1
    Cooldown = 2
    Items <- OneSkin
    RarityOf <- CommonSkin
    VowSize = 1
    VowCosts = {1}
    AllowDebug = FALSE
    MaxVows = 2
    MaxTicks = 5
    MaxSkew = 1
SYMMETRY Symmetry
INVARIANTS TypeOK WalletLedger NoDoubleAccrual LayerLedger FastPathJustified GrowthPaced
PROPERTIES PullSpacing OnlyPurchasesCharge ImplementsLedger NoGrowthLost
