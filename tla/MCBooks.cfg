SPECIFICATION BooksSpec
CONSTANTS
    t1 = t1
    reg = reg
    o = o
    v1 = v1
    v2 = v2
    NoOwner = NoOwner
    Token = {t1}
    Account = {reg, o, v1, v2}
    Registry = reg
    InitialOwner = o
    NewOwner = {NoOwner, v1, v2}
    BPS = 2
    WAD = 2
    MAX_FEE_BPS = 1
    InitialBal <- MCInitialBal
    GasConfig <- MCGasConfig
    Amount = {0, 1, 2}
    FeeBps = {1, 2}
    TokenUnit = {1, 4}
    Gas = {0, 1}
    GasPrice = {0, 1, 3}
    Price = {0, 2}
    Gross = {2}
    RangeLength = {1}
    Retention = 1
    MaxEvents = 3
    MaxClock = 2
    Tick <- mcTick
    SqrtRatio <- mcSqrtRatio
    Spacing = 3
    Delta = {0, 1, 3}
    Q96 = 12
    Percent = {50, 100}
    MaxBalance = 3
    Funds = {0, 1, 9, 30}
    NFTs <- mcNFTs
    LegPrice <- mcLegPrice
    Unpriced = Unpriced
    MaxShifts = 1
    Days = 2
    MaxPoints = 3
    MaxMoments = 4
    Past <- mcPast
    MaxUnderWay = 2
    MaxKnobs = 2
INVARIANTS RegistryTypeOK RegistrySolvent EstimateCoversCharge CockpitTellsTruth LpRowsTrue PanelsTellTruth
PROPERTIES SurplusNeverSpent
SYMMETRY MCSymmetry
CHECK_DEADLOCK FALSE
