SPECIFICATION ScheduleSpec
CONSTANTS
    t1 = t1
    reg = reg
    o = o
    k = k
    v = v
    dai = dai
    eth = eth
    NoOwner = NoOwner
    NoToken = NoToken
    NoFrame = NoFrame
    Empty = Empty
    DONE = DONE
    Token = {t1}
    Account = {reg, o, k, v}
    Registry = reg
    InitialOwner = o
    NewOwner = {}
    BPS = 2
    WAD = 2
    MAX_FEE_BPS = 1
    InitialBal <- MCInitialBal
    GasConfig <- MCGasConfig
    Amount = {}
    FeeBps = {}
    TokenUnit = {1}
    Gas = {2}
    GasPrice = {1}
    Price = {2}
    MAX_UINT = 15
    Recipient = o
    Output = {3}
    VaultAddr = v
    FirstOwner = o
    Executor = {o, k}
    DepositToken = t1
    RegistrySet = TRUE
    MAX_STEPS = 4
    Program <- MCProgram
    Context <- MCContext
    SlotInput = {2}
    MaxTime = 4
    MaxAutomations = 2
    Asset = {dai, eth}
    LT <- mcLT
    LTV <- mcLTV
    Balance <- mcBalance
    AssetPrice = {4, 7}
    FixedAmount = {0, 1, 3}
    Target = {20, 21, 25, 40}
    Unit = 2
    Norm = 10
    Bps = 100
    Wad = 20
    MinTargetHF = 21
    HaircutBps = 25
INVARIANTS SchedulesKept AaveStepsWork
PROPERTY RunEnds
