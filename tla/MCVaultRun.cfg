SPECIFICATION MoneySpec
CONSTANTS
    t1 = t1
    reg = reg
    o = o
    k = k
    v = v
    NoOwner = NoOwner
    NoToken = NoToken
    NoFrame = NoFrame
    Empty = Empty
    DONE = DONE
    Token = {t1}
    Account = {reg, o, k, v}
    Registry = reg
    InitialOwner = k
    NewOwner = {k}
    BPS = 2
    WAD = 2
    MAX_FEE_BPS = 1
    InitialBal <- MCInitialBal
    GasConfig <- MCGasConfig
    Amount = {1}
    FeeBps = {1}
    TokenUnit = {2}
    Gas = {1}
    GasPrice = {2}
    Price = {2}
    MAX_UINT = 15
    Recipient = o
    Output = {1}
    VaultAddr = v
    FirstOwner = o
    Executor = {o, k}
    DepositToken = t1
    RegistrySet = TRUE
    MAX_STEPS = 3
    Program <- MCProgram
    Context <- MCContext
    SlotInput = {2}
    MaxTime = 1
    MaxAutomations = 1
    Tick <- mcTick
    SqrtRatio <- mcSqrtRatio
    Spacing = 3
    Delta = {0, 1, 3}
    Q96 = 12
    Percent = {50, 100}
    MaxBalance = 3
    Funds = {0, 9, 30}
    Fleet <- mcFleet
    MaxMoves = 2
INVARIANTS TypeOK StepInBounds VaultSolvent LpStepsWork KeeperServes
PROPERTIES KeeperNeedsTrigger DepositPaysOnlyKeepers
