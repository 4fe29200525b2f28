SPECIFICATION Spec
CONSTANTS
    Call = {c1, c2}
    Draft = {d1}
    NoDraft = NoDraft
    Tool = {"deploy_automation", "create_vault", "pause"}
    Account = {a, b}
    Nobody = Nobody
    Request = {r1, r2}
    MaxSignIns = 3
    Vault = {v1, v2}
    Owner = {o}
    NoOwner = NoOwner
    NoLabel = NoLabel
    Label = {2}
    Retries = 1
    Handler = {h1, h2}
    Kinds = {"IntervalCondition", "TimerCondition", "ERC20TransferAction", "PancakeSwapV3SwapAction", "WickWaitRebalanceCondition"}
    Fallback <- mcFallback
    OldFile <- mcOldFile
    NoFile = NoFile
    Stops = {1, 14}
    MaxChanges = 2
    MaxFailures = 1
    t1 = t1
    t2 = t2
    q1 = q1
    k1 = k1
    Query = {q1, q2}
    Keystore = {k1, k2}
    NoKey = NoKey
    Coin = {t1, t2}
    CoinDecimals <- mcCoinDecimals
    TokenLists <- mcTokenLists
    MaxHuman = 1
    DecimalsTTL = 0
    MaxMinted = 3
    MaxFaults = 1
    MaxSeconds = 1
INVARIANTS
    SignedAsAgreed
    AuditTellsTruth
    SessionOfShownAccount
    CatalogSound
    ToolsServeOwner
PROPERTIES
    AskEnds
    VaultGetsRegistered
CHECK_DEADLOCK FALSE
