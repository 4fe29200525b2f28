CONSTANTS
    v1 = v1
    v2 = v2
    k1 = k1
    k2 = k2
    k3 = k3
    h1 = h1
    h2 = h2
    Vault <- MCVault
    Automation = {0}
    Handler = {h1, h2}
    NoRow = NoRow
    MaxReports = 3
    Key <- MCKey
    Event <- FailureEvent
    CreatedAtBlock <- MCCreatedAt
    Confirmations = 0
    MaxRange = 2
    StartBlock = 0
    NoStart = NoStart
    NoCursor = NoCursor
    MaxBlocks = 2
    MaxReorgs = 0
    MaxFaults = 0
    MaxCrashes = 0
SPECIFICATION Spec
SYMMETRY HandlerSymmetry
CHECK_DEADLOCK FALSE
INVARIANTS
    LedgerExact
PROPERTIES
    FailureClosedBySuccess
