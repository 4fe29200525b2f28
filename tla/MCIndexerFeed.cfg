CONSTANTS
    v1 = v1
    v2 = v2
    k1 = k1
    k2 = k2
    k3 = k3
    h1 = h1
    h2 = h2
    Vault <- MCVault
    Automation = {0}
    Handler = {}
    NoRow = NoRow
    MaxReports = 0
    Key = {k2, k3}
    Event <- FeedEvent
    CreatedAtBlock <- MCCreatedAt
    Confirmations = 1
    MaxRange = 2
    StartBlock = NoStart
    NoStart = NoStart
    NoCursor = NoCursor
    MaxBlocks = 4
    MaxReorgs = 1
    MaxFaults = 2
    MaxCrashes = 1
SPECIFICATION Spec
CHECK_DEADLOCK FALSE
INVARIANTS
    RowsExact
    PushedOnce
PROPERTIES
    FeedSpec
    EventuallyRecorded
