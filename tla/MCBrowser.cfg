SPECIFICATION BrowserSpec
CONSTANTS
    r1 = r1
    r2 = r2
    r3 = r3
    s1 = s1
    s2 = s2
    Row = {r1, r3}
    Session = {s1, s2}
    Graph <- MCGraph
    Name = {"a", "b"}
    CacheTTL = 1
    MaxTime = 1
    MaxDeploys = 2
    MaxEvents = 1
    Run = {1, 2}
    Sum = {2}
    Rates <- mcRates
    Wealth = 3
    MaxMoves = 1
    MaxReads = 2
    PageSize = 1
    MaxRows = 2
    MaxAsked = 2
    MaxTurns = 2
SYMMETRY SessionSymmetry
INVARIANTS
    SlotsSound
    OneRowPerAutomation
    FundsTellTruth
    HistoryTellsTruth
PROPERTIES
    DeployKeepsSchedules
    DeletedWasQuiet
CHECK_DEADLOCK FALSE
