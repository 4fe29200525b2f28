SPECIFICATION Spec
CONSTANTS
    Slot = {s1, s2}
    MaxHistory = 2
    MaxEdits = 2
    MaxVisits = 2
    DONE = 99
    MAX_STEPS = 3
    Unset = Unset
    Empty = Empty
    Odd = Odd
    PriceLog = {3, 27}
    Decimals <- mcDecimals
    PoolFee = {500}
    Automation = {a1}
    Name = {n1, n2}
    NO_SLOT = NO_SLOT
    NoName = NoName
    MaxVariables = 2
    MaxOpenings = 2
    MaxDeeds = 2
    MaxUndo = 3
    MaxActs = 3
    MaxNodes = 3
    MaxEdges = 3
    MaxForeign = 1
    t1 = t1
    t2 = t2
    me = me
    them = them
    Absent = Absent
    TokenDecimals <- mcUnits
    Allowlist = {me}
    ConditionNodes <- mcConditions
    ActionNodes <- mcActions
    Declared <- mcDeclared
    Period = {60, 120}
    MaxActions = 2
INVARIANTS
    
    FormTellsTruth
    CompiledKeepsFlow
    DraftsHonest
CHECK_DEADLOCK FALSE
