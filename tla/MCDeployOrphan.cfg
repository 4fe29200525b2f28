CONSTANTS
    r1 = r1
    r2 = r2
    r3 = r3
    s1 = s1
    s2 = s2
    Row = {r1, r3}
    Session = {s1}
    Graph <- MCGraph
    Name = {"a", "b"}
    CacheTTL = 1
    MaxTime = 1
    MaxDeploys = 2
    MaxEvents = 0
SPECIFICATION Spec
CHECK_DEADLOCK FALSE
PROPERTIES
    LiveNotOrphaned
