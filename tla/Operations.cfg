\* Two managers with two sessions; a file of two rows imported by two runners;
\* one message and two dispatchers; a router and a device with one alert rule.
SPECIFICATION MCSpec
CONSTANTS
    m1 = m1
    m2 = m2
    p1 = p1
    p2 = p2
    Managers = {m1, m2}
    Panels = {p1, p2}
    Calls = {q1}
    Desks = {q2}
    TokenLife = 1
    CallLife = 0
    FailLimit = 1
    Must2FA = {"staff"}
    MaxAdminCalls = 1
    FileRows = {1, 2}
    RowName <- MCRowName
    Runners = {p1, p2}
    MaxDry = 2
    MaxFail = 1
    Messages = {1}
    Dispatchers = {p1, p2}
    People = {"s1", "s2"}
    Reachable = {"s1"}
    PassTimeout = 1
    StuckAfter = 1
    MaxAttempts = 2
    MaxFlips = 1
    n1 = n1
    d1 = d1
    Nases = {n1}
    Devices = {d1}
    Estates <- MCEstates
    Conds = {"disk_low"}
    RuleIds = {u1}
    RuleForms <- MCRuleForms
    DownThreshold = 2
    MaxReading = 1
    MaxRows = 3
    MaxSNMP = 1
    MaxFeed = 2
    MaxMonFaults = 1
    MaxMonEdits = 2
INVARIANTS   OneSender 
SYMMETRY Symmetry
CHECK_DEADLOCK FALSE
