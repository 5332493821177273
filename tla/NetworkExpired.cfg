\* One session, one worker and no failure: an account runs out of its time.
SPECIFICATION MCFairSpec
CONSTANTS
    Sessions = {s1}
    Handlers = {h1}
    Configs <- MCConfigs
    MaxFaults = 0
    u1 = u1
    u2 = u2
    r1 = r1
    r2 = r2
    Reqs = {r1, r2}
    Input <- MCInput
    Instances <- MCInstances
    Accounts <- MCAccounts
    ViewTTL = 1
    ReqLife = 1
    MaxEdits = 2
    MaxMisses = 1
    Names = {1, 2, 3}
    Writers = {u1, u2}
    Cap = 2
    MaxReq = 3
    Plans = {"p1", "p2"}
    Members = {m1, m2}
    Editors = {e1, eb}
    BulkEditor = eb
    MaxVer = 3
    MaxEdit = 5
    NasIds = {n1}
    Addrs = {a1}
    NoNas = NoNas
    Secrets = {1}
    Lookups = {u1, u2}
    CacheTTL = 2
    LoadLife = 1
    MaxNasEdits = 2
    MaxDbFaults = 1
PROPERTY ExpiredEnforced
CHECK_DEADLOCK FALSE
