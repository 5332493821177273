\* Outages, kills, ambiguous commits, partial WAL lines.
SPECIFICATION FairSpec
CONSTANTS
    r1 = r1
    r2 = r2
    h1 = h1
    h2 = h2
    Corrupt = Corrupt
    ReadCount = 1
    Rec = {r1, r2}
    Handler = {h1}
    Faults = {"redis", "db", "crash", "commit", "torn"}
    MaxSends = 1
    MaxFaults = 3
PROPERTIES EventuallyStored WalDrains
CHECK_DEADLOCK FALSE
