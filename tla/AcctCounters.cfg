\* Outages, kills, ambiguous answers, lost replies and WAL errors; NASes with
\* and without gigawords, through several wraps.
SPECIFICATION MCSpec
CONSTANTS
    r1 = r1
    r2 = r2
    h1 = h1
    h2 = h2
    Corrupt = Corrupt
    ReadCount = 2
    Rec = {r1}
    Handler = {h1, h2}
    Faults = {"redis", "db", "crash", "xadd", "commit", "read", "disk"}
    MaxSends = 3
    MaxFaults = 2
    Word = 8
    MaxStep = 17
    MaxTotal = 120
SYMMETRY Symmetry
INVARIANTS PersistedExact Conserved DeltaExact
 
CHECK_DEADLOCK FALSE
