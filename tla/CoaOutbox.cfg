\* Two rows, operator requests, a NAS that may refuse, and one kill, outage of
\* Redis or failed statement anywhere.
SPECIFICATION FairSpec
CONSTANTS
    NRows = 2
    Actions = {"update", "disconnect"}
    RetryMax = 2
    MaxOps = 1
    MaxFaults = 1
    Faults = {"crash", "db", "redis", "nak"}
INVARIANTS BudgetHolds FallbackEarned DoneHonest CancelHolds
PROPERTY Settles
CHECK_DEADLOCK FALSE
