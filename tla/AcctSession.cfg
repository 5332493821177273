\* Four records in any order, with the reaper, kills and failed commands.
SPECIFICATION MCFairSpec
CONSTANTS
    Last = 4
    Step = 3
    Word = 4
    StaleAfter = 1
    ReapAfter = 2
    MaxNow = 5
    LastSend = 2
    MaxFaults = 1
    Faults = {"crash", "live", "db"}
INVARIANTS UsageCovers ExactUndisturbed GhostFree
PROPERTY SilentCloses
CHECK_DEADLOCK FALSE
