\* One update from the panel.
SPECIFICATION UpdSpec
CONSTANTS
    Runs = {u1}
    Clis = {k1}
    Askers = {a1}
    NoRun = NoRun
    MaxCrash = 1
INVARIANT SuccessMeansHealthy
CHECK_DEADLOCK FALSE
