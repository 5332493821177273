\* One update from the panel and one from a shell, a status request and a
\* restart; two operators with two requests at one router, one change made on
\* it by hand and one failure.
SPECIFICATION MCSpec
CONSTANTS
    Runs = {u1}
    Clis = {k1}
    Askers = {a1}
    NoRun = NoRun
    MaxCrash = 1
    Desk = {o1, o2}
    Asks <- MCAsks
    Routers0 <- MCRouters
    Provisioned = {"pppoe", "hotspot"}
    MaxAsks = 2
    MaxSnaps = 2
    MaxHand = 1
    MaxRtrFaults = 1
INVARIANTS StreamComplete 
SYMMETRY Symmetry
CHECK_DEADLOCK FALSE
