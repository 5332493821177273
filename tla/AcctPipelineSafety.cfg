\* Every fault but a partial WAL line.
SPECIFICATION Spec
CONSTANTS
    r1 = r1
    r2 = r2
    h1 = h1
    h2 = h2
    Corrupt = Corrupt
    ReadCount = 2
    Rec = {r1, r2}
    Handler = {h1, h2}
    Faults = {"redis", "db", "crash", "xadd", "disk", "read", "commit", "lookup"}
    MaxSends = 2
    MaxFaults = 2
SYMMETRY Symmetry
INVARIANTS TypeOK AckedDurable NoneStranded
PROPERTY ImplementsContract
CHECK_DEADLOCK FALSE
