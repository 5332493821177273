\* An agent with one code, two redeemers, two undo requests and an approval;
\* an invoice, an expense and an asset over two months; two portals, two
\* reviewers and requests that die half way; two cards in two groups.
SPECIFICATION MCSpec
CONSTANTS
    a1 = a1
    a2 = a2
    b1 = b1
    b2 = b2
    Price = 2
    Commission = 1
    CreditLimit = 2
    TopupAmount = 4
    Days <- MCDays
    Vouchers = {v1}
    Redeemers = {a1, a2}
    Undoers = {b1, b2}
    Requests = {q1}
    MaxDay = 1
    MaxEntries = 4
    Invoices = {i1}
    Expenses = {e1}
    Amounts = {1, 2}
    Depreciable = 2
    LifeMonths = 1
    Clerks = {a1, a2}
    MaxMonth = 1
    NTickets = 2
    Portal = {a1, a2}
    Reviewer = {b1, b2}
    Duration = 3
    Anchor = "from_expiry"
    Expires = 0
    MaxNow = 1
    MaxRenewals = 1
    MaxFaults = 2
    Codes = {k1, k2}
    Played = {k1}
    Groups = {b1, b2}
    Logins = {a1, a2}
    Windows = {1}
    LoginLife = 1
    CardHorizon = 3
    MaxAdmin = 3
INVARIANTS ReversedOnce DaysPaidFor VoucherConserved BooksTie ChargedOnce DecidedAlone
           CardWithinWindow
SYMMETRY Symmetry
CHECK_DEADLOCK FALSE
