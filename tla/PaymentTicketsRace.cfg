\* One reviewer approves while another one rejects.
SPECIFICATION Spec
CONSTANTS
    NTickets = 1
    Portal = {p1}
    Reviewer = {v1, v2}
    Duration = 3
    Anchor = "from_expiry"
    Expires = 0
    MaxNow = 0
    MaxRenewals = 0
    MaxFaults = 0
INVARIANT DecisionMatchesMoney
CHECK_DEADLOCK FALSE
