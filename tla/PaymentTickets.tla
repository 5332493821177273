--------------------------- MODULE PaymentTickets ---------------------------
(***************************************************************************)
(* The payment tickets of backend/internal/billing (tickets.go) and the    *)
(* renewal path they share with the panel (renew.go): a subscriber submits *)
(* a proof of payment and gets a trial day, a reviewer approves or rejects.*)
(*                                                                         *)
(* One subscriber is modelled, in days.  A transaction is one step; what a *)
(* handler does outside a transaction is a step of its own, so requests    *)
(* interleave between their statements and may die between them.  The      *)
(* price is one unit and is above zero; profile, currency, wholesale price,*)
(* receipt, invoice and the notifications take no part in the properties.  *)
(***************************************************************************)
EXTENDS Integers

CONSTANTS
    NTickets,    \* bound: tickets submitted
    Portal,      \* requests of the subscriber's portal
    Reviewer,    \* requests of managers who may verify tickets
    Duration,    \* duration_days of the profile
    Anchor,      \* renewal anchor rule: "from_expiry" or "from_now"
    Expires,     \* expires_at at the start
    MaxNow,      \* bound: the clock
    MaxRenewals, \* bound: renewals made in the panel
    MaxFaults    \* bound: requests that die half way

ASSUME TicketsAssumption ==
    /\ NTickets \in Nat /\ Duration \in Nat /\ Expires \in Nat
    /\ Anchor \in {"from_expiry", "from_now"}
    /\ MaxNow \in Nat /\ MaxRenewals \in Nat /\ MaxFaults \in Nat

ticketTrialDays == 1
Tickets == 1..NTickets

VARIABLES
    now,
    expires,   \* subscribers.expires_at
    ticket,    \* payment_tickets: [st, born, trial]
    decided,   \* the state of the most recently decided ticket
    idem,      \* renewal_idempotency
    granted,   \* ledger rows of trials, per ticket
    charged,   \* ledger rows of approvals, each a debit of the approver
    gross,     \* payments rows and revenue entries of the ticket
    portal,    \* the requests: [at, t, eligible]
    review,    \* the requests: [at, t]
    renewals, faults

subVars == <<now, expires>>
tktVars == <<ticket, decided>>
bookVars == <<idem, granted, charged, gross>>
tvars == <<subVars, tktVars, bookVars, portal, review, renewals, faults>>

NoTicket == [st |-> "absent", born |-> 0, trial |-> "no"]
NoSubmit == [at |-> "idle", t |-> 0, eligible |-> "no"]
NoReview == [at |-> "idle", t |-> 0]

Init ==
    /\ now = 0 /\ expires = Expires
    /\ ticket = [t \in Tickets |-> NoTicket]
    /\ decided = "none"
    /\ idem = {}
    /\ granted = [t \in Tickets |-> 0]
    /\ charged = [t \in Tickets |-> 0]
    /\ gross = [t \in Tickets |-> 0]
    /\ portal = [p \in Portal |-> NoSubmit]
    /\ review = [v \in Reviewer |-> NoReview]
    /\ renewals = 0 /\ faults = 0

-----------------------------------------------------------------------------
(* renew                                                                   *)

\* computeExpiry
ComputeExpiry(days) ==
    (IF Anchor = "from_expiry" /\ expires > now THEN expires ELSE now) + days

\* rollbackExpiry, floored at now
RollbackExpiry(days) == IF expires < now + days THEN now ELSE expires - days

\* renewTx under an idempotency key: the first run does the work, a replay
\* returns the stored response.  renewInTx records a payment of the full
\* price, and the revenue entry for it, whatever the ledger type.
Reserve(key, t, book, to) ==
    IF <<key, t>> \in idem
    THEN UNCHANGED <<expires, bookVars>>
    ELSE /\ idem' = idem \cup {<<key, t>>}
         /\ expires' = to
         /\ book
         /\ gross' = [gross EXCEPT ![t] = @ + 1]

-----------------------------------------------------------------------------
(* submitTicket                                                            *)

At(p, l) == portal' = [portal EXCEPT ![p].at = l]
Done(p)  == portal' = [portal EXCEPT ![p] = NoSubmit]

\* trialEligible, read outside any transaction.
Submit(p) ==
    /\ portal[p].at = "idle"
    /\ \E t \in Tickets : ticket[t].st = "absent"
    /\ portal' = [portal EXCEPT ![p] =
                    [at |-> "insert", t |-> 0,
                     eligible |-> IF decided = "rejected" THEN "no" ELSE "yes"]]
    /\ UNCHANGED <<subVars, tktVars, bookVars, review, renewals, faults>>

\* The partial unique index admits one pending ticket.
CreateTicket(p, t) ==
    /\ portal[p].at = "insert"
    /\ \A u \in Tickets : ticket[u].st # "pending" /\ (u < t => ticket[u].st # "absent")
    /\ ticket[t].st = "absent"
    /\ ticket' = [ticket EXCEPT ![t] = [st |-> "pending", born |-> now, trial |-> "no"]]
    /\ IF portal[p].eligible = "yes"
       THEN portal' = [portal EXCEPT ![p].at = "renew", ![p].t = t]
       ELSE Done(p)
    /\ UNCHANGED <<subVars, decided, bookVars, review, renewals, faults>>

\* errTicketPending
SubmitRefused(p) ==
    /\ portal[p].at = "insert"
    /\ \E u \in Tickets : ticket[u].st = "pending"
    /\ Done(p)
    /\ UNCHANGED <<subVars, tktVars, bookVars, review, renewals, faults>>

\* The trial: a renewal of one day that moves no balance.
GrantTrial(p) ==
    LET t == portal[p].t IN
    /\ portal[p].at = "renew"
    /\ Reserve("ticket_trial", t,
               granted' = [granted EXCEPT ![t] = @ + 1] /\ UNCHANGED charged,
               ComputeExpiry(ticketTrialDays))
    /\ At(p, "link")
    /\ UNCHANGED <<now, tktVars, review, renewals, faults>>

\* trial_ledger_tx_id
LinkTrial(p) ==
    /\ portal[p].at = "link"
    /\ ticket' = [ticket EXCEPT ![portal[p].t].trial = "yes"]
    /\ Done(p)
    /\ UNCHANGED <<subVars, decided, bookVars, review, renewals, faults>>

-----------------------------------------------------------------------------
(* approveTicket and rejectTicket                                          *)

\* The state is read outside any transaction.
ReadPending(v, t) ==
    /\ review[v].at = "idle" /\ ticket[t].st = "pending"
    /\ review' = [review EXCEPT ![v] = [at |-> "renew", t |-> t]]
    /\ UNCHANGED <<subVars, tktVars, bookVars, portal, renewals, faults>>

\* Mutant: the renewal runs without an idempotency key.
ApproveNoKey(v) ==
    LET t == review[v].t IN
    /\ review[v].at = "renew"
    /\ expires' = ticket[t].born + Duration
    /\ charged' = [charged EXCEPT ![t] = @ + 1]
    /\ gross' = [gross EXCEPT ![t] = @ + 1]
    /\ review' = [review EXCEPT ![v].at = "decide"]
    /\ UNCHANGED <<now, tktVars, idem, granted, portal, renewals, faults>>

\* The renewal, anchored at the ticket's creation, commits on its own.
Approve(v) ==
    LET t == review[v].t IN
    /\ review[v].at = "renew"
    /\ Reserve("ticket_approve", t,
               charged' = [charged EXCEPT ![t] = @ + 1] /\ UNCHANGED granted,
               ticket[t].born + Duration)
    /\ review' = [review EXCEPT ![v].at = "decide"]
    /\ UNCHANGED <<now, tktVars, portal, renewals, faults>>

\* UPDATE ... WHERE state = 'pending'; with no row the request fails
\* (errTicketNotPending) and the renewal stands.
Decide(v) ==
    LET t == review[v].t IN
    /\ review[v].at = "decide"
    /\ IF ticket[t].st = "pending"
       THEN ticket' = [ticket EXCEPT ![t].st = "approved"] /\ decided' = "approved"
       ELSE UNCHANGED tktVars
    /\ review' = [review EXCEPT ![v] = NoReview]
    /\ UNCHANGED <<subVars, bookVars, portal, renewals, faults>>

\* Mutant: the ticket's state is not tested again under the lock.
RejectAny(v, t) ==
    /\ review[v].at = "idle" /\ ticket[t].st # "absent"
    /\ expires' = RollbackExpiry(ticketTrialDays)
    /\ ticket' = [ticket EXCEPT ![t].st = "rejected"] /\ decided' = "rejected"
    /\ UNCHANGED <<now, bookVars, portal, review, renewals, faults>>

\* One transaction under the ticket's row lock.  The reversing ledger row is
\* of amount zero; the expiry is rolled back with or without a trial.
Reject(v, t) ==
    /\ review[v].at = "idle" /\ ticket[t].st = "pending"
    /\ expires' = RollbackExpiry(ticketTrialDays)
    /\ ticket' = [ticket EXCEPT ![t].st = "rejected"] /\ decided' = "rejected"
    /\ UNCHANGED <<now, bookVars, portal, review, renewals, faults>>

-----------------------------------------------------------------------------
\* A renewal in the panel, paid in full.
PanelRenew ==
    /\ renewals < MaxRenewals /\ renewals' = renewals + 1
    /\ expires' = ComputeExpiry(Duration)
    /\ UNCHANGED <<now, tktVars, bookVars, portal, review, faults>>

Tick ==
    /\ now < MaxNow /\ now' = now + 1
    /\ UNCHANGED <<expires, tktVars, bookVars, portal, review, renewals, faults>>

\* A statement fails, an answer is lost or the process dies: the request ends
\* where it stands.
SubmitDies(p) ==
    /\ faults < MaxFaults /\ faults' = faults + 1
    /\ portal[p].at # "idle" /\ Done(p)
    /\ UNCHANGED <<subVars, tktVars, bookVars, review, renewals>>

ReviewDies(v) ==
    /\ faults < MaxFaults /\ faults' = faults + 1
    /\ review[v].at # "idle" /\ review' = [review EXCEPT ![v] = NoReview]
    /\ UNCHANGED <<subVars, tktVars, bookVars, portal, renewals>>

SubmitStep(p) ==
    \/ Submit(p) \/ (\E t \in Tickets : CreateTicket(p, t)) \/ SubmitRefused(p)
    \/ GrantTrial(p) \/ LinkTrial(p) \/ SubmitDies(p)

ReviewStep(v) ==
    \/ \E t \in Tickets : ReadPending(v, t) \/ Reject(v, t)
    \/ Approve(v) \/ Decide(v) \/ ReviewDies(v)

Next == \/ \E p \in Portal : SubmitStep(p)
        \/ \E v \in Reviewer : ReviewStep(v)
        \/ PanelRenew \/ Tick

Spec == Init /\ [][Next]_tvars

-----------------------------------------------------------------------------
\* The types of the variables.
TypeOK ==
    /\ now \in Nat /\ expires \in Nat
    /\ ticket \in [Tickets -> [st : {"absent", "pending", "approved", "rejected"},
                               born : Nat, trial : {"no", "yes"}]]
    /\ decided \in {"none", "approved", "rejected"}
    /\ idem \subseteq {"ticket_trial", "ticket_approve"} \X Tickets
    /\ granted \in [Tickets -> Nat] /\ charged \in [Tickets -> Nat]
    /\ gross \in [Tickets -> Nat]
    /\ portal \in [Portal -> [at : {"idle", "insert", "renew", "link"}, t : Nat,
                              eligible : {"no", "yes"}]]
    /\ \A p \in Portal : portal[p].at \in {"renew", "link"} => portal[p].t \in Tickets
    /\ review \in [Reviewer -> [at : {"idle", "renew", "decide"}, t : Nat]]
    /\ \A v \in Reviewer : review[v].at # "idle" => review[v].t \in Tickets
    /\ renewals \in Nat /\ faults \in Nat

\* An approval debits the approver once, however often it is submitted, by
\* however many reviewers, and wherever a request died; and an approved
\* ticket has been charged (renewTx's idempotency reserve).
ChargedOnce ==
    \A t \in Tickets : /\ charged[t] <= 1
                       /\ ticket[t].st = "approved" => charged[t] = 1

\* The decision on a ticket and the money agree: a rejected ticket has not
\* been charged (FR-59.2: approve charges, reject reverses).
DecisionMatchesMoney ==
    \A t \in Tickets : ticket[t].st = "rejected" => charged[t] = 0

\* FR-78.3: after a trial day, another one is earned only by an approval in
\* between ("does not grant a second trial day").
OneTrialPerCycle ==
    \A t, u \in Tickets :
        t < u /\ granted[t] > 0 /\ granted[u] > 0
            => \E s \in t..(u - 1) : ticket[s].st = "approved"

\* rejectTicket "rolls the expiry back by the trial grant": once its
\* submission is over, the rejection of a ticket never takes a day that no
\* trial has granted.
RejectTakesTrialOnly ==
    [][\A t \in Tickets :
          /\ ticket[t].st = "pending" /\ ticket'[t].st = "rejected"
          /\ \A p \in Portal : portal[p].t # t
          => expires' >= expires \/ granted[t] > 0]_tvars

\* FR-19: a renewal that charges extends the expiry, it never shortens it.
RenewalExtends == [][charged' # charged => expires' >= expires]_tvars

\* postLedgerJournal: for "a trial grant with no charge and no wallet movement"
\* nothing is posted: the revenue recorded for a ticket is what was charged.
TrialNotRevenue == \A t \in Tickets : gross[t] = charged[t]

=============================================================================
