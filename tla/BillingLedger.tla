---------------------------- MODULE BillingLedger ----------------------------
(***************************************************************************)
(* The money book of backend/internal/billing: the append-only ledger of   *)
(* one agent's wallet (ledger.go, journal.go, balance_api.go), renewals    *)
(* charged to it (renew.go), voucher batches (voucher.go, voucher_api.go), *)
(* refunds (refund.go), the five-minute undo (undo.go) and the approval    *)
(* request a scoped agent's undo is parked in (approvals.go).              *)
(*                                                                         *)
(* One agent and one subscriber.  A database transaction is one step; what *)
(* a handler does outside its transaction is a step of its own.  Expiry is *)
(* counted in days; the undo window, minutes, closes by a step of its own. *)
(***************************************************************************)
EXTENDS Integers, Sequences, FiniteSets, FiniteSetsExt

CONSTANTS
    Price,        \* price of every profile, IQD
    Commission,   \* the agent's commission on one sale
    CreditLimit,  \* managers.credit_limit
    TopupAmount,
    Days,         \* duration_days of each profile
    Vouchers,     \* codes of the one batch
    Redeemers,    \* redeem requests
    Undoers,      \* requests that run performUndo
    Requests,     \* rows of approval_requests
    MaxDay,       \* bound: the clock
    MaxEntries    \* bound: ledger rows

Profiles == DOMAIN Days

ASSUME LedgerAssumption ==
    /\ Price \in Nat \ {0} /\ Commission \in Nat /\ CreditLimit \in Nat
    /\ TopupAmount \in Nat \ {0} /\ Days \in [Profiles -> Nat]
    /\ MaxDay \in Nat /\ MaxEntries \in Nat /\ IsFiniteSet(Vouchers)

VARIABLES
    day,      \* the clock
    expiry,   \* subscribers.expires_at
    profile,  \* subscribers.profile_id
    led,      \* ledger_transactions: [type (of an adjustment, its source),
              \*   amt, rev (reverses_id), days granted or taken back]
    bal,      \* manager_balances.balance
    wallet,   \* journal lines of account 2100 tagged with the agent
    batch,    \* voucher_batches.state and its profile
    voucher,  \* vouchers.state
    redeem,   \* redeem requests waiting for the row lock: [v, batch as read]
    undoLog,  \* undo_log, by the ledger row it is about: [kind, snap, st]
    undoer,   \* requests inside performUndo: [at, u]
    request   \* approval_requests: [st, u]

subsVars == <<day, expiry, profile>>
moneyVars == <<led, bal, wallet>>
codeVars == <<batch, voucher, redeem>>
undoVars == <<undoLog, undoer, request>>
ledgerVars == <<subsVars, moneyVars, codeVars, undoVars>>

Entries == 1..MaxEntries
NoUndo == [kind |-> "none", snap |-> 0, st |-> "none"]
NoRequest == [st |-> "none", u |-> 0]
IdleUndo == [at |-> "idle", u |-> 0]
NoRedeem == [v |-> "none", batch |-> "none"]

LedgerInit ==
    /\ day = 0 /\ expiry = 0 /\ profile \in Profiles
    /\ led = <<>> /\ bal = 0 /\ wallet = 0
    /\ batch = [st |-> "none", profile |-> profile]
    /\ voucher = [v \in Vouchers |-> "absent"]
    /\ redeem = [r \in Redeemers |-> NoRedeem]
    /\ undoLog = [i \in Entries |-> NoUndo]
    /\ undoer = [p \in Undoers |-> IdleUndo]
    /\ request = [q \in Requests |-> NoRequest]

-----------------------------------------------------------------------------
(* ledger.go and journal.go                                                *)

Row(type, amt, rev, days) == [type |-> type, amt |-> amt, rev |-> rev, days |-> days]

\* insertLedger
InsertLedger(rows) == led' = led \o rows

\* recomputeBalance: the balance is the sum of the ledger.
LedgerSum(s) == SumFunction([i \in DOMAIN s |-> s[i].amt])
RecomputeBalance == bal' = LedgerSum(led')

\* postLedgerJournal, the wallet side: every row that moves the balance is
\* posted to account 2100 with its sign.
PostLedgerJournal(rows) == wallet' = wallet + LedgerSum(rows)

Room(n) == Len(led) + n <= MaxEntries

\* reverses_id is unique.
Reversed(i) == \E k \in DOMAIN led : led[k].rev = i

\* postCommission: a row of its own that belongs to no subscriber.
CommissionRows == IF Commission > 0 THEN <<Row("commission", Commission, 0, 0)>> ELSE <<>>

-----------------------------------------------------------------------------
(* renewals, top-ups and batches                                           *)

\* computeExpiry, anchored at the later of now and the expiry.
ExtendedExpiry(p) == (IF expiry > day THEN expiry ELSE day) + Days[p]

\* renewInTx against the agent's wallet: his balance may fall to the credit
\* limit when it is enforced.
ChargeRenewal(p) ==
    LET rows == <<Row("renewal", -Price, 0, Days[p])>> \o CommissionRows IN
    /\ Room(Len(rows))
    /\ bal - Price >= -CreditLimit
    /\ InsertLedger(rows)
    /\ RecomputeBalance
    /\ PostLedgerJournal(rows)
    /\ expiry' = ExtendedExpiry(p)
    /\ profile' = p

\* recordUndo, best effort: the row may be missing.
RecordUndo(u, kind, snap) ==
    \/ undoLog' = [undoLog EXCEPT ![u] = [kind |-> kind, snap |-> snap, st |-> "open"]]
    \/ UNCHANGED undoLog

\* renewHandler
RenewHandler(p) ==
    /\ ChargeRenewal(p)
    /\ RecordUndo(Len(led) + 1, "renewal", expiry')
    /\ UNCHANGED <<day, codeVars, undoer, request>>

\* topupHandler
TopupHandler ==
    LET rows == <<Row("topup", TopupAmount, 0, 0)>> IN
    /\ Room(1)
    /\ InsertLedger(rows)
    /\ RecomputeBalance
    /\ PostLedgerJournal(rows)
    /\ RecordUndo(Len(led) + 1, "topup", 0)
    /\ UNCHANGED <<subsVars, codeVars, undoer, request>>

\* InvoiceBatch: one row for a batch of new subscribers; the journal is not
\* written.
InvoiceBatch ==
    /\ Room(1) /\ bal >= Price
    /\ InsertLedger(<<Row("adjustment", -Price, 0, 0)>>)
    /\ RecomputeBalance
    /\ UNCHANGED <<subsVars, wallet, codeVars, undoVars>>

\* insertCodes
InsertCodes == voucher' = [v \in Vouchers |-> "unused"]

\* generateBatch: the codes are paid for when they are made, without the
\* credit limit and without a journal entry.
GenerateBatch(p) ==
    LET total == Price * Cardinality(Vouchers) IN
    /\ Room(1) /\ batch.st = "none" /\ bal >= total
    /\ InsertLedger(<<Row("voucher", -total, 0, 0)>>)
    /\ RecomputeBalance
    /\ batch' = [st |-> "active", profile |-> p]
    /\ InsertCodes

\* createBatchHandler
CreateBatchHandler(p) == GenerateBatch(p) /\ UNCHANGED <<subsVars, wallet, redeem, undoVars>>

\* redeemVoucher, the statement that waits for the row lock: the batch is
\* read by the snapshot of the statement.
RedeemStart(r, v) ==
    /\ redeem[r].v = "none" /\ voucher[v] # "absent"
    /\ redeem' = [redeem EXCEPT ![r] = [v |-> v, batch |-> batch.st]]
    /\ UNCHANGED <<subsVars, moneyVars, batch, voucher, undoVars>>

\* Mutant: only the batch is asked.
RedeemableByBatch(r) == redeem[r].batch # "void" /\ voucher[redeem[r].v] # "used"

\* redeemVoucher, the tests behind the lock: the code is read afresh.
Redeemable(r) ==
    /\ redeem[r].batch # "void" /\ voucher[redeem[r].v] # "void"
    /\ voucher[redeem[r].v] # "used"

\* redeemVoucher, with the lock: renewInTx moves no balance, and the code is
\* used in the same transaction.
RedeemVoucher(r) ==
    LET p == batch.profile IN
    /\ Redeemable(r) /\ Room(1)
    /\ InsertLedger(<<Row("voucher_redeem", 0, 0, Days[p])>>)
    /\ expiry' = ExtendedExpiry(p) /\ profile' = p
    /\ voucher' = [voucher EXCEPT ![redeem[r].v] = "used"]

\* redeemHandler answers: redeemed, or refused because the code is void or
\* used, or because the batch has expired.
RedeemHandler(r) ==
    /\ redeem[r].v # "none"
    /\ redeem' = [redeem EXCEPT ![r] = NoRedeem]
    /\ RedeemVoucher(r) \/ UNCHANGED <<led, expiry, profile, voucher>>
    /\ UNCHANGED <<day, bal, wallet, batch, undoVars>>

\* voidBatchHandler: the unused codes are paid back.
VoidBatchHandler ==
    LET unused == {v \in Vouchers : voucher[v] = "unused"} IN
    /\ batch.st = "active" /\ Room(1)
    /\ batch' = [batch EXCEPT !.st = "void"]
    /\ voucher' = [v \in Vouchers |-> IF v \in unused THEN "void" ELSE voucher[v]]
    /\ IF unused = {}
       THEN UNCHANGED <<led, bal>>
       ELSE /\ InsertLedger(<<Row("voucher", Price * Cardinality(unused), 0, 0)>>)
            /\ RecomputeBalance
    /\ UNCHANGED <<subsVars, wallet, redeem, undoVars>>

-----------------------------------------------------------------------------
(* refunds                                                                 *)

Sale(i) == led[i].type \in {"renewal", "voucher_redeem"}

\* Mutant: the unique index on reverses_id is missing.
RefundableAny(i) == Sale(i)

\* A row of the subscriber that is no refund and is not reversed yet.
Refundable(i) == Sale(i) /\ ~Reversed(i)

\* Mutant: the renewal is given back, its days are kept.
KeepExpiry == expiry

\* rollbackExpiry, by the duration of the profile the subscriber has now.
RolledBack == IF expiry - Days[profile] < day THEN day ELSE expiry - Days[profile]

\* refundCore: the commission of the sale stays with the agent.
RefundCore(i) ==
    LET rows == <<Row("refund", -led[i].amt, i, Days[profile])>> IN
    /\ Room(1) /\ Refundable(i)
    /\ InsertLedger(rows)
    /\ RecomputeBalance
    /\ PostLedgerJournal(rows)
    /\ expiry' = RolledBack
    /\ UNCHANGED <<day, profile>>

\* refundHandler
RefundHandler(i) ==
    /\ i \in DOMAIN led
    /\ RefundCore(i)
    /\ UNCHANGED <<codeVars, undoVars>>

\* undoTopupCore
UndoTopupCore(i) ==
    LET rows == <<Row("topup", -led[i].amt, i, 0)>> IN
    /\ Room(1) /\ ~Reversed(i)
    /\ InsertLedger(rows)
    /\ RecomputeBalance
    /\ PostLedgerJournal(rows)
    /\ UNCHANGED subsVars

-----------------------------------------------------------------------------
(* undo                                                                    *)

Goto(p, l) == undoer' = [undoer EXCEPT ![p].at = l]
Leave(p) == undoer' = [undoer EXCEPT ![p] = IdleUndo]

\* undoHandler of an unscoped caller.
UndoNow(p, u) ==
    /\ undoer[p].at = "idle" /\ undoLog[u].kind # "none"
    /\ undoer' = [undoer EXCEPT ![p] = [at |-> "check", u |-> u]]
    /\ UNCHANGED <<subsVars, moneyVars, codeVars, undoLog, request>>

\* undoHandler of a scoped agent: RequestOrExecute parks it.
RequestUndo(q, u) ==
    /\ request[q].st = "none" /\ undoLog[u].kind # "none"
    /\ request' = [request EXCEPT ![q] = [st |-> "pending", u |-> u]]
    /\ UNCHANGED <<subsVars, moneyVars, codeVars, undoLog, undoer>>

\* Approve: the decision is claimed before the executor runs.
ApproveRequest(q, p) ==
    /\ request[q].st = "pending" /\ undoer[p].at = "idle"
    /\ request' = [request EXCEPT ![q].st = "approved"]
    /\ undoer' = [undoer EXCEPT ![p] = [at |-> "check", u |-> request[q].u]]
    /\ UNCHANGED <<subsVars, moneyVars, codeVars, undoLog>>

\* Reject
RejectRequest(q) ==
    /\ request[q].st = "pending"
    /\ request' = [request EXCEPT ![q].st = "rejected"]
    /\ UNCHANGED <<subsVars, moneyVars, codeVars, undoLog, undoer>>

\* Withdraw, by the agent who asked.
WithdrawRequest(q) ==
    /\ request[q].st = "pending"
    /\ request' = [request EXCEPT ![q].st = "withdrawn"]
    /\ UNCHANGED <<subsVars, moneyVars, codeVars, undoLog, undoer>>

\* What performUndo asks of the row and of the subscriber, outside any
\* transaction.  The undo of an undo falls into the branch of unknown kinds.
MayUndo(u) ==
    /\ undoLog[u].st = "open"
    /\ \/ undoLog[u].kind = "topup"
       \/ undoLog[u].kind = "renewal" /\ undoLog[u].snap = expiry

\* performUndo up to its reads
UndoCheck(p) ==
    /\ undoer[p].at = "check"
    /\ IF MayUndo(undoer[p].u) THEN Goto(p, "reverse") ELSE Leave(p)
    /\ UNCHANGED <<subsVars, moneyVars, codeVars, undoLog, request>>

\* performUndo, the transaction of the reversal
UndoReverse(p) ==
    LET u == undoer[p].u IN
    /\ undoer[p].at = "reverse"
    /\ IF undoLog[u].kind = "topup" THEN UndoTopupCore(u) ELSE RefundCore(u)
    /\ undoer' = [undoer EXCEPT ![p].at = "mark"]
    /\ UNCHANGED <<codeVars, undoLog, request>>

\* performUndo: the row is reversed already, or the request dies here.
UndoLeaves(p) ==
    /\ undoer[p].at \in {"reverse", "mark"}
    /\ Leave(p)
    /\ UNCHANGED <<subsVars, moneyVars, codeVars, undoLog, request>>

\* performUndo: undone_at, then the row of the reversal itself.
UndoMark(p) ==
    LET u == undoer[p].u
        k == CHOOSE k \in DOMAIN led : led[k].rev = u IN
    /\ undoer[p].at = "mark"
    /\ \/ undoLog' = [undoLog EXCEPT ![u].st = "undone",
                                     ![k] = [kind |-> "undo_reversal", snap |-> 0, st |-> "open"]]
       \/ undoLog' = [undoLog EXCEPT ![u].st = "undone"]
    /\ Leave(p)
    /\ UNCHANGED <<subsVars, moneyVars, codeVars, request>>

\* The five minutes are over.
WindowCloses(u) ==
    /\ undoLog[u].st = "open"
    /\ undoLog' = [undoLog EXCEPT ![u].st = "closed"]
    /\ UNCHANGED <<subsVars, moneyVars, codeVars, undoer, request>>

\* A day passes: no window is that long.
DayPasses ==
    /\ day < MaxDay
    /\ \A u \in Entries : undoLog[u].st # "open"
    /\ day' = day + 1
    /\ UNCHANGED <<expiry, profile, moneyVars, codeVars, undoVars>>

-----------------------------------------------------------------------------
LedgerNext ==
    \/ \E p \in Profiles : RenewHandler(p) \/ CreateBatchHandler(p)
    \/ TopupHandler \/ InvoiceBatch \/ VoidBatchHandler \/ DayPasses
    \/ \E r \in Redeemers : RedeemHandler(r) \/ \E v \in Vouchers : RedeemStart(r, v)
    \/ \E i \in Entries : RefundHandler(i) \/ WindowCloses(i)
    \/ \E p \in Undoers :
         \/ UndoCheck(p) \/ UndoReverse(p) \/ UndoLeaves(p) \/ UndoMark(p)
         \/ \E u \in Entries : UndoNow(p, u)
         \/ \E q \in Requests : ApproveRequest(q, p)
    \/ \E q \in Requests :
         \/ RejectRequest(q) \/ WithdrawRequest(q)
         \/ \E u \in Entries : RequestUndo(q, u)

LedgerSpec == LedgerInit /\ [][LedgerNext]_ledgerVars

-----------------------------------------------------------------------------
\* No sale or top-up is given back twice, whichever of the refund button, the
\* undo and an approved request come together, and what the undo log shows as
\* undone has been given back (FR-25, FR-158, FR-159).
ReversedOnce ==
    /\ \A i, k \in DOMAIN led : led[i].rev # 0 /\ led[i].rev = led[k].rev => i = k
    /\ \A u \in Entries : undoLog[u].st = "undone" => Reversed(u)

\* The subscriber has at most the days of the sales that stand.  Beyond them
\* there is only what a refund left behind because the profile had become a
\* shorter one since the sale (FR-25).
Kept(i) ==
    IF ~Reversed(i) THEN led[i].days
    ELSE LET r == CHOOSE k \in DOMAIN led : led[k].rev = i
         IN Max({0, led[i].days - led[r].days})
DaysPaidFor ==
    expiry - day <= SumFunctionOnSet([i \in DOMAIN led |-> Kept(i)], {i \in DOMAIN led : Sale(i)})

\* The agent has paid for every code that is used or can be used, and for no
\* other; every used code renewed a subscriber once (FR-22).
RowsOf(type, s) == {i \in DOMAIN s : s[i].type = type}
VoucherSum(s) == SumFunctionOnSet([i \in DOMAIN s |-> s[i].amt], RowsOf("voucher", s))
VoucherConserved ==
    /\ -VoucherSum(led) = Price * Cardinality({v \in Vouchers : voucher[v] \in {"unused", "used"}})
    /\ Cardinality(RowsOf("voucher_redeem", led)) = Cardinality({v \in Vouchers : voucher[v] = "used"})

\* The journal's wallet account is the balance: "the two can never diverge".
JournalAgrees == wallet = bal

=============================================================================
