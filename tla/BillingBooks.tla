---------------------------- MODULE BillingBooks -----------------------------
(***************************************************************************)
(* The double-entry books of backend/internal/billing: invoices, receipts, *)
(* expenses, vendor payments and fixed assets, the journal they post to    *)
(* and the statements computed from it (invoices.go, ar_ap.go,             *)
(* expenses.go, fixed_assets.go, journal.go, statements.go).               *)
(*                                                                         *)
(* The journal is kept as the net debit of every account in every month.   *)
(* Numbers, dates, lines, tax and memos of a document are one amount.      *)
(***************************************************************************)
EXTENDS Integers, FiniteSets, FiniteSetsExt

CONSTANTS
    Invoices,     \* bound: invoices
    Expenses,     \* bound: expenses
    Amounts,      \* amounts of documents and payments
    Depreciable,  \* cost - salvage_value of the one asset
    LifeMonths,   \* useful_life_months
    Clerks,       \* depreciation requests
    MaxMonth      \* bound: the clock

Months == 0..MaxMonth
Accounts == {"Cash", "AR", "FixedAssets", "AccumDepreciation", "AP",
             "Revenue", "OperatingExpense", "DepreciationExpense"}

ASSUME BooksAssumption ==
    /\ Amounts \subseteq Nat \ {0} /\ MaxMonth \in Nat
    /\ Depreciable \in Nat /\ LifeMonths \in Nat \ {0}
    /\ IsFiniteSet(Invoices) /\ IsFiniteSet(Expenses)

VARIABLES
    month,    \* the clock
    journal,  \* journal_lines: [Months -> [Accounts -> net debit]]
    invoice,  \* invoices: [st, total, paid, due]
    expense,  \* expenses, likewise
    asset,    \* depreciation_entries by month; "none" before it is bought
    clerk,    \* runDepreciation requests: [at, period, acc]
    late,     \* a run was committed in a later month than it was begun
    parked    \* invoices an agent asked to void: pending approval_requests

docVars == <<invoice, expense>>
booksVars == <<month, journal, docVars, asset, clerk, late, parked>>

NoDoc == [st |-> "none", total |-> 0, paid |-> 0, due |-> 0]
IdleClerk == [at |-> "idle", period |-> 0, acc |-> 0]

BooksInit ==
    /\ month = 0
    /\ journal = [m \in Months |-> [a \in Accounts |-> 0]]
    /\ invoice = [i \in Invoices |-> NoDoc]
    /\ expense = [e \in Expenses |-> NoDoc]
    /\ asset = [m \in Months |-> -1]
    /\ clerk = [c \in Clerks |-> IdleClerk]
    /\ late = FALSE
    /\ parked = {}

-----------------------------------------------------------------------------
(* journal.go                                                              *)

\* postJournal: a balanced pair, dated now.
PostJournal(dr, cr, n) ==
    journal' = [journal EXCEPT ![month][dr] = @ + n, ![month][cr] = @ - n]

\* Mutant: the entry is posted again instead of reversed.
PostAgain(dr, cr, n) == PostJournal(dr, cr, n)

\* reverseJournal: every line with its sides swapped, dated now.
ReverseJournal(dr, cr, n) == PostJournal(cr, dr, n)

-----------------------------------------------------------------------------
(* invoices, expenses and what settles them                                *)

\* recomputeInvoiceStatus
StatusOf(doc, paid) ==
    IF doc.total > 0 /\ paid >= doc.total THEN "paid"
    ELSE IF doc.due < month THEN "due"
    ELSE IF paid > 0 THEN "partial" ELSE "unpaid"

Settle(doc, n) == [doc EXCEPT !.paid = @ + n, !.st = StatusOf(doc, doc.paid + n)]

\* createInvoice: an invoice without charge posts nothing.
CreateInvoice(i, mode, n, due) ==
    LET total == IF mode = "no_charge" THEN 0 ELSE n IN
    /\ invoice' = [invoice EXCEPT ![i] = [st |-> "unpaid", total |-> total, paid |-> 0, due |-> due]]
    /\ IF total > 0 THEN PostJournal("AR", "Revenue", total) ELSE UNCHANGED journal

\* createInvoiceHandler: a mode, lines and a due date are required, and a
\* permission of its own for a document without charge.
CreateInvoiceHandler(i) ==
    /\ invoice[i].st = "none"
    /\ \E mode \in {"full", "prorated", "no_charge"}, n \in Amounts, due \in Months :
          CreateInvoice(i, mode, n, due)
    /\ UNCHANGED <<month, expense, asset, clerk, late, parked>>

\* createPaidInvoiceForRenewal: born paid, over the renewal's own entry (Dr
\* Cash, Cr Revenue for a sale at the till).
CreatePaidInvoice(i, n) ==
    /\ invoice[i].st = "none"
    /\ invoice' = [invoice EXCEPT ![i] = [st |-> "paid", total |-> n, paid |-> n, due |-> month]]
    /\ PostJournal("Cash", "Revenue", n)
    /\ UNCHANGED <<month, expense, asset, clerk, late, parked>>

\* Mutant: an invoice with receipts is voided, and its whole entry reversed.
VoidableAny(doc) == doc.st \notin {"none", "void"}

\* voidInvoice and voidExpense refuse a document with payments.
Voidable(doc) == doc.st \notin {"none", "void"} /\ doc.paid = 0

\* voidInvoice
VoidInvoice(i) ==
    /\ Voidable(invoice[i])
    /\ invoice' = [invoice EXCEPT ![i].st = "void"]
    /\ IF invoice[i].total > 0
       THEN ReverseJournal("AR", "Revenue", invoice[i].total) ELSE UNCHANGED journal

\* voidInvoiceHandler: an agent's request is parked, the others' is executed.
VoidInvoiceHandler(i) ==
    /\ invoice[i].st # "none"
    /\ \/ parked' = parked \cup {i} /\ UNCHANGED <<journal, invoice>>
       \/ VoidInvoice(i) /\ UNCHANGED parked
    /\ UNCHANGED <<month, expense, asset, clerk, late>>

\* executeVoidInvoice: the approval runs the same voidInvoice, which may have
\* become impossible since.
ExecuteVoidInvoice(i) ==
    /\ i \in parked
    /\ parked' = parked \ {i}
    /\ \/ VoidInvoice(i)
       \/ ~Voidable(invoice[i]) /\ UNCHANGED <<journal, invoice>>
    /\ UNCHANGED <<month, expense, asset, clerk, late>>

\* postARReceipt and postAPPayment: no more than what is open.
MaySettle(doc, n) == doc.st \notin {"none", "void"} /\ doc.paid < doc.total /\ doc.paid + n <= doc.total

\* postARReceipt
PostARReceipt(i, n) ==
    /\ MaySettle(invoice[i], n)
    /\ invoice' = [invoice EXCEPT ![i] = Settle(@, n)]
    /\ PostJournal("Cash", "AR", n)

\* createARReceiptHandler: the amount is above zero.
CreateARReceiptHandler(i) ==
    /\ \E n \in Amounts : PostARReceipt(i, n)
    /\ UNCHANGED <<month, expense, asset, clerk, late, parked>>

\* createExpense
CreateExpense(e, n, due) ==
    /\ expense' = [expense EXCEPT ![e] = [st |-> "unpaid", total |-> n, paid |-> 0, due |-> due]]
    /\ PostJournal("OperatingExpense", "AP", n)

\* createExpenseHandler: the amount is above zero.
CreateExpenseHandler(e) ==
    /\ expense[e].st = "none"
    /\ \E n \in Amounts, due \in Months : CreateExpense(e, n, due)
    /\ UNCHANGED <<month, invoice, asset, clerk, late, parked>>

\* voidExpense
VoidExpense(e) ==
    /\ Voidable(expense[e])
    /\ expense' = [expense EXCEPT ![e].st = "void"]
    /\ ReverseJournal("OperatingExpense", "AP", expense[e].total)

\* voidExpenseHandler
VoidExpenseHandler(e) ==
    /\ VoidExpense(e)
    /\ UNCHANGED <<month, invoice, asset, clerk, late, parked>>

\* postAPPayment
PostAPPayment(e, n) ==
    /\ MaySettle(expense[e], n)
    /\ expense' = [expense EXCEPT ![e] = Settle(@, n)]
    /\ PostJournal("AP", "Cash", n)

\* createAPPaymentHandler
CreateAPPaymentHandler(e) ==
    /\ \E n \in Amounts : PostAPPayment(e, n)
    /\ UNCHANGED <<month, invoice, asset, clerk, late, parked>>

-----------------------------------------------------------------------------
(* fixed assets                                                            *)

Bought == \A m \in Months : asset[m] >= 0
Accumulated == SumFunction(asset)

\* createFixedAsset
CreateFixedAsset ==
    /\ ~Bought
    /\ asset' = [m \in Months |-> 0]
    /\ PostJournal("FixedAssets", "Cash", Depreciable)
    /\ UNCHANGED <<month, docVars, clerk, late, parked>>

\* runDepreciation reads what is accumulated, without a lock.
DepreciationRead(c) ==
    /\ Bought /\ clerk[c].at = "idle" /\ Accumulated < Depreciable
    /\ clerk' = [clerk EXCEPT ![c] = [at |-> "read", period |-> month, acc |-> Accumulated]]
    /\ UNCHANGED <<month, journal, docVars, asset, late, parked>>

\* The last month takes the remainder.
MonthlyShare(acc) == Min({Depreciable \div LifeMonths, Depreciable - acc})

\* runDepreciation commits; one row per asset and month is unique, and a
\* second one takes its journal entry with it.
DepreciationCommit(c) ==
    LET n == MonthlyShare(clerk[c].acc)
        m == clerk[c].period IN
    /\ clerk[c].at = "read"
    /\ clerk' = [clerk EXCEPT ![c] = IdleClerk]
    /\ IF n > 0 /\ asset[m] = 0
       THEN /\ asset' = [asset EXCEPT ![m] = n]
            /\ journal' = [journal EXCEPT ![m]["DepreciationExpense"] = @ + n,
                                          ![m]["AccumDepreciation"] = @ - n]
            /\ late' = (late \/ m # month)
       ELSE UNCHANGED <<asset, journal, late>>
    /\ UNCHANGED <<month, docVars, parked>>

MonthPasses ==
    /\ month < MaxMonth
    /\ month' = month + 1
    /\ UNCHANGED <<journal, docVars, asset, clerk, late, parked>>

-----------------------------------------------------------------------------
(* statements.go.  The queries join the entry of the period to a line by an *)
(* outer join and add up the lines: a line outside the period counts too.   *)

\* accountBalanceRange and trialBalance, as the net debit of accounts.
AccountBalanceRange(as, from, to) ==
    SumFunction([m \in Months |-> SumFunctionOnSet(journal[m], as)])

\* computeProfitAndLoss
NetIncome(from, to) ==
    -AccountBalanceRange({"Revenue", "OperatingExpense", "DepreciationExpense"}, from, to)

\* computeBalanceSheet: assets against liabilities and retained earnings.
BalanceSheetGap(asOf) ==
    LET assets == AccountBalanceRange({"Cash", "AR", "FixedAssets", "AccumDepreciation"}, 0, asOf)
        liabilities == -AccountBalanceRange({"AP"}, 0, asOf)
    IN assets - liabilities - NetIncome(0, asOf)

\* computeAging, all buckets together
ComputeAging(docs) ==
    SumFunctionOnSet([d \in DOMAIN docs |-> docs[d].total - docs[d].paid],
                     {d \in DOMAIN docs : docs[d].st \notin {"none", "paid", "void"}})

BooksNext ==
    \/ \E i \in Invoices :
         \/ CreateInvoiceHandler(i) \/ VoidInvoiceHandler(i) \/ ExecuteVoidInvoice(i)
         \/ CreateARReceiptHandler(i)
         \/ \E n \in Amounts : CreatePaidInvoice(i, n)
    \/ \E e \in Expenses :
         CreateExpenseHandler(e) \/ VoidExpenseHandler(e) \/ CreateAPPaymentHandler(e)
    \/ CreateFixedAsset \/ MonthPasses
    \/ \E c \in Clerks : DepreciationRead(c) \/ DepreciationCommit(c)

BooksSpec == BooksInit /\ [][BooksNext]_booksVars

-----------------------------------------------------------------------------
\* The control accounts tie to the documents: what the aging reports show as
\* open is the balance of receivables and payables, through voids, partial
\* payments and invoices born paid; the sheet balances; and an asset is not
\* written off beyond its value unless a run was committed after its month.
BooksTie ==
    /\ AccountBalanceRange({"AR"}, 0, month) = ComputeAging(invoice)
    /\ AccountBalanceRange({"AP"}, 0, month) = -ComputeAging(expense)
    /\ BalanceSheetGap(month) = 0
    /\ Bought => /\ AccountBalanceRange({"AccumDepreciation"}, 0, month) = -Accumulated
                 /\ late \/ Accumulated <= Depreciable

\* "Revenue and expense are period figures": the income of a month comes from
\* the entries of that month.
PeriodFigures ==
    \A m \in Months : NetIncome(m, m) =
        -(journal[m]["Revenue"] + journal[m]["OperatingExpense"] + journal[m]["DepreciationExpense"])

=============================================================================
