----------------------------- MODULE Subscribers -----------------------------
(***************************************************************************)
(* The subscriber registry (backend/internal/subscribers): single writes,  *)
(* deletions with their approval, bulk jobs and batch creation.  Every     *)
(* rule (the licence's cap, one holder per static address, no deletion of  *)
(* a paying customer) is a query before the statement it protects, in a    *)
(* round trip of its own; the jobs run after the request was answered.     *)
(***************************************************************************)
EXTENDS Integers, FiniteSets

CONSTANTS
    Names,     \* usernames: a row is known by its name
    Writers,   \* requests that can be under way together
    Cap,       \* the licence's max_subscribers plus its buffer; 0 is unlimited
    MaxReq     \* bound: requests made

\* 0 names no row.
ASSUME SubscribersAssumption ==
    /\ IsFiniteSet(Names) /\ Names \subseteq Nat \ {0}
    /\ Cap \in Nat /\ MaxReq \in Nat

VARIABLES
    subs,      \* [Names -> [st, own, ip, paid, guest]]; st = "none": no row
    writers,   \* [Writers -> [at, name, in, scoped]]
    parked,    \* names somebody asked to delete, waiting for an approval
    bulk,      \* the bulk job: [at, act, todo, checked]
    batch,     \* the batch job: [at, mode, todo, coll, made]
    orphans,   \* names whose money rows have lost their customer
    overlapped,  \* a check was made while another request stood between its
                 \* check and its write
    asked

subVars == <<subs, writers, parked, bulk, batch, orphans, overlapped, asked>>

Owners == {"agent", "office"}
NoRow == [st |-> "none", own |-> "office", ip |-> 0, paid |-> FALSE, guest |-> FALSE]
NoWriter == [at |-> "idle", name |-> 0, in |-> NoRow, scoped |-> FALSE]
NoBulk == [at |-> "idle", act |-> "none", todo |-> {}, checked |-> 0]
NoBatch == [at |-> "idle", mode |-> "none", todo |-> {}, coll |-> {}, made |-> 0]

SubsInit ==
    /\ subs = [n \in Names |-> NoRow]
    /\ writers = [w \in Writers |-> NoWriter]
    /\ parked = {} /\ bulk = NoBulk /\ batch = NoBatch
    /\ orphans = {} /\ overlapped = FALSE /\ asked = 0

Rows == {n \in Names : subs[n].st # "none"}
Next1(todo) == CHOOSE n \in todo : \A m \in todo : n <= m
Ask == asked < MaxReq /\ asked' = asked + 1

\* Somebody is between a check and the statement it protects.
Pending == \/ \E w \in Writers : writers[w].at # "idle"
           \/ bulk.at = "delete" \/ batch.at = "rows"
Looks == overlapped' = (overlapped \/ Pending)

-----------------------------------------------------------------------------
(* the checks                                                              *)

\* EvalSubscriberCap: blocked above the cap and its buffer.
EvalSubscriberCap(count) == Cap > 0 /\ count > Cap

\* Mutant: a batch is checked as if it were one row.
CapStatusOfOne(adding) == ~EvalSubscriberCap(Cardinality(Rows) + 1)

\* subscriberCapStatus: every row counts, whatever its state.
SubscriberCapStatus(adding) == ~EvalSubscriberCap(Cardinality(Rows) + adding)

\* existsStaticIP
ExistsStaticIP(ip, but) == \E n \in Rows \ {but} : subs[n].ip = ip

\* normalizeWrite: the rest of it is syntax.
NormalizeWrite(in, but) == in.ip = 0 \/ ~ExistsStaticIP(in.ip, but)

\* hasFinancialHistory
HasFinancialHistory(n) == subs[n].paid

\* getByID under a scope: an agent sees its own rows.
Visible(n, scoped) == n \in Rows /\ (scoped => subs[n].own = "agent")

-----------------------------------------------------------------------------
(* single writes                                                           *)

Begin(w, at, n, in, scoped) ==
    /\ writers[w].at = "idle"
    /\ writers' = [writers EXCEPT ![w] = [at |-> at, name |-> n, in |-> in, scoped |-> scoped]]
    /\ Looks

End(w) == writers' = [writers EXCEPT ![w] = NoWriter]

\* createHandler, the validation and the cap; an agent owns what it creates.
CreateHandler(w, n) ==
    \E scoped \in BOOLEAN, st \in {"active", "disabled"}, ip \in {0, 1} :
        LET in == [NoRow EXCEPT !.st = st, !.ip = ip, !.own = IF scoped THEN "agent" ELSE "office"] IN
        /\ NormalizeWrite(in, 0) /\ SubscriberCapStatus(1)
        /\ Begin(w, "create", n, in, scoped) /\ Ask
        /\ UNCHANGED <<subs, parked, bulk, batch, orphans>>

\* createHandler, the transaction: a username that is taken is a conflict.
CreateInsert(w) ==
    LET n == writers[w].name IN
    /\ writers[w].at = "create" /\ End(w)
    /\ subs' = IF n \in Rows THEN subs ELSE [subs EXCEPT ![n] = writers[w].in]
    /\ UNCHANGED <<parked, bulk, batch, orphans, overlapped, asked>>

\* updateHandler, the load and the validation.
UpdateHandler(w, n) ==
    \E scoped \in BOOLEAN, st \in {"active", "disabled"}, ip \in {0, 1} :
        LET in == [subs[n] EXCEPT !.st = st, !.ip = ip] IN
        /\ Visible(n, scoped) /\ in # subs[n] /\ NormalizeWrite(in, n)
        /\ Begin(w, "update", n, in, scoped) /\ Ask
        /\ UNCHANGED <<subs, parked, bulk, batch, orphans>>

\* updateHandler, the transaction: by id alone, a row that is gone is an error.
UpdateWrite(w) ==
    LET n == writers[w].name IN
    /\ writers[w].at = "update" /\ End(w)
    /\ subs' = IF n \notin Rows THEN subs
               ELSE [subs EXCEPT ![n].st = writers[w].in.st, ![n].ip = writers[w].in.ip]
    /\ UNCHANGED <<parked, bulk, batch, orphans, overlapped, asked>>

\* The money rows of a deleted customer lose their subscriber_id.
DropRow(n) ==
    /\ subs' = [subs EXCEPT ![n] = NoRow]
    /\ orphans' = IF subs[n].paid THEN orphans \union {n} ELSE orphans

\* executeSubscriberDelete, up to the history check, as request w.
ExecuteSubscriberDelete(w, n, scoped) ==
    /\ Visible(n, scoped) /\ ~HasFinancialHistory(n)
    /\ Begin(w, "delete", n, NoRow, scoped)
    /\ UNCHANGED <<subs, bulk, batch, orphans>>

\* deleteByID, with the scope of whoever asked.
DeleteByID(w) ==
    LET n == writers[w].name IN
    /\ writers[w].at = "delete" /\ End(w)
    /\ IF Visible(n, writers[w].scoped) THEN DropRow(n) ELSE UNCHANGED <<subs, orphans>>
    /\ UNCHANGED <<parked, bulk, batch, overlapped, asked>>

\* deleteHandler: an agent's request waits for an approval.
DeleteHandler(w, n) ==
    \/ /\ Visible(n, TRUE) /\ n \notin parked /\ parked' = parked \union {n} /\ Ask
       /\ UNCHANGED <<subs, writers, bulk, batch, orphans, overlapped>>
    \/ ExecuteSubscriberDelete(w, n, FALSE) /\ Ask /\ UNCHANGED parked

\* Approve: the parked request is run as it was asked, or finds nothing to do.
ApproveDelete(w, n) ==
    /\ n \in parked /\ parked' = parked \ {n} /\ UNCHANGED asked
    /\ \/ ExecuteSubscriberDelete(w, n, TRUE)
       \/ ~(Visible(n, TRUE) /\ ~HasFinancialHistory(n)) /\ UNCHANGED <<subs, writers, bulk, batch, orphans, overlapped>>

\* CreateGuestAccount: one statement, no cap, and an old guest is welcome.
CreateGuestAccount(n) ==
    /\ n \notin Rows /\ Ask
    /\ subs' = [subs EXCEPT ![n] = [NoRow EXCEPT !.st = "active", !.guest = TRUE]]
    /\ UNCHANGED <<writers, parked, bulk, batch, orphans, overlapped>>

\* A renewal of the billing package: money, and an active row.
Renewed(n) ==
    /\ n \in Rows /\ ~subs[n].paid /\ Ask /\ Looks
    /\ subs' = [subs EXCEPT ![n].paid = TRUE, ![n].st = "active"]
    /\ UNCHANGED <<writers, parked, bulk, batch, orphans>>

-----------------------------------------------------------------------------
(* bulk jobs                                                               *)

\* selectTargets: the ids ticked, or a filter, under the caller's scope.
SelectTargets(sel, scoped) == {n \in sel : Visible(n, scoped)}

\* buildBulkApply: the statement of the action on one row.
BuildBulkApply(act, row) ==
    CASE act = "enable" -> [row EXCEPT !.st = "active"]
      [] act = "disable" -> [row EXCEPT !.st = "disabled"]
      [] act = "move_owner" -> [row EXCEPT !.own = IF @ = "agent" THEN "office" ELSE "agent"]

\* bulkHandler: the targets are fixed now, the rows are touched later.
BulkHandler(act, sel) ==
    /\ bulk.at = "idle" /\ Ask
    /\ \E scoped \in BOOLEAN :
         /\ SelectTargets(sel, scoped) # {}
         /\ bulk' = [at |-> "rows", act |-> act, todo |-> SelectTargets(sel, scoped), checked |-> 0]
    /\ UNCHANGED <<subs, writers, parked, batch, orphans, overlapped>>

Advance(todo) == IF todo = {} THEN NoBulk ELSE [bulk EXCEPT !.at = "rows", !.todo = todo, !.checked = 0]

\* runBulk, a row of an action that updates: a row that is gone counts as done.
RunBulk ==
    LET n == Next1(bulk.todo) IN
    /\ bulk.at = "rows" /\ bulk.act # "delete"
    /\ bulk' = Advance(bulk.todo \ {n})
    /\ subs' = IF n \in Rows THEN [subs EXCEPT ![n] = BuildBulkApply(bulk.act, @)] ELSE subs
    /\ UNCHANGED <<writers, parked, batch, orphans, overlapped, asked>>

\* runBulk, a deletion: the history is read first, row by row.
RunBulkCheck ==
    LET n == Next1(bulk.todo) IN
    /\ bulk.at = "rows" /\ bulk.act = "delete" /\ Looks
    /\ bulk' = IF HasFinancialHistory(n) THEN Advance(bulk.todo \ {n})
               ELSE [bulk EXCEPT !.at = "delete", !.checked = n]
    /\ UNCHANGED <<subs, writers, parked, batch, orphans, asked>>

RunBulkDelete ==
    /\ bulk.at = "delete"
    /\ bulk' = Advance(bulk.todo \ {bulk.checked})
    /\ DropRow(bulk.checked)
    /\ UNCHANGED <<writers, parked, batch, overlapped, asked>>

-----------------------------------------------------------------------------
(* batch creation                                                          *)

\* findCollisions
FindCollisions(wanted) == wanted \intersect Rows

\* batchHandler: refused as a whole at the cap, or answered and run later.
BatchHandler(mode, wanted) ==
    LET coll == FindCollisions(wanted) IN
    /\ batch.at = "idle" /\ Ask /\ Looks
    /\ SubscriberCapStatus(Cardinality(wanted) - Cardinality(coll))
    /\ batch' = [at |-> "rows", mode |-> mode, todo |-> wanted, coll |-> coll, made |-> 0]
    /\ UNCHANGED <<subs, writers, parked, bulk, orphans>>

\* createBatchRow: an account that is invoiced by itself waits for it disabled.
CreateBatchRow(mode) == [NoRow EXCEPT !.st = IF mode = "each" THEN "disabled" ELSE "active"]

\* runBatch, one username; a name taken since is a failure of the row.
RunBatch ==
    LET n == Next1(batch.todo)
        left == [batch EXCEPT !.todo = @ \ {n}] IN
    /\ batch.at = "rows" /\ batch.todo # {} /\ batch.made = 0
    /\ IF n \in batch.coll \/ n \in Rows
       THEN batch' = left /\ UNCHANGED subs
       ELSE /\ subs' = [subs EXCEPT ![n] = CreateBatchRow(batch.mode)]
            /\ batch' = IF batch.mode = "each" THEN [left EXCEPT !.made = n] ELSE left
    /\ UNCHANGED <<writers, parked, bulk, orphans, overlapped, asked>>

\* InvoiceSubscriber: the renewal path, or a failure that is only reported.
InvoiceSubscriber ==
    LET n == batch.made IN
    /\ batch.at = "rows" /\ n # 0
    /\ batch' = [batch EXCEPT !.made = 0]
    /\ \/ n \in Rows /\ subs' = [subs EXCEPT ![n].paid = TRUE, ![n].st = "active"]
       \/ UNCHANGED subs
    /\ UNCHANGED <<writers, parked, bulk, orphans, overlapped, asked>>

\* runBatch, the end; the lump invoice of mode "batch" names no row.
BatchDone ==
    /\ batch.at = "rows" /\ batch.todo = {} /\ batch.made = 0
    /\ batch' = NoBatch
    /\ UNCHANGED <<subs, writers, parked, bulk, orphans, overlapped, asked>>

\* hikrad-api restarts: requests and jobs are gone, rows and approvals stay.
JobsForgotten ==
    /\ writers' = [w \in Writers |-> NoWriter] /\ bulk' = NoBulk /\ batch' = NoBatch
    /\ writers' # writers \/ bulk # NoBulk \/ batch # NoBatch
    /\ UNCHANGED <<subs, parked, orphans, overlapped, asked>>

-----------------------------------------------------------------------------
SubsNext ==
    \/ \E w \in Writers, n \in Names :
         CreateHandler(w, n) \/ UpdateHandler(w, n) \/ DeleteHandler(w, n) \/ ApproveDelete(w, n)
    \/ \E w \in Writers : CreateInsert(w) \/ UpdateWrite(w) \/ DeleteByID(w)
    \/ \E n \in Names : CreateGuestAccount(n) \/ Renewed(n)
    \/ \E act \in {"enable", "disable", "move_owner", "delete"}, sel \in SUBSET Names : BulkHandler(act, sel)
    \/ RunBulk \/ RunBulkCheck \/ RunBulkDelete
    \/ \E mode \in {"each", "batch"}, wanted \in SUBSET Names \ {{}} : BatchHandler(mode, wanted)
    \/ RunBatch \/ InvoiceSubscriber \/ BatchDone
    \/ JobsForgotten

SubsSpec == SubsInit /\ [][SubsNext]_subVars

-----------------------------------------------------------------------------
\* The registry's rules hold as long as no check was made while another
\* request stood between its own check and its write: never more accounts than
\* the licence allows (guests, who are not checked, aside), one holder per
\* static address, and no money row without its customer; through bulk and
\* batch jobs, approvals and restarts (api.go:203-460, batch.go:127-299,
\* bulk.go:293-336, delete_approval.go:44-71).
SerialChecksHold ==
    ~overlapped =>
        /\ ~EvalSubscriberCap(Cardinality({n \in Rows : ~subs[n].guest}))
        /\ \A m, n \in Rows : subs[m].ip = subs[n].ip /\ subs[m].ip # 0 => m = n
        /\ orphans = {}

\* What FR-16.2 and the comment at store.go:160-173 promise without a condition:
\* false, for the checks are not part of the statements they protect.
ChecksHold ==
    /\ \A m, n \in Rows : subs[m].ip = subs[n].ip /\ subs[m].ip # 0 => m = n
    /\ orphans = {}
=============================================================================
