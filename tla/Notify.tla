-------------------------------- MODULE Notify --------------------------------
(***************************************************************************)
(* The notification outbox (backend/internal/notify): everything that      *)
(* enqueues a message, the dispatcher that claims due rows and sends them, *)
(* the operator's cancel and retry, and the daily scanner.  A dispatcher   *)
(* pass has a deadline and rows left in "sending" for as long are taken    *)
(* back, so nothing but the two intervals keeps two passes off one row:    *)
(* the pass of a process that is shutting down runs on beside the next.    *)
(***************************************************************************)
EXTENDS Integers, FiniteSets

CONSTANTS
    Messages,          \* ids of outbox rows
    Dispatchers,       \* dispatcher loops of the old and the new process
    People,            \* subscribers
    Reachable,         \* those with a contact address
    PassTimeout,       \* the deadline of one Tick, in ticks
    StuckAfter,        \* stuckSendingAfter, in ticks
    MaxAttempts,       \* maxAttempts
    MaxFlips           \* bound: edits of rules and opt-ins, retries and new days

\* One pass never outlives the interval after which its rows are taken back.
ASSUME NotifyAssumption ==
    /\ PassTimeout \in Nat /\ StuckAfter \in Nat /\ PassTimeout <= StuckAfter
    /\ MaxAttempts \in Nat \ {0}

VARIABLES
    outbox,     \* [Messages -> [st, to, skip, tries, age, wait]]
    passes,     \* [Dispatchers -> [at, todo, row, age]]
    optedOut,   \* subscribers who opted out of the channel
    rule,       \* the rule of the event: [on, ignore]
    reminded,   \* subscribers reminded today
    sent,       \* messages that left the system
    flips

noteVars == <<outbox, passes, optedOut, rule, reminded, sent, flips>>

NoMsg == [st |-> "none", to |-> "none", skip |-> "", tries |-> 0, age |-> 0, wait |-> 0]
NoPass == [at |-> "idle", todo |-> {}, row |-> 0, age |-> 0]

NoteInit ==
    /\ outbox = [r \in Messages |-> NoMsg]
    /\ passes = [d \in Dispatchers |-> NoPass]
    /\ optedOut = {} /\ rule = [on |-> TRUE, ignore |-> FALSE]
    /\ reminded = {} /\ sent = {} /\ flips = 0

Flip == flips < MaxFlips /\ flips' = flips + 1
PutRow(r, st, to, skip) == outbox' = [outbox EXCEPT ![r] = [NoMsg EXCEPT !.st = st, !.to = to, !.skip = skip]]
FreeRow(r) == outbox[r].st = "none"

-----------------------------------------------------------------------------
(* enqueueing                                                              *)

\* insertOutbox
InsertOutbox(r, to) == FreeRow(r) /\ PutRow(r, "queued", to, "")

\* insertSkipped: straight to skipped, with the reason.
InsertSkipped(r, to, reason) == FreeRow(r) /\ PutRow(r, "skipped", to, reason)

\* channelOptedIn
ChannelOptedIn(s) == s \notin optedOut

\* resolveSubscriberChannel for sms and email: the reason to skip, or none.
ResolveSubscriberChannel(s, ignore) ==
    IF s \notin Reachable THEN "no_contact" ELSE IF ~ignore /\ ~ChannelOptedIn(s) THEN "opted_out" ELSE ""

\* currentTemplate is there, or the row is skipped for want of one.
Enqueue(r, to, skip, template) ==
    LET why == IF skip = "" /\ ~template THEN "no_template" ELSE skip
    IN  IF why = "" THEN InsertOutbox(r, to) ELSE InsertSkipped(r, to, why)

\* EnqueueEvent: a rule that is off enqueues nothing.
EnqueueEvent(r, s, template) ==
    /\ rule.on
    /\ Enqueue(r, s, ResolveSubscriberChannel(s, rule.ignore), template)
    /\ UNCHANGED <<passes, optedOut, rule, reminded, sent, flips>>

\* The monitor's listener for billing's published events: what is published
\* while it is not subscribed enqueues nothing, now or later.
HandleRenewed(r, s, template) == EnqueueEvent(r, s, template)
NotifySubscriberTicket(r, s, template) == EnqueueEvent(r, s, template)

\* EnqueueBroadcast, one subscriber of it; opt-outs always count.
EnqueueBroadcast(r, s) == Enqueue(r, s, ResolveSubscriberChannel(s, FALSE), TRUE)

\* handleBroadcast
HandleBroadcast(r, s) == EnqueueBroadcast(r, s) /\ UNCHANGED <<passes, optedOut, rule, reminded, sent, flips>>

\* resolveAlertRecipients finds an address or none.
ResolveAlertRecipients(configured) == IF configured THEN "" ELSE "no_contact"

\* EnqueueAlert: staff, nobody's opt-out.
EnqueueAlert(r, configured) ==
    /\ Enqueue(r, "staff", ResolveAlertRecipients(configured), TRUE)
    /\ UNCHANGED <<passes, optedOut, rule, reminded, sent, flips>>

\* EnqueuePasscode: one row to the phone number that asked for it.
EnqueuePasscode(r, template) ==
    /\ rule.on
    /\ Enqueue(r, "phone", "", template)
    /\ UNCHANGED <<passes, optedOut, rule, reminded, sent, flips>>

-----------------------------------------------------------------------------
(* the scanner                                                             *)

\* claimDaily
ClaimReminder(s) == s \notin reminded /\ reminded' = reminded \union {s}

\* scanExpiryWindow and scanQuotaWarning, one subscriber who is due; an error
\* of the enqueue is logged and the day's claim stays.
ScanExpiryWindow(s, r, ok) ==
    /\ rule.on /\ ClaimReminder(s)
    /\ IF ok THEN Enqueue(r, s, ResolveSubscriberChannel(s, rule.ignore), TRUE) ELSE UNCHANGED outbox
    /\ UNCHANGED <<passes, optedOut, rule, sent, flips>>

\* The date in the key of the claim changes.
NewDay == reminded # {} /\ reminded' = {} /\ Flip /\ UNCHANGED <<outbox, passes, optedOut, rule, sent>>

-----------------------------------------------------------------------------
(* the dispatcher                                                          *)

\* Mutant: taken back as soon as the interval is reached.
ReclaimSoon(d) ==
    /\ passes[d].at = "idle"
    /\ outbox' = [r \in Messages |-> IF outbox[r].st = "sending" /\ outbox[r].age >= StuckAfter
                                     THEN [outbox[r] EXCEPT !.st = "queued", !.age = 0, !.wait = 0] ELSE outbox[r]]
    /\ passes' = [passes EXCEPT ![d] = [NoPass EXCEPT !.at = "claim"]]
    /\ UNCHANGED <<optedOut, rule, reminded, sent, flips>>

\* Tick begins, reclaimStuckSending: rows in sending for longer than
\* StuckAfter go back to the queue.
ReclaimStuckSending(d) ==
    /\ passes[d].at = "idle"
    /\ outbox' = [r \in Messages |-> IF outbox[r].st = "sending" /\ outbox[r].age > StuckAfter
                                     THEN [outbox[r] EXCEPT !.st = "queued", !.age = 0, !.wait = 0] ELSE outbox[r]]
    /\ passes' = [passes EXCEPT ![d] = [NoPass EXCEPT !.at = "claim"]]
    /\ UNCHANGED <<optedOut, rule, reminded, sent, flips>>

InTime(d) == passes[d].age <= PassTimeout

\* claimBatch: every due row, in one statement (the batch is larger than
\* Messages).
ClaimBatch(d) ==
    LET due == {r \in Messages : outbox[r].st = "queued" /\ outbox[r].wait = 0}
    IN  /\ passes[d].at = "claim" /\ InTime(d)
        /\ outbox' = [r \in Messages |-> IF r \in due THEN [outbox[r] EXCEPT !.st = "sending", !.age = 0] ELSE outbox[r]]
        /\ passes' = [passes EXCEPT ![d].at = "work", ![d].todo = due]
        /\ UNCHANGED <<optedOut, rule, reminded, sent, flips>>

\* attempt, the channel's send: nothing of the row is read again.  The
\* gateway may have taken a message whose answer is an error.
Attempt(d, r, ok, out) ==
    /\ passes[d].at = "work" /\ r \in passes[d].todo /\ InTime(d)
    /\ ok => out
    /\ sent' = IF out THEN sent \union {r} ELSE sent
    /\ passes' = [passes EXCEPT ![d].at = IF ok THEN "taken" ELSE "refused", ![d].row = r]
    /\ UNCHANGED <<outbox, optedOut, rule, reminded, flips>>

\* resolveSent, by id alone
ResolveSent(r) == outbox' = [outbox EXCEPT ![r].st = "sent", ![r].tries = @ + 1, ![r].age = 0]

\* backoffSeconds
BackoffSeconds == 1

\* resolveFailedAttempt, by id alone: back to the queue or, the budget spent,
\* failed.
ResolveFailedAttempt(r) ==
    outbox' = [outbox EXCEPT ![r].st = IF outbox[r].tries + 1 >= MaxAttempts THEN "failed" ELSE "queued",
                             ![r].tries = @ + 1, ![r].age = 0, ![r].wait = BackoffSeconds]

\* attempt, the outcome is written; an error of the write is dropped.
Resolve(d, written) ==
    LET r == passes[d].row
    IN  /\ passes[d].at \in {"taken", "refused"} /\ (written => InTime(d))
        /\ IF ~written THEN UNCHANGED outbox ELSE IF passes[d].at = "taken" THEN ResolveSent(r) ELSE ResolveFailedAttempt(r)
        /\ passes' = [passes EXCEPT ![d].at = "work", ![d].row = 0, ![d].todo = @ \ {r}]
        /\ UNCHANGED <<optedOut, rule, reminded, sent, flips>>

\* Run: the pass is over, its deadline has passed (the rest of it fails at
\* once) or the process is killed; what it claimed stays in sending.
PassEnds(d) ==
    /\ passes[d].at # "idle"
    /\ passes' = [passes EXCEPT ![d] = NoPass]
    /\ UNCHANGED <<outbox, optedOut, rule, reminded, sent, flips>>

-----------------------------------------------------------------------------
(* operators and subscribers                                               *)

\* cancelOutboxRow
CancelOutboxRow(r) == outbox[r].st = "queued" /\ outbox' = [outbox EXCEPT ![r].st = "skipped", ![r].skip = "cancelled", ![r].age = 0]

\* handleCancelOutbox
HandleCancelOutbox(r) == CancelOutboxRow(r) /\ UNCHANGED <<passes, optedOut, rule, reminded, sent, flips>>

\* retryOutboxRow
RetryOutboxRow(r) ==
    outbox[r].st = "failed" /\ outbox' = [outbox EXCEPT ![r].st = "queued", ![r].tries = 0, ![r].wait = 0, ![r].age = 0]

\* handleRetryOutbox
HandleRetryOutbox(r) == Flip /\ RetryOutboxRow(r) /\ UNCHANGED <<passes, optedOut, rule, reminded, sent>>

\* updateRule, read and written back
UpdateRule(on, ignore) == rule' = [on |-> on, ignore |-> ignore]

\* handlePutRule
HandlePutRule(on, ignore) ==
    Flip /\ UpdateRule(on, ignore) /\ rule' # rule /\ UNCHANGED <<outbox, passes, optedOut, reminded, sent>>

\* putNotificationPreferences of the portal
PutPreferences(s) ==
    /\ Flip
    /\ optedOut' = IF s \in optedOut THEN optedOut \ {s} ELSE optedOut \union {s}
    /\ UNCHANGED <<outbox, passes, rule, reminded, sent>>

\* A tick; a pass goes past its deadline only to end.
NoteTick ==
    /\ \A d \in Dispatchers : passes[d].age <= PassTimeout
    /\ passes' = [d \in Dispatchers |-> IF passes[d].at = "idle" THEN NoPass ELSE [passes[d] EXCEPT !.age = @ + 1]]
    /\ outbox' = [r \in Messages |-> [outbox[r] EXCEPT
            !.age = IF outbox[r].st = "sending" /\ @ <= StuckAfter THEN @ + 1 ELSE @,
            !.wait = IF @ > 0 THEN @ - 1 ELSE 0]]
    /\ UNCHANGED <<optedOut, rule, reminded, sent, flips>>

NoteNext ==
    \/ NoteTick \/ NewDay
    \/ \E r \in Messages, s \in People :
          \/ \E ok \in BOOLEAN : \/ HandleRenewed(r, s, ok) \/ NotifySubscriberTicket(r, s, ok)
                               \/ ScanExpiryWindow(s, r, ok)
          \/ HandleBroadcast(r, s)
    \/ \E r \in Messages, ok \in BOOLEAN : EnqueueAlert(r, ok) \/ EnqueuePasscode(r, ok)
    \/ \E r \in Messages : HandleCancelOutbox(r) \/ HandleRetryOutbox(r)
    \/ \E on \in BOOLEAN, ig \in BOOLEAN : HandlePutRule(on, ig)
    \/ \E s \in People : PutPreferences(s)
    \/ \E d \in Dispatchers :
          \/ ReclaimStuckSending(d) \/ ClaimBatch(d) \/ PassEnds(d)
          \/ \E r \in Messages, ok \in BOOLEAN, out \in BOOLEAN : Attempt(d, r, ok, out)
          \/ \E w \in BOOLEAN : Resolve(d, w)

NoteSpec == NoteInit /\ [][NoteNext]_noteVars

-----------------------------------------------------------------------------
(* properties                                                              *)

\* A pass that still can write about a row is the only one, and the row is in
\* sending: no pass resends or overwrites what was taken back, cancelled,
\* retried or resolved since, although it writes by id alone.  Only the two
\* intervals (30 s of a pass, 30 s in sending) see to it.
OneSender ==
    \A d \in Dispatchers : InTime(d) =>
        \A r \in passes[d].todo :
            /\ outbox[r].st = "sending"
            /\ \A e \in Dispatchers \ {d} : InTime(e) => r \notin passes[e].todo

\* "a recipient state discovered only at send time, e.g. opted out since
\* enqueue": nobody gets a message after opting out.  It fails: nothing reads
\* the preference again.
OptOutRespected ==
    [][\A r \in Messages : r \in sent' \ sent /\ outbox[r].to \in People /\ ~rule.ignore => outbox[r].to \notin optedOut]_noteVars

\* A message leaves at most once.  It fails: the outcome of a send is lost
\* with the deadline or a restart and the row is sent again.
SentOnce == [][\A d \in Dispatchers, r \in Messages : passes[d].at = "work" /\ passes'[d].row = r => r \notin sent]_noteVars
==============================================================================
