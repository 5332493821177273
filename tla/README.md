# HikRAD: TLA+ models of the backend

HikRAD is an ISP management system built around FreeRADIUS. Its own logic is the
Go backend under `src/backend`: four binaries (`hikrad-api`, `hikrad-acct`,
`hikrad-monitor`, `hikrad-updaterd`) over one Postgres and one Redis. This
directory holds TLA+ models of the parts of that backend whose correctness
depends on the order of steps of several actors, the TLC runs that check them on
small instances, and TLAPS proofs of the properties that matter most.

## 1. Inventory

Paths are below `src/backend/internal` unless they start with `cmd`.

| Part | State it keeps | Operations | What is hard about it |
|---|---|---|---|
| Accounting pipeline (`accounting`: ingest, queue, spill, consumer) | Redis stream and its pending-entries list, disk WAL, `acct_dedup` | POST /acct, WAL append and drain, XREADGROUP loop, dedup transaction, XACK and XDEL | outages of either store, kills between any two steps, answers lost behind their effect, retransmissions |
| Audit counters (`accounting/counters.go`) | atomics, a Redis mirror, a Postgres row | bump, flush, load at boot, health check | three copies written at different moments; a conservation law over all of them |
| Counter arithmetic (`accounting/record.go`) | none | `totalBytes`, `advance` | 32-bit wrap, with and without gigawords, told from a counter reset by a heuristic |
| Sessions, usage, reaper (`accounting/sessions.go`, `reaper.go`, `live/livestate`) | `sessions`, usage points, lifetime totals, the Redis live hash | start, interim, stop, duplicate, mark stale, reap | reaper and consumer run side by side; records arrive late, twice or out of order |
| CoA outbox (`radius/coa_*.go`) | `coa_outbox` rows | enqueue, claim, send, resolve, sweep, reclaim, retry, cancel | goroutine per row, decisions applied by id after the row changed, a NAS that answers late or never |
| Payment tickets and renewals (`billing/tickets.go`, `renew.go`) | tickets, `renewal_idempotency`, `expires_at` | submit, trial, approve, reject, panel renewal | several transactions per request, several reviewers, retries |
| Ledger (`billing`: ledger, voucher, refund, undo, commission, balance) | ledger rows, balances, codes, undo rows, parked requests | top-up, renew, redeem, refund, undo, approve, void | checks outside the transaction they protect; three ways to give money back |
| Books (`billing`: invoices, ar_ap, expenses, fixed_assets, journal, statements) | documents and the double-entry journal | issue, pay, void, approve, depreciate, report | one document handled by several clerks, each posting to the journal |
| Prepaid cards (`cards`) | groups and cards | generate, enable, disable, reset, delete, login | read, stamp and sum are three round trips |
| Enforcement and limits (`radius/enforce.go`, `limitsworker.go`, `tod.go`, `accounting/quota.go`, `subscribers/sweep.go`) | deduplication rows, quota flag, the sweep's memory | expiry, quota, uptime, daily and time-of-day limits to CoA rows | claim before the work it guards; pub/sub that drops messages; memory lost at a restart |
| Authorization (`radius/policy.go`, `authview.go`, `limits.go`) | the cached view | decide, learn a MAC, invalidate | precedence of reasons; a view loaded before an edit and stored after it |
| Subscribers, profiles (`subscribers`, `profiles`) | rows, parked deletions, bulk and batch jobs | create, update, delete, bulk, batch, edit a plan | every rule is a query before the statement it protects; jobs outlive their request |
| NAS registry (`radius/nas_*.go`, `clients.go`) | table, snapshot, clients file, dynamic clients | create, update, delete, reload, regenerate | four copies of one table |
| Router provisioning (`radius`: autosetup, wizard, services, pools, WAN, firewall) | router objects, service rows, snapshots | preview, apply, adopt, confirm, revert | somebody else writes to the router; an apply stops half way; a worker undoes unconfirmed changes |
| Import (`importer`) | batch, rows, in-memory job | map, dry run, execute | create, then mark; second runs and restarts in between |
| Access (`auth`) | managers, roles, sessions, tokens, lockout | login, two-factor, refresh, revoke, edit | a token is never looked up again until it expires |
| Notification outbox (`notify`) | outbox rows, rules, daily claims | enqueue, scan, dispatch, reclaim, cancel, retry | nothing but two intervals keeps two passes off one row |
| Monitoring (`monitorsvc`, `cmd/hikrad-monitor`) | samples, engine memory, alert feed, rules | probe, transition, fire, digest, reload | feed and downtime log come from two sources; restarts |
| Updater (`cmd/hikrad-updaterd`, `update`) | run record, lock, VERSION, event buffers | start, stream, status, roll back | the update restarts the daemon that runs it |
| Portal, reports, support, push, Telegram, platform, frontend | rows | queries, rendering, delivery | little of their own |

How the parts interact: FreeRADIUS posts accounting to `hikrad-acct` and asks
`hikrad-api` for authorization. The consumer of `hikrad-acct` writes sessions and
usage, keeps the live hash and sets the quota flag. The enforcement workers of
`hikrad-api` turn exhausted limits into rows of the CoA outbox, whose dispatcher
checks the live hash and sends RADIUS packets to the NAS. Renewals, vouchers and
tickets move `expires_at`, write ledger and payments in one transaction, drop the
cached authorization view, then enqueue a CoA that restores the subscriber's
policy and publish an event that `hikrad-monitor` turns into a notification.
Edits of subscribers, plans and routers invalidate the views derived from them.

What makes each part correct is stated in the modules; section 3 lists it. The
hazards these properties are aimed at are listed, with their lines, in
`PROJECT.json`.

## 2. Modules

| Module | Models | Kind |
|---|---|---|
| `AcctPipeline` | ingest handlers, WAL, drainer, Redis stream, consumer, dedup | state machine |
| `AcctContract` | the ack contract: take, acknowledge, store, discard | abstract specification |
| `AcctCounters` | the FR-40 counters, composed over every action of `AcctPipeline` | composition |
| `AcctRecord` | `totalBytes` and `advance` | operators |
| `AcctDelta` | a NAS that counts and reports, against `AcctRecord` | reference check |
| `AcctSession` | one session: row, usage, live entry, consumer and reaper; uses `AcctRecord` | state machine |
| `CoaOutbox` | outbox rows, dispatcher tick, operator | state machine |
| `PaymentTickets` | tickets and the renewal path | state machine |
| `BillingLedger` | one agent's wallet, renewals, codes, refunds, undo, parked undo | state machine |
| `BillingBooks` | invoices, bills, expenses, assets and their journal | state machine |
| `Cards` | card groups, cards, logins with a code | state machine |
| `Limits` | what an exhausted limit does at login and to a session online | operators |
| `Enforcement` | the three enforcement workers, their inputs and their memory; uses `Limits` | state machine |
| `Authorize` | the Access-Request path and the cached view; uses `Limits` | state machine |
| `Subscribers` | subscriber rows, deletions and their approval, bulk and batch jobs | state machine |
| `Profiles` | plans, their members' cached views, bulk edits | state machine |
| `NasRegistry` | the NAS table and its three copies | state machine |
| `Importer` | batch, dry runs, executions | state machine |
| `Access` | managers, roles, sessions, tokens, lockout | state machine |
| `Notify` | the notification outbox and its dispatchers | state machine |
| `Monitor` | probe engine, alert engine, feed | state machine |
| `Updater` | daemon, child, lock, state file, relay and browser stream | state machine |
| `Routers` | one router under every kind of write the panel does | state machine |
| `MCAcctPipeline`, `MCAcctCounters`, `MCAcctSession` | model values, symmetry, history variables | instances |
| `MCBilling`, `MCNetwork`, `MCOperations`, `MCDevices` | several modules side by side | instances |
| `AcctPipelineProofs`, `AcctSessionProofs`, `CoaOutboxProofs`, `PaymentTicketsProofs`, `BillingProofs`, `NetworkProofs`, `OperationsProofs` | the theorems about these parts | proofs |
| `Sums` | facts about sums over finite sets | proofs |

Definitions named `...Unfloored`, `...NoKey`, `...Soon` and the like, each under
a comment that starts with "Mutant:", are no part of any specification. They are
variants of the definition below them with a plausible mistake in it. For every
property of a passing run there is one whose substitution makes TLC report that
property violated.

The four side-by-side modules start with a choice of `part`; in a behaviour that
part moves and the others rest in their initial state. The reachable states are
the union of those of the parts, so every property is checked on exactly the
behaviours of its own module. Model values are shared between parts (two
redeemers, two portals and two logins are the same `a1`, `a2`): as only one part
moves, a permutation is a symmetry of that part and of the whole.

### AcctPipeline

A handler goroutine takes a packet (`Receive`), tries the XADD
(`EnqueueStream`, `EnqueueFails`, `EnqueueAmbiguous`: the entry is there and the
client sees an error), falls back to the WAL (`SpillAppend`, `SpillFails`) and
answers 204 (`Reply`). The drainer takes the mutex of the file, pushes line by
line (`StartDrain`, `PushLine`, `SkipLine` for a bad CRC, `PushFails`) and
truncates (`TruncateWal`, `TruncateFails`). While it pushes, no append happens
(`WalFree`). The consumer ensures its group, reads its own backlog ("0") until a
short batch shows it is empty and then new entries (">"), runs the transaction
that inserts the dedup key (`Process`, `ProcessFails`), and acknowledges and
deletes (`AckDelete`). A processing failure or a restart goes back to "0".
The stream is the sequence `log` of everything ever added with the set `entries`
of ids not deleted; `pel` and `lastId` are the group's state in Redis.

Faults are named by kind (`FaultKinds`) so that a run says exactly what its
environment may do, and `faults` is the sequence of those that have happened, so
that a property can name the ones it excludes (`Happened`). Redis loses no data in an outage because it is run with
`appendfsync=always` (`src/docs/evidence/redis-durability-decision.md`).
A member of `Rec` is one accounting event; a second transmission of it is a
retransmission with the same dedup fields. `NasId` is part of the dedup key
because the code resolves it with a lookup that can fail.

### AcctCounters

Extends the pipeline: each action that bumps a counter is conjoined with its
bump, every other one leaves the counters alone (`Uncounted`). `Load` is the
merge at boot of the Redis key and the Postgres row. Two abstractions: the
atomic and its INCR are one step, and so are the duplicate's atomic and its
UPDATE. A kill between the two would lose one count of a packet that has not
been answered, or of a duplicate that will be delivered again; no acknowledged
record stands behind it.

### AcctRecord, AcctDelta

`Word` stands for 2^32, so that wraps happen in small instances; every division
and remainder of `advance` is kept. `AcctDelta` compares the running sum the
consumer would bill with the octets the NAS really counted, for a NAS that sends
the gigaword attributes and for one that does not (`giga`).

### AcctSession

Record 1 is the Start, record `Last` the Stop. Records are applied in any order,
since a record that was spilled to the WAL is overtaken by those behind it. `Apply`
is the whole transaction of `upsertSession` (row, usage point, lifetime totals,
dedup key); `LiveOp` is the Redis command behind the commit and the
acknowledgement; `Duplicate` is what the consumer does with a record it has
already stored. The reaper's pass is split where the code has separate
statements: list, UPDATE, credit, remove, and for a stale session UPDATE, HGET,
HSET, because the consumer may run between any two of them. Stream entries are
acknowledged one by one, so at most one committed record is unacknowledged.

### CoaOutbox

Rows concern one live session. `phase` is the pass of the tick: `Reclaim`,
`Claim`, goroutines of `dispatchOne` (`CheckLive`, `SendAck` or `SendNak`,
`Resolve`), then `SweepList`, which decides from what it read, and `SweepApply`,
which writes by id. `RetryRow` and `CancelRow` are the operator's. `due` stands
for the clocks of a row: `next_attempt_at` while pending, 30 s behind `sent_at`
while sent. The tick waits for its goroutines and has the same 30 s, so a row
that is still sent when a tick begins belongs to nobody. `policy` and `tries`
are history: what the NAS applied last, and refusals of the update; `faults`
records the kinds of fault as in the pipeline. The LIMIT
100 of the claim is left out, `coa_retry_max` is a constant.

### PaymentTickets

One subscriber, in days. Each transaction is one step, which the row locks
(`FOR UPDATE`) of the code justify; statements outside a transaction are steps
of their own. `Submit` reads the trial eligibility, `CreateTicket` is the INSERT
that the partial unique index guards, `GrantTrial` and `LinkTrial` follow.
`ReadPending`, `Approve` and `Decide` are the three steps of `approveTicket`,
`Reject` is one transaction. `Reserve` is the idempotency reserve of `renewTx`.
Attachments and notifications have no influence on the guards modelled; balances
and commission are in `BillingLedger`.

### BillingLedger, BillingBooks, Cards

In `BillingLedger` a database transaction is one step. Redemption waits for the
row lock between its read of the batch and its transaction; `performUndo` reads,
looks at `undone_at` and refunds in steps of its own; a scoped agent's undo is
parked and executed when it is approved. Every ledger row is kept, with the days
it granted or took back, so that properties can compare the balance, the journal
lines of the agent's account and the expiry with the history. `BillingBooks`
keeps the journal as the net debit of every account in every month; two clerks
void, pay, approve and run the depreciation, which reads the accumulated sum
before its transaction. `Cards` splits `AuthenticateCard` at its three round
trips, with the group's edits, the card's reset and its deletion in between;
`spread` records the first and the last accepted login of a code.

### Limits, Enforcement, Authorize

`Limits` is pure: the target of an action, the plan for an outcome, the reply of
a login, the windows of the day. `Enforcement` keeps the account's usage, the
quota flag between query and write, the claims of the running cycle, messages
under way, the handler of a message at each of its statements, the limits sweep
with its per-session memory, and the time-of-day engine; `sent` is the last CoA
enqueued for a session. A message has a form, because publisher and subscriber do
not agree on it. `Authorize` keeps every version the account went through, so that
a view is a version number and its age is known.

### Subscribers, Profiles, NasRegistry

In `Subscribers` every check (licence cap, name, address, billing history) and the
statement it protects are two steps of a writer; bulk and batch jobs work through
their list row by row. `overlapped` remembers that a check was made while somebody
else stood between his own and his write. `Profiles` follows an edit from its
commit over the list of members to the deletion of each cached view; `lazy` marks
views that are knowingly left to their lifetime. In `NasRegistry` a lookup that
finds the snapshot too old reads the table and stores the result in two steps; a
regeneration of the clients file reads and writes in two steps.

### Importer, Access, Notify, Monitor

`Importer`: the dry run replaces the rows, an executor posts a row to the create
endpoint and then marks it; both may fail or die in between. `Access`: login,
refresh and every administrative request read account, role, overrides and
allowlist in separate steps; tokens carry what was read; `since` and `cut` count
how long a right has been gone. `Notify`: a pass has a deadline and works through
the rows it claimed; the outcome of a send is written by id in a step of its own.
`Monitor`: a sweep probes all targets concurrently, a probe writes its sample,
folds it into the engine's memory and fires on an edge; samples and feed entries
are kept whole, so that the downtime log the API recomputes from the samples can
be compared with the feed.

### Updater, Routers

`Updater`: a run's output passes through the child's pipe, the daemon's list and
the relay's list, each with its own end marker; `handleStatus` reads record, lock
and VERSION in steps, and the daemon, the child and `hikrad-api` may die at any of
them. The shell script is a sequence of stages. `Routers`: objects of one router
with the few settings a plan compares; a preview answers a hash of the plan,
an apply plans again, compares, writes item by item and records; the
revert worker works from its list; somebody may change the router by hand.

## 3. Runs

### Runs that pass

| Run | Properties | What it shows |
|---|---|---|
| `acct_safety` | `TypeOK`, `AckedDurable`, `NoneStranded`, `ImplementsContract` | with every fault but a partial WAL line, an acknowledged record is always durable somewhere; the pipeline refines `AcctContract` with held = WAL and stream, stored = `acct_dedup`; unless the reply of a read was lost, no delivered entry falls outside both the batch and the backlog |
| `acct_live` | `EventuallyStored`, `WalDrains` | through outages, kills, ambiguous commits and partial lines, what is durable reaches the database, and the WAL is emptied again |
| `counters` | `PersistedExact`, `Conserved`, `TotalsSurvive`, `DeltaExact` | the persisted column equals the rows; through one outage of either store, the conservation law holds in motion with its exact error terms; without outages no total goes back at a restart. Beside it, `AcctDelta`: usage is exact with gigawords through any number of wraps, and without them up to the first; it is never too small while less than half a word passes between two reports |
| `session` | `UsageCovers`, `ExactUndisturbed`, `GhostFree`, `SilentCloses` | no applied counter is missing from the bill, whatever the order; unless a record was overtaken or the row reaped, usage and connected time are exact across crashes and duplicates; the redelivered Stop repairs the live view after a crash; silent sessions are closed |
| `coa` | `BudgetHolds`, `FallbackEarned`, `DoneHonest`, `CancelHolds`, `Settles` | attempt budgets hold, operator races included; the fallback is earned; done means acknowledged or gone while Redis answers; a cancelled row is not sent; every pending row is settled |
| `billing` | `ReversedOnce`, `DaysPaidFor`, `VoucherConserved` | nothing is given back twice, whichever of refund, undo and approved request meet; the subscriber has at most the days of the sales that stand; every code that can be used is paid for, and is spent once |
| | `BooksTie` | receivables and payables tie to the open documents through voids, partial payments and invoices born paid, the sheet balances, an asset is not written off beyond its value unless a run crossed the end of its month |
| | `ChargedOnce`, `DecidedAlone` | an approval charges once, and an approved ticket is charged; reviewers who take turns never reject what was charged |
| | `CardWithinWindow` | a card is good for one window from its first use, whatever is reset, re-enabled or raced |
| `network` | `RestoreRemembered`, `QuotaFlagEarned`, `SameVerdict` | what the limits sweep restricted it remembers to restore; the quota flag is about the running cycle; sweep and login agree on what an exhausted limit does |
| | `SelfHeals`, `CacheCoherent` | no login is accepted on an account older than a cache life and two request lives; every writer drops the view, and a stale one has one of three named causes |
| | `SerialChecksHold`, `PlanViewsFollow`, `RegistryCurrent` | requests whose checks do not overlap keep the licence cap, one holder per address and no orphaned money; no edit of a plan leaves a view behind; a router is known or unknown as the table has it after a snapshot's life and one slow reload |
| `operations` | `RevocationSLA` | what is taken from a manager is gone from every token within a token's life and one request |
| | `ImportedOnce`, `OneSender`, `FeedMatchesLog` | a batch creates a name once through failures, restarts and second runs; two dispatchers never hold one row; the alert feed holds exactly the transitions of the downtime log while the engine's memory lasts |
| `devices` | `StreamComplete`, `RevertRestores` | a progress stream followed to its end shows the whole run and its verdict unless the daemon or `hikrad-api` was restarted under it; an unconfirmed firewall edit is taken back and a confirmed one stays |

Several of these say under which circumstances they hold, by the history of
faults or of disturbances; what happens outside them is in the next two lists.

### Runs that end in a counterexample

Each states what a document or a comment of the repository says, and TLC finds a
behaviour of the code that contradicts it. The quotations are in `PROJECT.json`.

| Run | Property | Behaviour found |
|---|---|---|
| `tickets_race` | `DecisionMatchesMoney` | an approval that loses the race against a rejection has charged and extended all the same |
| `enforce_expired` | `ExpiredEnforced` | the expiry sweep publishes a bare id, the worker expects a JSON object and drops it: an expired session is never told |
| `updater_success` | `SuccessMeansHealthy` | the update restarts the daemon that runs it; the child dies before its health check and the next status request infers a success from VERSION |

### Stronger properties that the code does not have

The modules also state properties that no run checks, because TLC refutes them.
They mark the edge of what the passing runs show. For the first table each is
reproduced by a configuration with the constants given and the property named;
for the second by the run's own configuration with the property put in the place
of its own.

| Property | Specification and constants | Behaviour |
|---|---|---|
| `AckedDurable` | `MCAcctPipeline`, `Spec`: two records, one handler, `ReadCount = 1`, `Faults = {"redis", "torn"}`, `MaxSends = 1`, `MaxFaults = 2` | an append stops half way; the next record is written behind the partial line, shares its CRC, and is dropped although it was acknowledged (`spill.go:82`, against `ingest.go:4`) |
| `StoredOnce` | `MCAcctPipeline`, `Spec`: one record, `Faults = {"lookup"}`, `MaxSends = 2`, `MaxFaults = 1` | a failed NAS lookup changes the dedup key between two deliveries, so that the event is stored twice (`resolve.go:92`) |
| `EventuallyStored` | `MCAcctPipeline`, `FairSpec`: one record, `Faults = {"read"}`, `MaxSends = 1`, `MaxFaults = 1` | the reply of an XREADGROUP ">" is lost; its entries stay pending until a restart or a processing failure |
| `ConservedAtRest` | `AcctCounters`, `CountersSpec`: two records, one handler, `ReadCount = 1`, `Faults = {"redis"}`, `MaxSends = 1`, `MaxFaults = 2` | an interrupted drain pushes lines a second time; the health check is false at rest |
| `UsageExact` | `AcctSession`, `Spec`: `Last = 3`, `Step = 1`, `Word = 4`, `StaleAfter = ReapAfter = 9`, `MaxNow = LastSend = 3`, no faults | an overtaken interim counts as a reset and is billed in full |
| `ReopensCorrectly` | `MCAcctSession`: `Last = 4`, `Step = 1`, `Word = 4`, `StaleAfter = 2`, `ReapAfter = 3`, `MaxNow = LastSend = 7`, no faults | an interim on a reaped row bills the whole counter again (`sessions.go:82`) |
| `SecsOnce`, `NoLiveGhost`, `ReapOnlySilent` | `AcctSession`, `Spec`: `Last = 3`, the rest as above | a Stop behind a reap credits the time again; the reaper writes back a live entry that a Stop removed (`reaper.go:107`); a session heard of between list and UPDATE is reaped |
| `RestoreWins` | `CoaOutbox`, `Spec`: two rows, `Actions = {"update"}`, `RetryMax = 1`, `MaxOps = 0`, no faults | two rows of one session are sent concurrently and the older one wins (`coa_dispatcher.go:86`) |
| `PendingAttempted` | `CoaOutbox`, `Spec`: one row, `Actions = {"update"}`, `RetryMax = 1`, `MaxOps = 1`, `Faults = {"nak"}` | a stale decision of the sweep overwrites a row that the operator retried |
| `FrozenMachine` | the same with `MaxOps = 0` | transitions that the frozen description of the states excludes |
| `TrialNotRevenue` | `PaymentTickets`, `Spec`: one ticket, one portal, one reviewer, `Duration = 3`, the other bounds 0 | a trial day is booked as a full payment (`renew.go:312`, against `journal.go:232`) |
| `OneTrialPerCycle` | the same with two tickets and two portals | an eligibility read before a rejection grants another trial (`tickets.go:70`) |
| `RejectTakesTrialOnly` | two tickets, one portal, `Expires = 3` | the rejection of a ticket without a trial takes a paid day (`tickets.go:407`) |
| `RenewalExtends` | one ticket, `Expires = 0`, `MaxRenewals = 1` | an approval behind a panel renewal moves the expiry back (`tickets.go:330`) |

| Property | Run | Behaviour |
|---|---|---|
| `JournalAgrees` | `billing` | the purchase of a batch of codes debits the balance and posts no line to the wallet account of the journal, of which a comment says "the two can never diverge" |
| `PeriodFigures` | `billing` | the period is a condition of an outer join on the entries while the lines are summed, so that the income of a month is that of all months (`statements.go:77-78`) |
| `DisabledStays` | `billing` | a card's first-use stamp overwrites the state an operator set in between (`cards/auth.go:93`) |
| `ChecksHold` | `network` | two overlapping requests pass the cap, the address or the billing-history check together (`subscribers/store.go:160-173`) |
| `TargetsExist` | `network` | a plan that others switch to is deleted, or never existed |
| `InvalidateForces` | `network` | a reload that read before a change stores behind its invalidation (`nas_store.go:301-302`) |
| `FileCurrent` | `network` | two regenerations write the clients file in the opposite order of their reads (`clients.go:111`) |
| `ImportedOnceAlways` | `operations` | two executions of one batch start together and create a plan twice (`importer/api.go:291-297`) |
| `SomeoneAdministers` | `operations` | two administrators disable each other (`managers_store.go:191-196`) |
| `ResetLogsOut` | `operations` | a login that checked the old password opens its session behind the reset (`managers_api.go:208-210`) |
| `OptOutRespected`, `SentOnce` | `operations` | an opt-out is not read again at send time (`outbox_store.go:318-319`); the outcome of a send is lost with a restart and the row is sent again |
| `FeedMatchesLogAlways`, `NoGhostEntry` | `operations` | a restart forgets an outage and never resolves it (`history_api.go:146`); the write back of a stale flag restores a removed live entry (`probe.go:300-310`) |
| `RefusedForAnUpdate`, `VersionTrue` | `devices` | a status request probes the lock by taking it, and an update that starts at that moment is refused (`lock_unix.go:11-15`); a rollback restores the binaries and leaves VERSION |
| `RevertExact`, `ConfirmWins`, `AdoptedFirst` | `devices` | an empty field is left out of the revert sentence (`vendor/mikrotik_firewall.go:138-144`); the worker reverts from its list what was confirmed since (`firewall_store.go:65-68`); the wizard takes over a foreign service without adoption (`wizard_api.go:168-180`) |

Conditions inside checked properties are there for the same reason. Without
`giga = "yes"`, `DeltaExact` fails at the report behind a wrapped one: it looks
like a reset and is billed in full. Without its exception for Redis, `DoneHonest`
fails: an error of the live lookup counts as "session gone". Without `ops <= 1`,
`CancelHolds` fails: a stale decision of the sweep revives a row that was retried
and then cancelled. Without the history variables `raced`, `lost`, `tainted`,
`overlapped`, `overlap`, `clean` and `late`, the properties that mention them fail
in the way the comment at the variable says.

### Observations without a property

What reading the code for the models brought up and no property states:

* billing: the undo of an undo is an "unknown undo kind" (`undo.go:16-18`); a
  refund takes the days of the profile of now; commission is not taken back; a
  request that was approved and not executed before a crash stays so; a ticket
  whose request died between trial and link looks as if it had no trial
  (`tickets.go:239`); `renew.go:113-114` drops the view before the quota key;
* enforcement: nobody but a test publishes `enforce.quota_exceeded`; the claim of a
  cycle comes before the work (`enforce.go:126`) and is per subscriber, so one of
  several sessions is told; the sweep's memory is gone with the process
  (`limitsworker.go:29`); the CoA and the reply differ for a static address on a
  plan that is switched; hotspot usage is not in the quota sums
  (`policy.go:285-289`); `coa_retry_max` may change while rows are under way
  (`coa.go:146`);
* subscribers and plans: two first logins with different MACs are both accepted;
  guests do not count towards the licence; an agent's bulk deletion is executed
  at once (`bulk.go:145-148`); an edit of a switch target leaves the views that
  embed it (`authview.go:373-381`);
* office: a crash leaves an import "executing"; an
  administrator role whose permissions are emptied falls back to the wildcard; the command-line reset revokes no
  session; an attempt of a pass that timed out is not counted; the batch size and
  the tick interval of the settings are not read (`notify/dispatcher.go:5-8`); the
  cooldown of an alert is claimed before quiet hours silence it
  (`alerts.go:120-128`);
* machines: a request that lost the lock overwrites the record of the run that
  holds it (`run.go:289-298`); a firewall snapshot is inserted behind the write
  (`firewall_store.go:28-31` says before); a pool of somebody else is overwritten;
* accounting: a kill between the duplicate counter's UPDATE and the
  acknowledgement counts a duplicate twice (`counters.go:212`).

### Bounds

Every bound is a constant with "bound" in its comment or its name. They are chosen
so that the interesting collisions happen.

* Accounting: two records, each sent twice, and two handlers meet on one stream;
  two faults are enough for a fault during the recovery from another, and the
  liveness run has three; batches are full and short; a word of 4 or 8 lets
  counters wrap several times in a session; time in `session` runs further behind
  the last record than the reap timeout.
* `coa`: two rows and budgets of 2 give retry, fallback and failure of one row
  beside the life of another.
* `billing`: two redeemers on one code, two undo requests and a parked one on four
  ledger rows; two clerks over two months; two portals, two reviewers, two tickets
  and two deaths; two cards in two groups, two logins and three administrative
  steps.
* `network`: one session under three profiles that between them configure every
  limit and every action; two logins of two versions of the account, one missed
  invalidation; three names under a licence for two, so that two writers can break
  it; two plans, two members, an editor and a bulk job; one address looked up by
  two requests with two edits and a failed read. One secret is enough: a rotated
  secret is a matter of the clients file only.
* `operations`: two managers with two sessions and one administrative request at a
  time beside a login and a refresh; a file whose two rows have the same name, the
  case in which a duplicate could be made, and two runners; one message, two
  dispatchers, two attempts; a down threshold of 2 with three samples and two feed
  entries, which is one outage and its end.
* `devices`: an update from the panel and one from a shell, a status request, one
  restart anywhere; two operators with two requests of every kind on two routers,
  a change by hand, a failed write; a firewall edit names one field or both.

Two processes at a time are enough for the races here: every one is between a
check and a use. The counterexample runs use the smallest instance in which the
behaviour exists. Deadlock checking is off because NASes, operators and subscribers
may stop, and the bounds end every behaviour.

### Fairness

* `AcctPipeline`: weak fairness of the drainer and the consumer, goroutines that
  loop until shutdown and retry on error, and of the end of an outage. Handlers
  and NASes owe nothing.
* `AcctSession`: weak fairness of the clock, of each step of the reaper (a
  ticker), of applying a received record and of redelivering an unacknowledged
  one. `Send` is not fair: a NAS may fall silent anywhere, which is the point of
  `SilentCloses`.
* `CoaOutbox`: weak fairness of the tick's passes, of time, and of each
  goroutine; a send returns within its timeout, with either answer, so only the
  disjunction of `SendAck` and `SendNak` is fair and the NAS may refuse for ever.
* `Enforcement` (`EnfFairness`): weak fairness of the sweeps, which run on tickers
  for the life of the process, of the clock, and of each statement of a handler.
  `ExpiredEnforced` fails under it without any fault.

Faults are finite in number, otherwise a process killed for ever would refute
every liveness property. No run with a liveness property uses symmetry.

## 4. Proofs

Every safety property the passing runs check is also a theorem, so it holds for
every value of the constants that satisfies the named assumptions. These
say that bounds are naturals, budgets and limits are above zero and enumerated
parameters have one of their values, and also:

* the sets a sum or a count ranges over (names, codes, invoices, expenses, alert
  rules) are finite;
* a word of a counter has more than one value, and a session turns stale no later
  than it is reaped;
* a reload of the NAS registry takes no longer than its snapshot lives, and a pass
  of the notification dispatcher no longer than the interval after which its rows
  are taken back;
* runs from the panel and from a shell are different things, as are routers and
  monitored devices, and the source of the polled conditions is none of those two.

A theorem about a module is about that module's own specification; `ExactCorrect`,
`GhostCorrect` and `DecidedCorrect` are about the instance that adds the history
variables their property reads, which restrict no step.

### Accounting (`AcctPipelineProofs`, `AcctSessionProofs`)

* `TypeCorrect`: type correctness. `pel` and `batch` being subsets of `entries`,
  and `entries` of the ids of `log`, make it more than a typing: no step keeps hold
  of a deleted entry.
* `NeverLost`: `AckedDurable`, provided partial lines do not occur
  (`"torn" \notin Faults`). It is not inductive. `DurableInv` adds: the file has no
  partial line; a handler about to answer carries a record that is durable; every
  line in front of the drainer's position has reached the stream or the database,
  without which the truncation could not be justified; and the entry being
  acknowledged is stored. The hypothesis cannot be dropped, as the first row of the
  tables above shows.
* `Refinement`: under the same hypothesis the pipeline implements `AcctContract`.
  `DurableInv` holds in both states of a step, and each action maps to one step of
  the abstract store or to a stutter.
* `NoStranding`: `NoneStranded`, with `InHand` (the consumer has a batch exactly
  while it works on one). The lemma that carries it is about the read: a batch
  shorter than `ReadCount` leaves nothing behind it.
* `PersistedCorrect`, `TotalsCorrect`, `ConservedCorrect`: the counter laws. The
  conservation law needs its in-flight terms (requests counted and not durable,
  lines pushed and still in the file, an entry committed and not acknowledged), and
  that a push fails behind one that succeeded only if Redis goes down again.
* `DeltaCorrect`: `advance` against the true count, for any word size and any
  number of reports. With gigawords baseline and usage are the count itself;
  without, the baseline agrees with it modulo the word.
* `SessionTypeCorrect` and `CoversCorrect`: `UsageCovers` for any number of records,
  any word size, any order, with the reaper and all faults. The strengthening is
  that usage also covers the stored baseline: a delta is the difference to the
  baseline or the whole counter, so usage covers the new total in both cases.
* `ExactCorrect` and `GhostCorrect`: undisturbed, the row mirrors the newest record
  applied (`BilledInv`), receipt times never decrease (`TimesInv`), and the live
  entry lags by at most the record still to be acknowledged (`LiveInv`).

### CoA outbox (`CoaOutboxProofs`)

* `BudgetCorrect` and `DoneStays`: the invariant ties goroutines and decisions to
  rows: a row with a goroutine is sent and has budget left, a row with a decision
  to retry has budget left, and a decision is only ever held for a row that is not
  done. The last part is what makes an UPDATE by id harmless to a done row although
  it is harmful to a retried one.
* `FallbackCorrect` and `CancelCorrect`: `RowsInv`, row by row. Before any
  operator's request a decision waits only on a row still in nack, and every
  attempt of an update is one the NAS refused; the cancelled row was found without a
  decision waiting.
* `DoneCorrect`: while Redis has not failed, no lookup took a live session for a
  finished one.

### Billing (`PaymentTicketsProofs`, `BillingProofs`, `Sums`)

* `ChargedOnceCorrect`: `KeyIsCharge` says that the approval key of a ticket is
  reserved exactly when it has been charged, and that a request which is to decide,
  or an approved ticket, has its key.
* `DecidedCorrect`: `ChargeDecided` adds that what is charged and undecided is about
  to be decided by a request that lives.
* `ReversedCorrect`: `LedInv` adds that what is marked undone was given back, which
  the guard of an undo reads instead of the ledger.
* `DaysCorrect`: `DaysInv` adds that the log, the undo requests and the parked
  requests are about rows that exist, and that a reversing row reverses an earlier
  one (`RevOK`). The lemma `StandsAppend` says what one row more does to the days of
  the sales that stand.
* `VoucherCorrect`: the sum over voucher rows equals the price of the codes that are
  used or can be used; `CodesPrinted` says that a code a request waits for exists.
* `CardsCorrect`: a login under way knows a first use at most one login's life later
  than the card's.
* `BooksCorrect`: `BooksInv`. No document is paid beyond its total; the journal is
  balanced and ties to the open documents (`Ties`); a depreciation run that may
  still write this month's row has read all that has been written off (`Wear`).
  Every posting is a balanced pair of lines, and `PairSum` says what such a pair
  does to a balance.

The sums over ledger, codes and journal are the community modules'
`SumFunctionOnSet`. The library's induction theorems take a predicate as a
parameter, which the provers cannot instantiate; `Sums` states induction for a set
instead (`UpTo`: a set with 0 and all successors has every natural number), takes it
from `WFMin`, and derives what adding, removing or changing one element does to a
sum.

### Network (`NetworkProofs`)

* `FlagCorrect`, `RestoreCorrect`, `VerdictCorrect` about the enforcement workers;
  the last one compares the two ways `Limits` is used.
* `HealsCorrect`: `HealInv` bounds the age of the news a view misses, wherever it
  is: in a request, in the cache (age and remaining life together never exceed a
  view's life and a request's), in a decision. `CoherentCorrect` is inductive once
  typed.
* `PlanViewsCorrect`: with `NoPlanNoView`, a member without a plan has no view.
* `RegistryCorrect`: a snapshot is wrong about an address only if the address
  changed within the snapshot's age and one reload, while an answer can come from it
  at all (`SnapshotOK`); what a reload has read is as old as the reload (`FindOK`).
* `SerialCorrect`: `CustInv`. As long as nothing overlaps, one request stands
  between check and write (`OnePending`), the cap holds for the accounts counted and
  those a check has promised a place together (`CapOK`), the address a write will set
  is free (`AddressOK`), and a row about to be deleted has no money (`MoneyOK`).

### Operations (`OperationsProofs`)

* `ImportCorrect`: without an overlap one goroutine is alive, and a name it looked
  up is still to be made.
* `RevocationCorrect`: `AccInv` follows a right from the row through the request
  that reads it (`Carries`: true no longer ago than the request is under way) into
  the token (`Attests`: no longer ago than the token's age and one request).
* `RevertCorrect`: `RtrInv` says, for an edit nobody interfered with, that the rule
  on the router is the one before the edit, the edited one or the restored one
  according to where edit and snapshot stand.
* `StreamCorrect`: `UpdInv`. For a run that no restart cut, what the relay holds is a
  part of the daemon's record from its start, all of it once either end is closed,
  and no verdict comes before the last entry.
* `OneSenderCorrect`: `NoteInv` adds that the row a pass is about to write is one it
  still has to do, and that a row has been in sending for no longer than the pass
  that claimed it has lasted. A pass in time is younger than `PassTimeout`, so its
  rows are younger than `StuckAfter` and no other pass takes them back.
* `FeedCorrect`: `MonInv` says target by target that the engine's memory, the samples
  and the feed since the memory began agree (`Agree`). The memory is the state the
  downtime fold ends in; its misses are the failures at the end of the ICMP samples,
  as many as there are up to the threshold, and the target is down exactly at the
  threshold (`Streak`), which is what the status page counts; the log ends with
  "firing" exactly while the target is down (`Alternates`), so two edges in a row
  differ and squashing repeats loses none; and what was told is the log, or all of it
  but the edge about to be fired (`Announced`). Beside it, `EngineOrder`: who is not
  probed has no memory, so a reload that takes a target up again begins a life. An
  edge leaves one row or more whatever rules, cooldowns and quiet hours do
  (`RowsCounted`), and the polled conditions write under a source of their own.
  The three folds are `FoldLeft` of the community modules; `FoldExists` (by `UpTo`),
  `FoldEmpty` and `FoldAppend` say what they are on the empty sequence and after one
  element more, which is all the steps need.

### Only model-checked

* Liveness under fairness, which the prover does not do: `EventuallyStored`,
  `WalDrains`, `SilentCloses`, `Settles`.
* The statements of the violation runs, which are false, and those of the tables of
  section 3 that have a counterexample.

## 5. Not modelled

* The live sessions view, dashboards, reports and the portal read rows that other
  parts write and have no state of their own; the jobs of a device (status,
  backup, reboot) are I/O with one row each; push, Telegram and support deliver to
  third parties; seed, migrations, configuration, routing and the frontend have no
  protocol a state machine would clarify.
* Inside modelled parts: parsing and validation of forms and files, encoding of
  RADIUS attributes and RouterOS sentences, templates and channel drivers, listings
  and exports, numbering of documents, the per-address limiter, backup codes. The
  notes of the components in `PROJECT.json` say so part by part.
* The parts are composed where they exchange more than a row: the counters run on
  the pipeline's own actions, workers and logins share `Limits`. The CoA a worker
  enqueues is delivered in `CoaOutbox`, which takes any row at any time, and so
  stands for every producer.

## 6. Plan

The modules of the plan are written and their safety properties proved. Left is
`Enforcement` with `CoaOutbox` in one module, for "an exhausted limit is
eventually enforced at the NAS" once the expiry message can be read.
