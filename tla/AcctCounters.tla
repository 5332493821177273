---------------------------- MODULE AcctCounters ----------------------------
(***************************************************************************)
(* The FR-40 audit counters of hikrad-acct (counters.go, queue.go,         *)
(* server.go), as the pipeline of AcctPipeline bumps them.                 *)
(*                                                                         *)
(* The hot counters are atomics of the process.  received has two mirrors: *)
(* a Redis key incremented per packet and a Postgres column overwritten by *)
(* a flush every second; persisted and deduplicated have a Postgres column *)
(* that is incremented per event.  A restart reloads them.  enqueued,      *)
(* spilled, drained, reaped and orphan_stops take no part in the invariant *)
(* and are left out.                                                       *)
(***************************************************************************)
EXTENDS AcctPipeline, Integers

VARIABLES
    received, persisted, deduplicated,       \* the atomics
    rdReceived,                              \* acct:counters:received
    pgReceived, pgPersisted, pgDeduplicated  \* row of pipeline_counters

memVars == <<received, persisted, deduplicated>>
mirrors == <<rdReceived, pgReceived, pgPersisted, pgDeduplicated>>
cntVars == <<memVars, mirrors>>
allVars == <<vars, cntVars>>

CountersInit ==
    /\ Init
    /\ received = 0 /\ persisted = 0 /\ deduplicated = 0
    /\ rdReceived = 0
    /\ pgReceived = 0 /\ pgPersisted = 0 /\ pgDeduplicated = 0

-----------------------------------------------------------------------------
\* received.Add(1), and the INCR that goes with it while Redis answers.
CountReceive(h, r) ==
    /\ Receive(h, r)
    /\ received' = received + 1
    /\ rdReceived' = rdReceived + (IF redis = "up" THEN 1 ELSE 0)
    /\ UNCHANGED <<persisted, deduplicated, pgReceived, pgPersisted, pgDeduplicated>>

\* Mutant: the column is only written by the flush, as before
\* bumpPersistedInTx existed.
CountProcessNoMirror(k) ==
    /\ Process(k)
    /\ IF dedup' # dedup
       THEN persisted' = persisted + 1 /\ UNCHANGED <<deduplicated, pgPersisted, pgDeduplicated>>
       ELSE /\ deduplicated' = deduplicated + 1
            /\ pgDeduplicated' = pgDeduplicated + 1
            /\ UNCHANGED <<persisted, pgPersisted>>
    /\ UNCHANGED <<received, rdReceived, pgReceived>>

\* Mutant: a duplicate is acknowledged without being counted.
CountProcessSilent(k) ==
    /\ Process(k)
    /\ IF dedup' # dedup
       THEN persisted' = persisted + 1 /\ pgPersisted' = pgPersisted + 1
       ELSE UNCHANGED <<persisted, pgPersisted>>
    /\ UNCHANGED <<received, deduplicated, rdReceived, pgReceived, pgDeduplicated>>

\* A new record bumps persisted inside its transaction; a duplicate bumps
\* deduplicated in memory and, in a statement of its own, in the row.
CountProcess(k) ==
    /\ Process(k)
    /\ IF dedup' # dedup
       THEN /\ persisted' = persisted + 1
            /\ pgPersisted' = pgPersisted + 1
            /\ UNCHANGED <<deduplicated, pgDeduplicated>>
       ELSE /\ deduplicated' = deduplicated + 1
            /\ pgDeduplicated' = pgDeduplicated + 1
            /\ UNCHANGED <<persisted, pgPersisted>>
    /\ UNCHANGED <<received, rdReceived, pgReceived>>

\* A commit whose answer is lost has bumped the row, not the atomic.
CountProcessFails ==
    /\ ProcessFails
    /\ pgPersisted' = pgPersisted + (IF dedup' # dedup THEN 1 ELSE 0)
    /\ UNCHANGED <<memVars, rdReceived, pgReceived, pgDeduplicated>>

\* counters.flush: received is overwritten, the per-event columns are not.
Flush ==
    /\ db = "up"
    /\ pgReceived' = received
    /\ UNCHANGED <<vars, memVars, rdReceived, pgPersisted, pgDeduplicated>>

Larger(a, b) == IF a > b THEN a ELSE b

\* Mutant: load without the Redis mirror.
LoadPostgresOnly ==
    /\ received' = pgReceived /\ persisted' = pgPersisted /\ deduplicated' = pgDeduplicated

\* counters.load at boot; with Postgres unreachable for the whole retry
\* window the counters start from zero.
Load ==
    IF db = "up"
    THEN /\ received' = Larger(pgReceived, IF redis = "up" THEN rdReceived ELSE 0)
         /\ persisted' = pgPersisted
         /\ deduplicated' = pgDeduplicated
    ELSE received' = 0 /\ persisted' = 0 /\ deduplicated' = 0

CountCrash == Crash /\ Load /\ UNCHANGED mirrors

\* The steps of the pipeline that bump none of these counters.
Uncounted ==
    /\ \/ \E h \in Handler : \/ EnqueueStream(h) \/ EnqueueFails(h) \/ EnqueueAmbiguous(h)
                             \/ SpillAppend(h) \/ SpillFails(h) \/ Reply(h)
       \/ Drainer
       \/ EnsureGroup \/ ReadOwn \/ ReadNew \/ ReadReplyLost \/ AckDelete
       \/ RedisDown \/ RedisBack \/ DbDown \/ DbBack
    /\ UNCHANGED cntVars

CountersNext ==
    \/ \E h \in Handler, r \in Rec : CountReceive(h, r)
    \/ \E k \in NasId : CountProcess(k)
    \/ CountProcessFails \/ Flush \/ CountCrash \/ Uncounted

CountersSpec == CountersInit /\ [][CountersNext]_allVars

-----------------------------------------------------------------------------
\* inQueue: XLEN plus spill.pending().
InQueue == Cardinality(entries) + pendN

\* snapshot: InvariantOK.
InvariantOK == received - deduplicated - InQueue = persisted

\* FR-40 in motion: the law is off by exactly the packets counted and not
\* yet durable, the lines a drain has requeued and not yet truncated, and
\* the entry committed and not yet deleted.  Through one outage of a store it
\* stays exact; a kill, an ambiguous answer or a second outage in the drain
\* that follows the first one counts a packet twice or not at all.
Conserved ==
    Happened(FaultKinds \ {"redis", "db"}) \/ Len(faults) > 1 \/
    received = persisted + deduplicated + InQueue
               + Cardinality({h \in Handler : hpc[h] \in {"xadd", "spill"}})
               - (IF dpc = "push" THEN di - 1 ELSE 0)
               - (IF cpc = "ack" THEN 1 ELSE 0)

\* The persisted column never drifts from the rows it counts, and the atomic
\* never runs ahead of it, whatever is killed or fails in between
\* (bumpPersistedInTx).
PersistedExact == pgPersisted = Cardinality(dedup) /\ persisted <= pgPersisted

\* The totals survive a kill of hikrad-acct (counters.go: "the monotonic
\* totals survive a restart") as long as both stores have always answered.
TotalsSurvive ==
    [][~Happened({"redis", "db"}) => /\ received' >= received
                                     /\ persisted' >= persisted
                                     /\ deduplicated' >= deduplicated]_allVars

\* No request is between its count and its durable copy, no drain has
\* requeued lines it has not truncated, no entry is committed and not yet
\* deleted: what the counters endpoint sees when nothing is moving.
AtRest ==
    /\ \A h \in Handler : hpc[h] \in {"idle", "reply"}
    /\ dpc # "push"
    /\ cpc # "ack"

\* FR-40 as counters.go states it: at rest, every packet received is
\* persisted, dropped as a duplicate or still queued.
ConservedAtRest == AtRest => InvariantOK

=============================================================================
