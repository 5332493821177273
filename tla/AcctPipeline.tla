---------------------------- MODULE AcctPipeline ----------------------------
(***************************************************************************)
(* The lossless accounting pipeline of hikrad-acct                         *)
(* (backend/internal/accounting: ingest.go, queue.go, spill.go, server.go, *)
(* consumer.go, resolve.go).                                               *)
(*                                                                         *)
(* FreeRADIUS posts every Accounting-Request to the ingest handler, which  *)
(* answers 204 only once the record is on the Redis stream or, when the    *)
(* XADD fails, in an fsync'd disk WAL.  A drainer replays the WAL into the *)
(* stream and one consumer of a consumer group moves stream entries into   *)
(* Postgres, where a unique dedup key makes the insert idempotent, and     *)
(* XACKs + XDELs an entry only after the commit.                           *)
(*                                                                         *)
(* A member of Rec is one accounting event: two packets carry the same     *)
(* member exactly when they agree on the fields of the dedup key, i.e.     *)
(* when one is a retransmission of the other.  The session rows a record   *)
(* changes are modelled in AcctSession, the FR-40 counters in AcctCounters.*)
(*                                                                         *)
(* Redis runs with appendfsync=always (docs/evidence/                      *)
(* redis-durability-decision.md): an outage makes its commands fail and    *)
(* loses no data.                                                          *)
(***************************************************************************)
EXTENDS Naturals, Sequences, FiniteSets

CONSTANTS
    Rec,        \* the accounting records of NASes
    Handler,    \* goroutines of net/http that serve POST /acct
    Corrupt,    \* what decodeSpillLine makes of a line whose CRC fails
    ReadCount,  \* readCount: COUNT of XREADGROUP
    Faults,     \* the kinds of fault the environment may inject
    MaxSends,   \* bound: transmissions of one record
    MaxFaults   \* bound: faults injected in a behaviour

FaultKinds ==
    { "redis",   \* Redis stops answering for a while
      "db",      \* Postgres stops answering for a while
      "crash",   \* hikrad-acct is killed and restarted by its container
      "xadd",    \* an XADD takes effect but the client sees an error
      "disk",    \* an operation on the WAL fails, with or without its effect
      "torn",    \* an interrupted WAL append leaves part of a line
      "read",    \* an XREADGROUP takes effect but its reply is lost
      "commit",  \* a COMMIT takes effect but the client sees an error
      "lookup" } \* the nas lookup fails while the transaction succeeds

ASSUME PipelineAssumption ==
    /\ Corrupt \notin Rec
    /\ ReadCount \in Nat \ {0}
    /\ Faults \subseteq FaultKinds
    /\ MaxSends \in Nat
    /\ MaxFaults \in Nat

VARIABLES
    sends,     \* packets sent so far, per record (bounds retransmission)
    acked,     \* records for which a 204 has been written
    hpc, hrec, \* per handler: where it stands, and the record it carries
    wal,       \* lines of acct-spill.wal, in file order
    tail,      \* "torn": the file ends in a partial line, no newline
    pendN,     \* spillFile.pendN
    dpc, di,   \* the drainer: where it stands, the next line it pushes
    log,       \* every payload ever XADDed; a stream id is an index of it
    entries,   \* ids not yet XDELed
    pel,       \* ids in this consumer's pending-entries list
    lastId,    \* the group's last-delivered id
    cpc,       \* runConsumer: "group", "read", "process" or "ack"
    backlog,   \* the id it reads from: "own" is "0", "new" is ">"
    batch,     \* ids of the batch in hand not yet finished
    size,      \* "short": that batch had fewer than readCount entries
    cur,       \* the id being acknowledged
    dedup,     \* rows of acct_dedup, as <<nas id, record>>
    redis, db, \* "up" or "down"
    faults     \* the kinds of the faults injected so far, in order

netVars  == <<sends, acked>>
hVars    == <<hpc, hrec>>
walVars  == <<wal, tail, pendN>>
dVars    == <<dpc, di>>
redVars  == <<log, entries, pel, lastId>>
conVars  == <<cpc, backlog, batch, size, cur>>
envVars  == <<redis, db>>
vars     == <<netVars, hVars, walVars, dVars, redVars, conVars, dedup,
              envVars, faults>>

\* nas.ID: the registered NAS, or the zeroUUID sentinel of a failed lookup.
NasId == {"nas", "zeroUUID"}

-----------------------------------------------------------------------------
\* One fault of kind k is spent.
Fault(k) == k \in Faults /\ Len(faults) < MaxFaults /\ faults' = Append(faults, k)

Happened(K) == \E i \in DOMAIN faults : faults[i] \in K

Line(r) == IF tail = "torn" THEN Corrupt ELSE r
\* WriteString at the end of the file: a line written behind a partial one
\* shares its line, and the CRC of the two together fails.
WriteLine(r) == wal' = Append(wal, Line(r)) /\ tail' = "clean"

\* enqueueStream
XAdd(r) == log' = Append(log, r) /\ entries' = entries \cup {Len(log) + 1}

Init ==
    /\ sends = [r \in Rec |-> 0]
    /\ acked = {}
    /\ hpc = [h \in Handler |-> "idle"]
    /\ hrec = [h \in Handler |-> Corrupt]
    /\ wal = <<>> /\ tail = "clean" /\ pendN = 0
    /\ dpc = "boot" /\ di = 1
    /\ log = <<>> /\ entries = {} /\ pel = {} /\ lastId = 0
    /\ cpc = "group" /\ backlog = "own" /\ batch = {} /\ size = "full" /\ cur = 0
    /\ dedup = {}
    /\ redis = "up" /\ db = "up"
    /\ faults = <<>>

-----------------------------------------------------------------------------
(* Ingest: one goroutine per request.                                      *)

Goto(h, l) == hpc' = [hpc EXCEPT ![h] = l]
\* The request ends; its record is dropped from the handler.
Finish(h) == Goto(h, "idle") /\ hrec' = [hrec EXCEPT ![h] = Corrupt]

\* A packet (first transmission, retransmission or a copy made by the
\* network) reaches ingestHandler and parses.
Receive(h, r) ==
    /\ hpc[h] = "idle"
    /\ sends[r] < MaxSends
    /\ sends' = [sends EXCEPT ![r] = @ + 1]
    /\ Goto(h, "xadd")
    /\ hrec' = [hrec EXCEPT ![h] = r]
    /\ UNCHANGED <<acked, walVars, dVars, redVars, conVars, dedup, envVars, faults>>

\* durablyEnqueue: the stream append succeeds.
EnqueueStream(h) ==
    /\ hpc[h] = "xadd" /\ redis = "up"
    /\ XAdd(hrec[h])
    /\ Goto(h, "reply")
    /\ UNCHANGED <<netVars, hrec, walVars, dVars, pel, lastId, conVars, dedup,
                   envVars, faults>>

\* durablyEnqueue: the append fails, the handler falls back to the spill.
EnqueueFails(h) ==
    /\ hpc[h] = "xadd" /\ redis = "down"
    /\ Goto(h, "spill")
    /\ UNCHANGED <<netVars, hrec, walVars, dVars, redVars, conVars, dedup,
                   envVars, faults>>

\* The 3 s context ends after Redis executed the XADD.
EnqueueAmbiguous(h) ==
    /\ hpc[h] = "xadd" /\ redis = "up"
    /\ Fault("xadd")
    /\ XAdd(hrec[h])
    /\ Goto(h, "spill")
    /\ UNCHANGED <<netVars, hrec, walVars, dVars, pel, lastId, conVars, dedup,
                   envVars>>

\* spill.mu: an append and a whole drain exclude each other.
WalFree == dpc # "push"

\* spill.append: write, fsync, count.
SpillAppend(h) ==
    /\ hpc[h] = "spill" /\ WalFree
    /\ WriteLine(hrec[h])
    /\ pendN' = pendN + 1
    /\ Goto(h, "reply")
    /\ UNCHANGED <<netVars, hrec, dVars, redVars, conVars, dedup, envVars, faults>>

\* spill.append returns an error: nothing was written, the whole line was
\* written and the Sync failed, or the write stopped half way.  The handler
\* answers 503 and acknowledges nothing.
SpillFails(h) ==
    /\ hpc[h] = "spill" /\ WalFree
    /\ \/ Fault("disk") /\ UNCHANGED <<wal, tail>>
       \/ Fault("disk") /\ WriteLine(hrec[h])
       \/ Fault("torn") /\ tail' = "torn" /\ UNCHANGED wal
    /\ Finish(h)
    /\ UNCHANGED <<netVars, pendN, dVars, redVars, conVars, dedup, envVars>>

\* w.WriteHeader(204).  The reply may get lost: the record is then sent
\* again, which Receive allows whether or not the record is acked.
Reply(h) ==
    /\ hpc[h] = "reply"
    /\ acked' = acked \cup {hrec[h]}
    /\ Finish(h)
    /\ UNCHANGED <<sends, walVars, dVars, redVars, conVars, dedup, envVars, faults>>

-----------------------------------------------------------------------------
(* The spill drainer: a drain at boot, then one per tick while pendN > 0.  *)

StartDrain ==
    /\ dpc = "boot" \/ (dpc = "tick" /\ pendN > 0)
    /\ dpc' = "push" /\ di' = 1
    /\ UNCHANGED <<netVars, hVars, walVars, redVars, conVars, dedup, envVars, faults>>

\* The WAL cannot be read: the drain ends before it began.
DrainFails ==
    /\ dpc = "boot" \/ (dpc = "tick" /\ pendN > 0)
    /\ Fault("disk")
    /\ dpc' = "tick"
    /\ UNCHANGED <<netVars, hVars, walVars, di, redVars, conVars, dedup, envVars>>

\* Mutant: a corrupt line ends the drain.
SkipLineStops ==
    /\ dpc = "push" /\ di <= Len(wal) /\ wal[di] = Corrupt
    /\ dpc' = "tick" /\ di' = 1
    /\ UNCHANGED <<netVars, hVars, walVars, redVars, conVars, dedup, envVars, faults>>

\* A line that does not decode is skipped.
SkipLine ==
    /\ dpc = "push" /\ di <= Len(wal) /\ wal[di] = Corrupt
    /\ di' = di + 1
    /\ UNCHANGED <<netVars, hVars, walVars, dpc, redVars, conVars, dedup, envVars,
                   faults>>

PushLine ==
    /\ dpc = "push" /\ di <= Len(wal) /\ wal[di] # Corrupt /\ redis = "up"
    /\ XAdd(wal[di])
    /\ di' = di + 1
    /\ UNCHANGED <<netVars, hVars, walVars, dpc, pel, lastId, conVars, dedup,
                   envVars, faults>>

\* Mutant: an interrupted drain truncates as well.
PushFailsTruncates ==
    /\ dpc = "push" /\ di <= Len(wal) /\ wal[di] # Corrupt /\ redis = "down"
    /\ wal' = <<>> /\ tail' = "clean" /\ pendN' = 0
    /\ dpc' = "tick" /\ di' = 1
    /\ UNCHANGED <<netVars, hVars, redVars, conVars, dedup, envVars, faults>>

\* A push error ends the drain and leaves the WAL as it is: the next drain
\* starts from the top again.
PushFails ==
    /\ dpc = "push" /\ di <= Len(wal) /\ wal[di] # Corrupt
    /\ \/ redis = "down" /\ UNCHANGED <<log, entries, faults>>
       \/ redis = "up" /\ Fault("xadd") /\ XAdd(wal[di])
    /\ dpc' = "tick" /\ di' = 1
    /\ UNCHANGED <<netVars, hVars, walVars, pel, lastId, conVars, dedup, envVars>>

\* Every intact line is queued: truncate, then pendN.Store(0).
TruncateWal ==
    /\ dpc = "push" /\ di > Len(wal)
    /\ wal' = <<>> /\ tail' = "clean" /\ pendN' = 0
    /\ dpc' = "tick" /\ di' = 1
    /\ UNCHANGED <<netVars, hVars, redVars, conVars, dedup, envVars, faults>>

\* truncate returns an error, from the Truncate or from the Sync behind it.
TruncateFails ==
    /\ dpc = "push" /\ di > Len(wal)
    /\ Fault("disk")
    /\ \/ UNCHANGED <<wal, tail>>
       \/ wal' = <<>> /\ tail' = "clean"
    /\ dpc' = "tick" /\ di' = 1
    /\ UNCHANGED <<netVars, hVars, pendN, redVars, conVars, dedup, envVars>>

-----------------------------------------------------------------------------
(* runConsumer                                                             *)

\* The oldest readCount ids of S, as XREADGROUP returns them.
FirstOf(S) == {i \in S : Cardinality({j \in S : j < i}) < ReadCount}
Fresh == {i \in entries : i > lastId}
IsNewest(i, S) == i \in S /\ \A j \in S : j <= i
IsOldest(i, S) == i \in S /\ \A j \in S : i <= j

EnsureGroup ==
    /\ cpc = "group" /\ redis = "up"
    /\ cpc' = "read"
    /\ UNCHANGED <<netVars, hVars, walVars, dVars, redVars, backlog, batch, size,
                   cur, dedup, envVars, faults>>

TakeBatch(b) ==
    /\ batch' = b
    /\ size' = IF Cardinality(b) < ReadCount THEN "short" ELSE "full"
    /\ cpc' = "process"

\* XREADGROUP "0": this consumer's own unacked entries; none left means the
\* consumer goes on to new ones.
ReadOwn ==
    /\ cpc = "read" /\ backlog = "own" /\ redis = "up"
    /\ IF pel = {} THEN backlog' = "new" /\ UNCHANGED <<cpc, batch, size>>
                   ELSE TakeBatch(FirstOf(pel)) /\ UNCHANGED backlog
    /\ UNCHANGED <<netVars, hVars, walVars, dVars, redVars, cur, dedup, envVars,
                   faults>>

\* What an XREADGROUP ">" changes on the server: the entries delivered join
\* the pending-entries list and are never delivered by ">" again.
Deliver(b) ==
    /\ pel' = pel \cup b
    /\ \E i \in b : IsNewest(i, b) /\ lastId' = i

ReadNew ==
    /\ cpc = "read" /\ backlog = "new" /\ redis = "up"
    /\ Fresh # {}
    /\ Deliver(FirstOf(Fresh))
    /\ TakeBatch(FirstOf(Fresh))
    /\ UNCHANGED <<netVars, hVars, walVars, dVars, log, entries, backlog, cur, dedup,
                   envVars, faults>>

\* The server delivers, the connection dies before the reply arrives.  The
\* read-failed branch keeps backlog as it is.
ReadReplyLost ==
    /\ cpc = "read" /\ backlog = "new" /\ redis = "up"
    /\ Fresh # {}
    /\ Fault("read")
    /\ Deliver(FirstOf(Fresh))
    /\ UNCHANGED <<netVars, hVars, walVars, dVars, log, entries, conVars, dedup,
                   envVars>>

\* nasResolver.byIP: a failed lookup answers zeroUUID and is not cached.
Lookup(k) == IF k = "nas" THEN UNCHANGED faults ELSE Fault("lookup")

\* Mutant: the read id is left alone after a failure.
RetryNew == cpc' = "read" /\ batch' = {} /\ UNCHANGED <<backlog, size, cur>>

\* A process failure reads the own backlog next and forgets the batch.
Retry == backlog' = "own" /\ cpc' = "read" /\ batch' = {} /\ UNCHANGED <<size, cur>>

\* processMessage commits: the dedup row, the session and usage rows and the
\* persisted counter are one transaction.  A conflict on the dedup key is
\* terminal as well: the transaction rolls back and the entry is acked.
Process(k) ==
    \E m \in batch :
        /\ cpc = "process" /\ db = "up"
        /\ IsOldest(m, batch)
        /\ Lookup(k)
        /\ dedup' = dedup \cup {<<k, log[m]>>}
        /\ cur' = m
        /\ cpc' = "ack"
        /\ UNCHANGED <<netVars, hVars, walVars, dVars, redVars, backlog, batch, size,
                       envVars>>

\* Mutant: a failed message is acknowledged.
ProcessFailsAcks ==
    /\ cpc = "process" /\ db = "down"
    /\ \E m \in batch : IsOldest(m, batch) /\ cur' = m
    /\ cpc' = "ack"
    /\ UNCHANGED <<netVars, hVars, walVars, dVars, redVars, backlog, batch, size, dedup,
                   envVars, faults>>

\* processMessage returns an error: the database is down, or the commit took
\* effect and only its answer was lost.
ProcessFails ==
    /\ cpc = "process"
    /\ \/ db = "down" /\ UNCHANGED <<dedup, faults>>
       \/ /\ db = "up" /\ Fault("commit")
          /\ \E m \in batch : IsOldest(m, batch) /\ <<"nas", log[m]>> \notin dedup
                              /\ dedup' = dedup \cup {<<"nas", log[m]>>}
    /\ Retry
    /\ UNCHANGED <<netVars, hVars, walVars, dVars, redVars, envVars>>

\* Mutant: the entry is deleted and never acked.
DeleteOnly ==
    /\ cpc = "ack" /\ redis = "up"
    /\ entries' = entries \ {cur}
    /\ batch' = batch \ {cur}
    /\ cpc' = IF batch' # {} THEN "process" ELSE "read"
    /\ UNCHANGED <<netVars, hVars, walVars, dVars, log, pel, lastId, backlog, size, cur,
                   dedup, envVars, faults>>

\* ackDelete: XACK and XDEL, retried until Redis takes them.
AckDelete ==
    /\ cpc = "ack" /\ redis = "up"
    /\ pel' = pel \ {cur}
    /\ entries' = entries \ {cur}
    /\ batch' = batch \ {cur}
    /\ IF batch' # {} THEN cpc' = "process" /\ UNCHANGED backlog
       ELSE /\ cpc' = "read"
            /\ backlog' = IF backlog = "own" /\ size = "short" THEN "new" ELSE backlog
    /\ UNCHANGED <<netVars, hVars, walVars, dVars, log, lastId, size, cur, dedup,
                   envVars, faults>>

-----------------------------------------------------------------------------
(* Environment                                                             *)

RedisDown == redis = "up" /\ Fault("redis") /\ redis' = "down"
             /\ UNCHANGED <<netVars, hVars, walVars, dVars, redVars, conVars, dedup, db>>
RedisBack == redis = "down" /\ redis' = "up"
             /\ UNCHANGED <<netVars, hVars, walVars, dVars, redVars, conVars, dedup, db, faults>>
DbDown    == db = "up" /\ Fault("db") /\ db' = "down"
             /\ UNCHANGED <<netVars, hVars, walVars, dVars, redVars, conVars, dedup, redis>>
DbBack    == db = "down" /\ db' = "up"
             /\ UNCHANGED <<netVars, hVars, walVars, dVars, redVars, conVars, dedup, redis, faults>>

\* What a kill leaves of an append in flight.
KillAppend ==
    \/ UNCHANGED <<wal, tail>>
    \/ \E h \in Handler : hpc[h] = "spill" /\ WalFree /\ WriteLine(hrec[h])
    \/ "torn" \in Faults /\ (\E h \in Handler : hpc[h] = "spill") /\ WalFree
       /\ tail' = "torn" /\ UNCHANGED wal

\* Mutant: a restart reads under a new consumer name, with an empty list.
CrashNewConsumer ==
    /\ Fault("crash")
    /\ pendN' = Len(wal) + (IF tail = "torn" THEN 1 ELSE 0)
    /\ hpc' = [h \in Handler |-> "idle"]
    /\ hrec' = [h \in Handler |-> Corrupt]
    /\ dpc' = "boot" /\ di' = 1
    /\ pel' = {}
    /\ cpc' = "group" /\ backlog' = "own" /\ batch' = {} /\ size' = "full" /\ cur' = 0
    /\ UNCHANGED <<netVars, wal, tail, log, entries, lastId, dedup, envVars>>

\* hikrad-acct is killed and starts again: newSpill counts the lines it
\* finds, everything else in memory starts over.
Crash ==
    /\ Fault("crash")
    /\ KillAppend
    /\ pendN' = Len(wal') + (IF tail' = "torn" THEN 1 ELSE 0)
    /\ hpc' = [h \in Handler |-> "idle"]
    /\ hrec' = [h \in Handler |-> Corrupt]
    /\ dpc' = "boot" /\ di' = 1
    /\ cpc' = "group" /\ backlog' = "own" /\ batch' = {} /\ size' = "full" /\ cur' = 0
    /\ UNCHANGED <<netVars, redVars, dedup, envVars>>

-----------------------------------------------------------------------------
Ingest(h) ==
    \/ \E r \in Rec : Receive(h, r)
    \/ EnqueueStream(h) \/ EnqueueFails(h) \/ EnqueueAmbiguous(h)
    \/ SpillAppend(h) \/ SpillFails(h) \/ Reply(h)

Drainer  == \/ StartDrain \/ DrainFails \/ SkipLine \/ PushLine \/ PushFails
            \/ TruncateWal \/ TruncateFails
Consumer == \/ EnsureGroup \/ ReadOwn \/ ReadNew \/ ReadReplyLost
            \/ (\E k \in NasId : Process(k)) \/ ProcessFails \/ AckDelete
Environment == RedisDown \/ RedisBack \/ DbDown \/ DbBack \/ Crash

Next == (\E h \in Handler : Ingest(h)) \/ Drainer \/ Consumer \/ Environment

Spec == Init /\ [][Next]_vars

\* The drainer and the consumer are goroutines that retry for ever, outages
\* end, and a behaviour has finitely many faults.
Fairness ==
    /\ WF_vars(RedisBack) /\ WF_vars(DbBack)
    /\ WF_vars(Drainer) /\ WF_vars(Consumer)

FairSpec == Spec /\ Fairness

-----------------------------------------------------------------------------
(* Properties                                                              *)

InWal    == {r \in Rec : \E i \in DOMAIN wal : wal[i] = r}
InStream == {r \in Rec : \E i \in entries : log[i] = r}
Held     == InWal \cup InStream
Stored   == {r \in Rec : \E k \in NasId : <<k, r>> \in dedup}

\* The types of the variables.
TypeOK ==
    /\ sends \in [Rec -> Nat]
    /\ acked \subseteq Rec
    /\ hpc \in [Handler -> {"idle", "xadd", "spill", "reply"}]
    /\ hrec \in [Handler -> Rec \cup {Corrupt}]
    /\ \A h \in Handler : hpc[h] # "idle" => hrec[h] \in Rec
    /\ wal \in Seq(Rec \cup {Corrupt})
    /\ tail \in {"clean", "torn"}
    /\ pendN \in Nat
    /\ dpc \in {"boot", "tick", "push"}
    /\ di \in Nat \ {0}
    /\ log \in Seq(Rec)
    /\ entries \subseteq 1..Len(log)
    /\ pel \subseteq entries
    /\ batch \subseteq entries
    /\ lastId \in Nat
    /\ cpc \in {"group", "read", "process", "ack"}
    /\ backlog \in {"own", "new"}
    /\ size \in {"short", "full"}
    /\ cur \in Nat
    /\ dedup \subseteq NasId \X Rec
    /\ redis \in {"up", "down"}
    /\ db \in {"up", "down"}
    /\ faults \in Seq(FaultKinds)

\* The lossless contract in one line: a record answered with 204 is in the
\* WAL, on the stream or in the database (ingest.go: "That is the whole
\* lossless contract in one function").
AckedDurable == acked \subseteq Held \cup Stored

\* Every delivered, unacknowledged entry is either in the batch in hand or
\* will be read again: the consumer only leaves its own backlog when nothing
\* of it is outside the batch.  This is the stranding that runConsumer's
\* comment on backlog = "0" describes.  The reply of a read that is lost is
\* the one event that strands entries.
NoneStranded ==
    \/ pel \subseteq batch
    \/ backlog = "own" /\ (batch # {} => size = "full")
    \/ Happened({"read"})

\* Whatever is durable in the pipeline reaches the database, through outages,
\* kills, ambiguous answers and partial lines (consumer.go: "then drain in
\* order on recovery").
EventuallyStored == \A r \in Rec : (r \in Held) ~> (r \in Stored)

\* A partial line never blocks the drain: the WAL is emptied again and again
\* (spill.go: a torn tail "is detected and skipped, never crashing the
\* drain").
WalDrains == (wal # <<>>) ~> (wal = <<>>)

\* The pipeline implements the ack contract: what is held is what the WAL
\* and the stream hold, what is stored is what acct_dedup has.
Contract == INSTANCE AcctContract WITH held <- Held, stored <- Stored
ImplementsContract == Contract!Spec

\* A record is persisted under at most one dedup key, so that its usage is
\* accounted at most once (spill.go: "Replaying a line into the stream is
\* idempotent end to end: the consumer dedups by the DB key").
StoredOnce == \A r \in Rec : Cardinality({k \in NasId : <<k, r>> \in dedup}) <= 1

=============================================================================
