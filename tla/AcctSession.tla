---------------------------- MODULE AcctSession ----------------------------
(***************************************************************************)
(* One accounting session of hikrad-acct: its row in sessions, the usage   *)
(* and connected time derived from its records (sessions.go,               *)
(* billingcounters.go), its entry in the Redis live view (livestate.go)    *)
(* and the stale-session reaper that runs beside the consumer (reaper.go). *)
(*                                                                         *)
(* Record 1 is the Start, record Last the Stop, the ones between are       *)
(* Interims; record i carries the counter value Total(i).  The queue of    *)
(* AcctPipeline is seen from its far end: a record is received at some     *)
(* time and applied at any later one, and spilled records are overtaken by *)
(* newer ones.                                                             *)
(***************************************************************************)
EXTENDS AcctRecord, FiniteSets, Sequences

CONSTANTS
    Last,         \* the number of records, the Stop included
    Step,         \* octets between two records
    StaleAfter,   \* 2 x interim interval
    ReapAfter,    \* 3 x interim interval + 5 min
    MaxNow,       \* bound: the clock
    LastSend,     \* bound: the NAS is silent after this time
    MaxFaults,    \* bound: crashes, failed Redis commands and statements
    Faults        \* the kinds of fault of a run

ASSUME SessionAssumption ==
    /\ Last \in Nat /\ Last > 1 /\ Step \in Nat
    /\ StaleAfter \in Nat /\ ReapAfter \in Nat /\ StaleAfter <= ReapAfter
    /\ MaxNow \in Nat /\ LastSend \in Nat
    /\ MaxFaults \in Nat /\ Faults \subseteq {"crash", "live", "db"}

Reports  == 1..Last
Total(i) == (i - 1) * Step

VARIABLES
    now,      \* the clock of the server and of the NAS
    evt,      \* evt[i]: event and receipt time of the i-th record received
    applied,  \* records committed (acct_dedup)
    unacked,  \* records committed whose stream entry is not acknowledged
    row,      \* the row of sessions
    usage,    \* lifetime bytes = the sum of the usage points
    secs,     \* lifetime_session_seconds
    live,     \* the field of the live hash: "none", "fresh", "stale"
    job,      \* the consumer's post-commit step: "idle", "upsert", "remove"
    reaper,   \* [pc, start, last]: the pass of reapOnce
    faults

recVars == <<evt, applied, unacked>>
sumVars == <<usage, secs>>
svars   == <<now, recVars, row, sumVars, live, job, reaper, faults>>

NoRow == [st |-> "none", bytes |-> 0, start |-> 0, last |-> 0, stale |-> "no"]
Idle  == [pc |-> "idle", start |-> 0, last |-> 0]

Init ==
    /\ now = 0 /\ evt = <<>> /\ applied = {} /\ unacked = {}
    /\ row = NoRow /\ usage = 0 /\ secs = 0
    /\ live = "none" /\ job = "idle" /\ reaper = Idle /\ faults = 0

Fault(kind) == kind \in Faults /\ faults < MaxFaults /\ faults' = faults + 1

-----------------------------------------------------------------------------
(* The NAS and the clock.                                                  *)

Tick ==
    /\ now < MaxNow /\ now' = now + 1
    /\ UNCHANGED <<recVars, row, sumVars, live, job, reaper, faults>>

\* The next record arrives at ingest.  The NAS may stop anywhere, so a
\* session can end without a Stop.
Send ==
    /\ now <= LastSend /\ Len(evt) < Last
    /\ evt' = Append(evt, now)
    /\ UNCHANGED <<now, applied, unacked, row, sumVars, live, job, reaper, faults>>

-----------------------------------------------------------------------------
(* The consumer: upsertSession in one transaction, then the live view.     *)

IsStart(i) == i = 1
IsStop(i)  == i = Last

\* A Start, or a record on a closed session, resets the delta baseline.
Resets(i) == IsStart(i) \/ row.st # "open"

\* Mutant: a late record on a reaped or stopped row keeps the baseline of
\* the row but is counted as nothing.
DeltaDropsLate(i) ==
    IF Resets(i) THEN [total |-> Total(i), delta |-> IF row.st = "none" THEN Total(i) ELSE 0]
                 ELSE Advance(row.bytes, Total(i) % Word, Total(i) \div Word)

\* Mutant: every record is counted in full, as if it reset the baseline.
DeltaFull(i) == [total |-> Total(i), delta |-> Total(i)]

\* The new stored total and the usage of record i.
Delta(i) ==
    IF Resets(i)
    THEN [total |-> TotalBytes(Total(i) % Word, Total(i) \div Word),
          delta |-> TotalBytes(Total(i) % Word, Total(i) \div Word)]
    ELSE Advance(row.bytes, Total(i) % Word, Total(i) \div Word)

\* writeStart, writeInterim, writeStop.  Only a Start, or a record that finds
\* no row, sets started_at; every record refreshes last_interim_at and clears
\* stale and reaped; all but a Stop reopen.
Written(i) ==
    [st    |-> IF IsStop(i) THEN "stopped" ELSE "open",
     bytes |-> Delta(i).total,
     start |-> IF IsStart(i) \/ row.st = "none" THEN evt[i] ELSE row.start,
     last  |-> evt[i],
     stale |-> "no"]

\* Connected time, credited at a Stop over the span since started_at.
Connected(i) ==
    IF IsStop(i) /\ row.st # "none" /\ evt[i] > row.start
    THEN evt[i] - row.start ELSE 0

\* processMessage up to the commit, for a record seen for the first time.
Apply(i) ==
    /\ job = "idle" /\ unacked = {}
    /\ i \in DOMAIN evt /\ i \notin applied
    /\ row' = Written(i)
    /\ usage' = usage + Delta(i).delta
    /\ secs' = secs + Connected(i)
    /\ applied' = applied \cup {i}
    /\ unacked' = {i}
    /\ job' = IF IsStop(i) THEN "remove" ELSE "upsert"
    /\ UNCHANGED <<now, evt, live, reaper, faults>>

\* livestate.Upsert or Remove, then the acknowledgement.
LiveOp ==
    /\ job # "idle" /\ job' = "idle" /\ unacked' = {}
    /\ live' = IF job = "upsert" THEN "fresh" ELSE "none"
    /\ UNCHANGED <<now, evt, applied, row, sumVars, reaper, faults>>

\* Redis refuses the command: the error is ignored.
LiveOpFails ==
    /\ Fault("live")
    /\ job # "idle" /\ job' = "idle" /\ unacked' = {}
    /\ UNCHANGED <<now, evt, applied, row, sumVars, live, reaper>>

\* Mutant: a duplicate is acknowledged and nothing else.
DuplicateIgnored(i) ==
    /\ job = "idle" /\ i \in applied
    /\ unacked' = unacked \ {i}
    /\ UNCHANGED <<now, evt, applied, row, sumVars, live, job, reaper, faults>>

\* A record already committed is delivered again: a retransmission, or the
\* entry left unacknowledged by a crash.  A duplicate Stop clears the live
\* entry.
Duplicate(i) ==
    /\ job = "idle" /\ i \in applied
    /\ unacked' = unacked \ {i}
    /\ live' = IF IsStop(i) THEN "none" ELSE live
    /\ UNCHANGED <<now, evt, applied, row, sumVars, job, reaper, faults>>

\* The process dies; what was committed stays, the passes under way are lost.
Crash ==
    /\ Fault("crash")
    /\ job' = "idle" /\ reaper' = Idle
    /\ UNCHANGED <<now, recVars, row, sumVars, live>>

-----------------------------------------------------------------------------
(* The reaper.                                                             *)

Age == now - row.last

\* Mutant: the pass lists only the sessions that are not yet stale.
ReapOnceFreshOnly ==
    /\ reaper.pc = "idle" /\ row.st = "open" /\ row.stale = "no"
    /\ Age >= StaleAfter
    /\ reaper' = [pc |-> IF Age >= ReapAfter THEN "reap" ELSE "mark",
                  start |-> row.start, last |-> row.last]
    /\ UNCHANGED <<now, recVars, row, sumVars, live, job, faults>>

\* reapOnce lists the open sessions and decides from what it read.
ReapOnce ==
    /\ reaper.pc = "idle" /\ row.st = "open"
    /\ \/ /\ Age >= ReapAfter
          /\ reaper' = [pc |-> "reap", start |-> row.start, last |-> row.last]
       \/ /\ Age >= StaleAfter /\ Age < ReapAfter /\ row.stale = "no"
          /\ reaper' = [pc |-> "mark", start |-> row.start, last |-> row.last]
    /\ UNCHANGED <<now, recVars, row, sumVars, live, job, faults>>

Reaped == IF row.st = "open" THEN [row EXCEPT !.st = "reaped", !.stale = "yes"] ELSE row
Dimmed == IF row.st = "open" THEN [row EXCEPT !.stale = "yes"] ELSE row

\* reapSession: UPDATE ... WHERE stopped_at IS NULL RETURNING stopped_at.
ReapSession ==
    /\ reaper.pc = "reap"
    /\ row' = Reaped
    /\ reaper' = IF row.st = "open" THEN [reaper EXCEPT !.pc = "credit", !.last = row.last]
                                    ELSE Idle
    /\ UNCHANGED <<now, recVars, sumVars, live, job, faults>>

\* incrementLifetimeSeconds from the listed started_at to the stopped_at set.
ReapCredit ==
    /\ reaper.pc = "credit"
    /\ secs' = secs + (IF reaper.last > reaper.start THEN reaper.last - reaper.start ELSE 0)
    /\ reaper' = [reaper EXCEPT !.pc = "remove"]
    /\ UNCHANGED <<now, recVars, row, usage, live, job, faults>>

\* livestate.Remove; an error is ignored.
ReapRemove ==
    /\ reaper.pc = "remove" /\ reaper' = Idle
    /\ \/ live' = "none" /\ UNCHANGED faults
       \/ Fault("live") /\ UNCHANGED live
    /\ UNCHANGED <<now, recVars, row, sumVars, job>>

\* markStale: the UPDATE, the read of the live entry, and its write back.
MarkStale ==
    /\ reaper.pc = "mark"
    /\ row' = Dimmed
    /\ reaper' = [reaper EXCEPT !.pc = "hget"]
    /\ UNCHANGED <<now, recVars, sumVars, live, job, faults>>

MarkRead ==
    /\ reaper.pc = "hget"
    /\ reaper' = IF live = "none" THEN Idle ELSE [reaper EXCEPT !.pc = "upsert"]
    /\ UNCHANGED <<now, recVars, row, sumVars, live, job, faults>>

MarkWrite ==
    /\ reaper.pc = "upsert" /\ reaper' = Idle
    /\ \/ live' = "stale" /\ UNCHANGED faults
       \/ Fault("live") /\ UNCHANGED live
    /\ UNCHANGED <<now, recVars, row, sumVars, job>>

\* A statement of the reaper fails, with or without its effect: the session
\* is left for the next pass, a failed credit is logged and forgotten.
ReapFails ==
    /\ Fault("db")
    /\ \/ reaper.pc = "reap" /\ row' \in {row, Reaped} /\ reaper' = Idle
       \/ reaper.pc = "mark" /\ row' \in {row, Dimmed} /\ reaper' = Idle
       \/ reaper.pc = "credit" /\ reaper' = [reaper EXCEPT !.pc = "remove"] /\ UNCHANGED row
    /\ UNCHANGED <<now, recVars, sumVars, live, job>>

-----------------------------------------------------------------------------
Consume == \E i \in Reports : Apply(i) \/ Duplicate(i)
Reap    == ReapOnce \/ ReapSession \/ ReapCredit \/ ReapRemove
           \/ MarkStale \/ MarkRead \/ MarkWrite

Next == Tick \/ Send \/ Consume \/ LiveOp \/ LiveOpFails \/ Crash \/ Reap \/ ReapFails

Spec == Init /\ [][Next]_svars

\* Time passes, the consumer and the reaper are goroutines that run on.  The
\* NAS owes nothing: Send is not fair.
Fairness ==
    /\ WF_svars(Tick) /\ WF_svars(LiveOp) /\ WF_svars(Reap)
    /\ \A i \in Reports : WF_svars(Apply(i)) /\ WF_svars(i \in unacked /\ Duplicate(i))

FairSpec == Spec /\ Fairness

-----------------------------------------------------------------------------
\* The types of the variables.
TypeOK ==
    /\ now \in Nat /\ faults \in Nat
    /\ evt \in Seq(Nat)
    /\ applied \subseteq Reports /\ unacked \subseteq applied
    /\ row \in [st : {"none", "open", "stopped", "reaped"}, bytes : Nat,
                start : Nat, last : Nat, stale : {"no", "yes"}]
    /\ usage \in Nat /\ secs \in Nat
    /\ live \in {"none", "fresh", "stale"}
    /\ job \in {"idle", "upsert", "remove"}
    /\ reaper \in [pc : {"idle", "reap", "credit", "remove", "mark", "hget", "upsert"},
                   start : Nat, last : Nat]

\* No octet a record reports is ever missing from the billed usage: whatever
\* the order of the records, however the reaper closes the session between
\* them (upsertSession's baseline).
UsageCovers == \A i \in applied : usage >= Total(i)

Highest == CHOOSE t \in 0..Total(Last) :
              /\ \A i \in applied : t >= Total(i)
              /\ t = 0 \/ \E i \in applied : t = Total(i)

\* FR-37.4 and FR-38.2: the billed usage is the highest counter applied, each
\* octet counted once.
UsageExact == usage = Highest

\* incrementLifetimeSeconds: "counted once per session at Stop (including a
\* reaper-synthesized stop)": never more than the session has lasted.
SecsOnce == evt # <<>> => secs <= evt[Len(evt)] - evt[1]

\* At a clean Stop the connected time credited is the span of the session.
SecsExact == row.st = "stopped" => secs = evt[Last] - row.start

Quiet == job = "idle" /\ unacked = {} /\ reaper = Idle

\* "Redis is the derived view, DB is truth": when nothing is under way, a
\* closed session is not shown live, nor counted against its subscriber.
NoLiveGhost == Quiet /\ row.st \in {"none", "stopped", "reaped"} => live = "none"

\* A reap closes a session that has been silent for the whole timeout, never
\* one that has just been heard of (reapOnce, reapSession).
ReapOnlySilent == [][row.st = "open" /\ row'.st = "reaped" => Age >= ReapAfter]_svars

\* FR-38: a session whose NAS falls silent does not stay open.
SilentCloses == <>[](row.st # "open")

=============================================================================
