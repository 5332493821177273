----------------------------- MODULE CoaOutbox -----------------------------
(***************************************************************************)
(* The durable CoA outbox of backend/internal/radius: rows of coa_outbox   *)
(* (coa_outbox_store.go), the dispatcher that is the only sender           *)
(* (coa_dispatcher.go, coa.go), the writers (coa_enqueue.go) and the       *)
(* operator's retry and cancel (coa_outbox_api.go).                        *)
(*                                                                         *)
(* Rows are numbered in the order they are enqueued and all concern one    *)
(* live session: row 1 may move it to the walled garden, row 2 may be the  *)
(* renewal that restores it.                                               *)
(***************************************************************************)
EXTENDS Naturals, FiniteSets, Sequences

CONSTANTS
    NRows,       \* rows enqueued
    Actions,     \* what may be enqueued: "update", "disconnect"
    RetryMax,    \* coa_retry_max
    MaxOps,      \* bound: requests of the operator
    MaxFaults,   \* bound: crashes, Redis outages, failed statements
    Faults       \* the kinds of fault of a run; "nak" is a NAS that refuses

ASSUME OutboxAssumption ==
    /\ NRows \in Nat /\ RetryMax \in Nat /\ RetryMax > 0
    /\ Actions \subseteq {"update", "disconnect"}
    /\ MaxOps \in Nat /\ MaxFaults \in Nat
    /\ Faults \subseteq {"crash", "redis", "db", "nak"}

Rows == 1..NRows

VARIABLES
    row,      \* the rows; due is "yes" once the row's time has come: the
              \* next_attempt_at of a pending row, sent_at + 30 s of a sent one
    fly,      \* the goroutine of dispatchOne for a claimed row
    phase,    \* the pass of coaDispatchTick
    dec,      \* nackSweep: the decision taken for a listed row
    session,  \* the live entry of the target: "live", "gone"
    redis,    \* "up", "down"
    policy,   \* the row whose attributes the NAS applied last, 0: none
    tries,    \* update attempts of a row refused since it was (re)queued
    ops,
    faults    \* the kinds of the faults so far, in order

ovars == <<row, fly, phase, dec, session, redis, policy, tries, ops, faults>>

States   == {"absent", "pending", "sent", "done", "nack", "failed"}
Outcomes == {"none", "ack", "nak", "reaped", "cancelled"}

RowType == [st : States, action : {"update", "disconnect"},
            op : {"update", "disconnect"}, att : Nat,
            fb : {"no", "yes"}, out : Outcomes, due : {"no", "yes"}]

Absent == [st |-> "absent", action |-> "update", op |-> "update", att |-> 0,
           fb |-> "no", out |-> "none", due |-> "yes"]

Init ==
    /\ row = [r \in Rows |-> Absent]
    /\ fly = [r \in Rows |-> "none"]
    /\ dec = [r \in Rows |-> "none"]
    /\ tries = [r \in Rows |-> 0]
    /\ phase = "idle" /\ session = "live" /\ redis = "up"
    /\ policy = 0 /\ ops = 0 /\ faults = <<>>

FaultKinds == {"crash", "redis", "db", "nak"}
Fault(kind) == kind \in Faults /\ Len(faults) < MaxFaults /\ faults' = Append(faults, kind)

Happened(kind) == \E i \in DOMAIN faults : faults[i] = kind

In(st) == {r \in Rows : row[r].st = st}

-----------------------------------------------------------------------------
(* The writers and the operator.                                           *)

\* Enqueue: a new row, in order.
Enqueue(r, a) ==
    /\ row[r].st = "absent" /\ \A q \in 1..(r - 1) : row[q].st # "absent"
    /\ row' = [row EXCEPT ![r] = [Absent EXCEPT !.st = "pending", !.action = a, !.op = a]]
    /\ UNCHANGED <<fly, phase, dec, session, redis, policy, tries, ops, faults>>

\* retryOutboxRow: from scratch, only from nack or failed.
RetryRow(r) ==
    /\ ops < MaxOps /\ ops' = ops + 1
    /\ row[r].st \in {"nack", "failed"}
    /\ row' = [row EXCEPT ![r] = [Absent EXCEPT !.st = "pending",
                                    !.action = row[r].action, !.op = row[r].action]]
    /\ tries' = [tries EXCEPT ![r] = 0]
    /\ UNCHANGED <<fly, phase, dec, session, redis, policy, faults>>

\* Mutant: a row that is being sent can be cancelled too.
CancelRowSent(r) ==
    /\ ops < MaxOps /\ ops' = ops + 1
    /\ row[r].st \in {"pending", "sent"}
    /\ row' = [row EXCEPT ![r].st = "failed", ![r].out = "cancelled"]
    /\ UNCHANGED <<fly, phase, dec, session, redis, policy, tries, faults>>

\* cancelOutboxRow: only a pending row.
CancelRow(r) ==
    /\ ops < MaxOps /\ ops' = ops + 1
    /\ row[r].st = "pending"
    /\ row' = [row EXCEPT ![r].st = "failed", ![r].out = "cancelled"]
    /\ UNCHANGED <<fly, phase, dec, session, redis, policy, tries, faults>>

-----------------------------------------------------------------------------
(* One tick of the dispatcher: reclaim, claim and send, sweep.             *)

\* Mutant: nothing recovers the rows a dead process left sent.
ReclaimNone ==
    /\ phase = "idle" /\ phase' = "claim"
    /\ UNCHANGED <<row, fly, dec, session, redis, policy, tries, ops, faults>>

\* reclaimStuckSent: rows sent more than 30 s ago.  A tick waits for its
\* goroutines, so a row still sent when a tick starts was left by a dead one.
Reclaim ==
    /\ phase = "idle" /\ phase' = "claim"
    /\ row' = [r \in Rows |-> IF row[r].st = "sent" /\ row[r].due = "yes"
                              THEN [row[r] EXCEPT !.st = "pending"]
                              ELSE row[r]]
    /\ UNCHANGED <<fly, dec, session, redis, policy, tries, ops, faults>>

\* The UPDATE fails: the pass goes on without it.
ReclaimFails ==
    /\ Fault("db") /\ phase = "idle" /\ phase' = "claim"
    /\ UNCHANGED <<row, fly, dec, session, redis, policy, tries, ops>>

Due == {r \in In("pending") : row[r].due = "yes"}

Claimed == [r \in Rows |-> IF r \in Due THEN [row[r] EXCEPT !.st = "sent", !.due = "no"]
                                        ELSE row[r]]

\* claimBatch: the rows that are due go to sent and to their goroutines.
Claim ==
    /\ phase = "claim" /\ phase' = "run"
    /\ row' = Claimed
    /\ fly' = [r \in Rows |-> IF r \in Due THEN "check" ELSE fly[r]]
    /\ UNCHANGED <<dec, session, redis, policy, tries, ops, faults>>

\* The UPDATE fails, or its answer is lost: rows are sent and nobody sends.
ClaimFails ==
    /\ Fault("db") /\ phase = "claim" /\ phase' = "run"
    /\ row' \in {row, Claimed}
    /\ UNCHANGED <<fly, dec, session, redis, policy, tries, ops>>

\* Time passes.
BecomesDue(r) ==
    /\ row[r].st \in {"pending", "sent"} /\ row[r].due = "no"
    /\ row' = [row EXCEPT ![r].due = "yes"]
    /\ UNCHANGED <<fly, phase, dec, session, redis, policy, tries, ops, faults>>

\* Mutant: the check is not made, the row is taken for reaped.
CheckLiveNever(r) ==
    /\ fly[r] = "check"
    /\ row' = [row EXCEPT ![r].st = "done", ![r].out = "reaped"]
    /\ fly' = [fly EXCEPT ![r] = "none"]
    /\ UNCHANGED <<phase, dec, session, redis, policy, tries, ops, faults>>

\* dispatchOne, sessionStillLive: any error of HGET counts as "not there" and
\* resolves the row as done (resolveReaped).
CheckLive(r) ==
    /\ fly[r] = "check"
    /\ IF redis = "up" /\ session = "live"
       THEN fly' = [fly EXCEPT ![r] = "send"] /\ UNCHANGED row
       ELSE /\ row' = [row EXCEPT ![r].st = "done", ![r].out = "reaped"]
            /\ fly' = [fly EXCEPT ![r] = "none"]
    /\ UNCHANGED <<phase, dec, session, redis, policy, tries, ops, faults>>

\* send: the NAS applies the change and acknowledges it; a Disconnect ends
\* the session.
SendAck(r) ==
    /\ fly[r] = "send" /\ fly' = [fly EXCEPT ![r] = "ack"]
    /\ policy' = r
    /\ session' = IF row[r].op = "disconnect" THEN "gone" ELSE session
    /\ UNCHANGED <<row, phase, dec, redis, tries, ops, faults>>

\* send: NAK, timeout, error or unsupported.  After a timeout the packet may
\* have taken effect.
SendNak(r) ==
    /\ "nak" \in Faults
    /\ fly[r] = "send" /\ fly' = [fly EXCEPT ![r] = "nak"]
    /\ policy' \in {policy, r}
    /\ session' = IF policy' # policy /\ row[r].op = "disconnect" THEN "gone" ELSE session
    /\ UNCHANGED <<row, phase, dec, redis, tries, ops, faults>>

\* resolveDone, resolveNack.
Resolve(r) ==
    /\ fly[r] \in {"ack", "nak"} /\ fly' = [fly EXCEPT ![r] = "none"]
    /\ row' = [row EXCEPT ![r].st = IF fly[r] = "ack" THEN "done" ELSE "nack",
                          ![r].out = fly[r], ![r].att = @ + 1]
    /\ tries' = [tries EXCEPT ![r] = IF fly[r] = "nak" /\ row[r].op = "update"
                                     THEN @ + 1 ELSE @]
    /\ UNCHANGED <<phase, dec, session, redis, policy, ops, faults>>

\* The statement that resolves the row fails: the row stays sent.
ResolveFails(r) ==
    /\ Fault("db")
    /\ fly[r] \in {"ack", "nak"} \/ (fly[r] = "check" /\ (redis = "down" \/ session = "gone"))
    /\ fly' = [fly EXCEPT ![r] = "none"]
    /\ UNCHANGED <<row, phase, dec, session, redis, policy, tries, ops>>

\* Mutant: the budget is off by one.
DecideNackLate(w) ==
    IF w.att <= RetryMax THEN "retry"
    ELSE IF w.op = "update" /\ w.fb = "no" THEN "fallback" ELSE "fail"

\* Mutant: an update falls back at its first refusal.
DecideNackEager(w) ==
    IF w.op = "update" /\ w.fb = "no" THEN "fallback"
    ELSE IF w.att < RetryMax THEN "retry" ELSE "fail"

\* decideNack.
DecideNack(w) ==
    IF w.att < RetryMax THEN "retry"
    ELSE IF w.op = "update" /\ w.fb = "no" THEN "fallback" ELSE "fail"

\* nackSweep lists the nack rows and decides from what it read.
SweepList ==
    /\ phase = "run" /\ \A r \in Rows : fly[r] = "none"
    /\ phase' = "sweep"
    /\ dec' = [r \in Rows |-> IF row[r].st = "nack" THEN DecideNack(row[r]) ELSE "none"]
    /\ UNCHANGED <<row, fly, session, redis, policy, tries, ops, faults>>

\* applyNackDecision: by id, whatever the row's state is by now.
SweepApply(r) ==
    /\ phase = "sweep" /\ dec[r] # "none"
    /\ dec' = [dec EXCEPT ![r] = "none"]
    /\ row' = [row EXCEPT ![r] =
                 IF dec[r] = "retry" THEN [@ EXCEPT !.st = "pending", !.due = "no"]
                 ELSE IF dec[r] = "fallback"
                 THEN [@ EXCEPT !.st = "pending", !.op = "disconnect", !.att = 0,
                                !.fb = "yes", !.due = "yes"]
                 ELSE [@ EXCEPT !.st = "failed"]]
    /\ UNCHANGED <<fly, phase, session, redis, policy, tries, ops, faults>>

\* The decision is not written: the row is listed again by the next sweep.
SweepFails(r) ==
    /\ Fault("db") /\ phase = "sweep" /\ dec[r] # "none"
    /\ dec' = [dec EXCEPT ![r] = "none"]
    /\ UNCHANGED <<row, fly, phase, session, redis, policy, tries, ops>>

TickEnds ==
    /\ phase = "sweep" /\ \A r \in Rows : dec[r] = "none"
    /\ phase' = "idle"
    /\ UNCHANGED <<row, fly, dec, session, redis, policy, tries, ops, faults>>

\* The process dies in a tick, or the tick's 30 s are over and every further
\* statement fails: goroutines and decisions are gone, the rows stay.
TickDies ==
    /\ Fault("crash") /\ phase # "idle" /\ phase' = "idle"
    /\ fly' = [r \in Rows |-> "none"] /\ dec' = [r \in Rows |-> "none"]
    /\ UNCHANGED <<row, session, redis, policy, tries, ops>>

-----------------------------------------------------------------------------
(* The surroundings.                                                       *)

SessionEnds ==
    /\ session = "live" /\ session' = "gone"
    /\ UNCHANGED <<row, fly, phase, dec, redis, policy, tries, ops, faults>>

RedisDown ==
    /\ Fault("redis") /\ redis = "up" /\ redis' = "down"
    /\ UNCHANGED <<row, fly, phase, dec, session, policy, tries, ops>>

RedisBack ==
    /\ redis = "down" /\ redis' = "up"
    /\ UNCHANGED <<row, fly, phase, dec, session, policy, tries, ops, faults>>

Request  == \E r \in Rows : (\E a \in Actions : Enqueue(r, a)) \/ RetryRow(r) \/ CancelRow(r)
Dispatch == \E r \in Rows : CheckLive(r) \/ SendAck(r) \/ SendNak(r) \/ Resolve(r)
Sweep    == SweepList \/ (\E r \in Rows : SweepApply(r)) \/ TickEnds

DbFails  == ReclaimFails \/ ClaimFails \/ \E r \in Rows : ResolveFails(r) \/ SweepFails(r)

Next == \/ Request \/ Reclaim \/ Claim \/ Dispatch \/ Sweep \/ TickDies \/ DbFails
        \/ (\E r \in Rows : BecomesDue(r))
        \/ SessionEnds \/ RedisDown \/ RedisBack

Spec == Init /\ [][Next]_ovars

\* The ticker fires every 3 s, the goroutines run and send returns within its
\* timeout, time passes.  The NAS may refuse for ever.
FairSpec ==
    /\ Spec
    /\ WF_ovars(Reclaim) /\ WF_ovars(Claim) /\ WF_ovars(Sweep)
    /\ \A r \in Rows : WF_ovars(BecomesDue(r)) /\ WF_ovars(CheckLive(r))
                       /\ WF_ovars(SendAck(r) \/ SendNak(r)) /\ WF_ovars(Resolve(r))

-----------------------------------------------------------------------------
\* The types of the variables.
TypeOK ==
    /\ row \in [Rows -> RowType]
    /\ fly \in [Rows -> {"none", "check", "send", "ack", "nak"}]
    /\ phase \in {"idle", "claim", "run", "sweep"}
    /\ dec \in [Rows -> {"none", "retry", "fallback", "fail"}]
    /\ session \in {"live", "gone"} /\ redis \in {"up", "down"}
    /\ policy \in 0..NRows
    /\ tries \in [Rows -> Nat]
    /\ ops \in Nat /\ faults \in Seq(FaultKinds)

\* FR-151: no leg of a row is charged with more than coa_retry_max attempts,
\* and a row that will be attempted has budget left; operator requests, crashes
\* and lost statements that race the sweep included.
BudgetHolds ==
    \A r \in Rows : /\ row[r].att <= RetryMax
                    /\ row[r].st \in {"pending", "sent"} => row[r].att < RetryMax

\* FR-151: a requested update becomes a Disconnect only after the NAS has
\* refused the update coa_retry_max times, and the row says so; crashes and
\* lost statements included, as long as no operator has retried a row.
FallbackEarned ==
    ops = 0 => \A r \in Rows :
        row[r].action = "update" /\ row[r].op = "disconnect" =>
            row[r].fb = "yes" /\ tries[r] >= RetryMax

\* A row resolved as done has either been acknowledged by the NAS or its
\* session is over (the reaper interaction), as long as Redis answers: an
\* error of the live lookup counts as a session that is over.
DoneHonest ==
    Happened("redis") \/ \A r \in Rows : row[r].st = "done" => row[r].out = "ack" \/ session = "gone"

\* Gate item 5: "cancel stops an unsent row": a cancelled row has no goroutine
\* and is not sent, wherever the tick stands; a cancel behind a retry is
\* exposed to the decision of an earlier sweep and left out.
CancelHolds ==
    ops <= 1 => \A r \in Rows : row[r].out = "cancelled" => row[r].st = "failed" /\ fly[r] = "none"

\* A row that is done stays done: no sweep, retry or reclaim sends it again.
DoneFinal ==
    [][\A r \in Rows : row[r].st = "done" => row'[r] = row[r]]_ovars

\* FR-150: every row enqueued is settled in the end, across restarts.
Settles == \A r \in Rows : row[r].st = "pending" ~> row[r].st \in {"done", "failed"}

\* retryOutboxRow: "A pending/sent row is already going to be attempted": a
\* pending row keeps its operation, and leaves that state only when it is
\* claimed or cancelled.
PendingAttempted ==
    [][\A r \in Rows : row[r].st = "pending" =>
          /\ row'[r].op = row[r].op
          /\ row'[r].st \in {"pending", "sent"} \/ row'[r].out = "cancelled"]_ovars

\* OutboxState: "pending -> sent -> {done|nack|failed}, nack -> pending (retry)
\* or nack -> sent (fallback).  No other transition exists".
FrozenMachine ==
    [][\A r \in Rows : row'[r].st # row[r].st =>
          <<row[r].st, row'[r].st>> \in
             {<<"absent", "pending">>, <<"pending", "sent">>, <<"sent", "done">>,
              <<"sent", "nack">>, <<"sent", "failed">>, <<"nack", "pending">>,
              <<"nack", "sent">>}]_ovars

\* AC-15b: once the last change enqueued for a session is acknowledged and
\* nothing is pending, it is what the NAS applies.
RestoreWins ==
    (\A r \in Rows : row[r].st \in {"done", "failed"})
        /\ row[NRows].out = "ack" /\ session = "live" => policy = NRows

=============================================================================
