----------------------------- MODULE Enforcement -----------------------------
(***************************************************************************)
(* Limits on sessions that are already online.  Three workers decide and   *)
(* enqueue a CoA (its delivery is CoaOutbox): the event driven enforcement *)
(* worker (radius/enforce.go) for expiry and quota, the limits sweep       *)
(* (radius/limitsworker.go) for uptime and daily limits and speed windows, *)
(* and the time-of-day sweep (radius/tod.go).  Their inputs: the expiry    *)
(* sweep (subscribers/sweep.go), the quota flag accounting keeps           *)
(* (accounting/quota.go) and the renewal that lifts everything             *)
(* (billing/renew.go).                                                     *)
(*                                                                         *)
(* One subscriber on one profile.  The cached view is read through (the    *)
(* cache is in Authorize).  A limit is a budget of one unit.               *)
(***************************************************************************)
EXTENDS Limits

CONSTANTS
    Sessions,   \* bound: live sessions of the subscriber
    Handlers,   \* goroutines of the enforcement worker
    Configs,    \* profiles: what they limit (has) and the lim, throttle and
                \* garden of a view; timed: with a window
    MaxFaults   \* bound: failed statements and restarts

VARIABLES
    cfg,      \* the profile
    acct,     \* the account: [status, lapsed, quota, uptime, daily] units used
    flag,     \* quota:exhausted:<id> in Redis
    eval,     \* applyQuota between its query and its write: "idle" or the verdict
    claims,   \* enforcement_actions: kinds claimed in the bucket that runs; a
              \* key of a past bucket is never asked for again
    events,   \* pub/sub messages under way: [kind, form]
    job,      \* handle(): [at, kind, todo]
    live,     \* the live hash
    sent,     \* last CoA enqueued for a session: [by, plan, kind]
    sweep,    \* the limits sweep: the sessions it has yet to evaluate
    mem,      \* its memory: [was, seen, rate] by session
    window,   \* the profile's speed window and its time-of-day window
    tod,      \* the time-of-day engine: the state it last saw
    raced,    \* a renewal passed between an evaluation's query and its write
    lost,     \* sessions whose restriction this process does not know of
    faults

acctVars == <<cfg, acct>>
quotaVars == <<flag, eval, raced>>
workVars == <<claims, events, job>>
sweepVars == <<sweep, mem, lost>>
coaVars == <<live, sent>>
timeVars == <<window, tod>>
enfVars == <<acctVars, quotaVars, workVars, sweepVars, coaVars, timeVars, faults>>

NoCoa == [by |-> "none", plan |-> Noop, kind |-> "none"]
Forgotten == [was |-> FALSE, seen |-> FALSE, rate |-> ""]
IdleJob == [at |-> "idle", kind |-> "none", todo |-> {}]

EnfInit ==
    /\ cfg \in Configs
    /\ acct = [status |-> "active", lapsed |-> FALSE, quota |-> 0, uptime |-> 0, daily |-> 0]
    /\ flag = FALSE /\ eval = "idle" /\ raced = FALSE
    /\ claims = {} /\ events = {}
    /\ job = [h \in Handlers |-> IdleJob]
    /\ live = {} /\ sent = [s \in Sessions |-> NoCoa]
    /\ sweep = {} /\ mem = [s \in Sessions |-> Forgotten] /\ lost = {}
    /\ window = "closed" /\ tod = "unseen"
    /\ faults = 0

Fault == faults < MaxFaults /\ faults' = faults + 1

\* GetAuthView: what is exhausted is derived from usage at every load; the
\* quota comes from the flag.
View ==
    [expired   |-> acct.status = "expired" \/ acct.lapsed,
     exhausted |-> flag,
     upOver    |-> acct.uptime >= 1,
     dayOver   |-> acct.daily >= 1,
     lim |-> cfg.lim, stype |-> "pppoe", rate |-> "full", hsRate |-> "",
     throttle |-> cfg.throttle, pool |-> "", garden |-> cfg.garden, static |-> FALSE]

-----------------------------------------------------------------------------
(* accounting: usage and the quota flag                                    *)

\* sumUptimeSeconds, sumDailyBytes and the quota's usage grow while online.
Usage(k) ==
    /\ k \in cfg.has /\ live # {} /\ acct[k] = 0
    /\ acct' = [acct EXCEPT ![k] = 1]
    /\ UNCHANGED <<cfg, quotaVars, workVars, sweepVars, coaVars, timeVars, faults>>

\* evaluate: the sum since the anchor, read at an interim or a stop.
Evaluate ==
    /\ "quota" \in cfg.has /\ eval = "idle"
    /\ eval' = IF acct.quota >= 1 THEN "over" ELSE "under"
    /\ UNCHANGED <<acctVars, flag, raced, workVars, sweepVars, coaVars, timeVars, faults>>

\* applyQuota writes the verdict it was given, whatever happened since.
ApplyQuota ==
    /\ eval # "idle"
    /\ flag' = (eval = "over")
    /\ raced' = (raced /\ eval = "over")
    /\ eval' = "idle"
    /\ UNCHANGED <<acctVars, workVars, sweepVars, coaVars, timeVars, faults>>

-----------------------------------------------------------------------------
(* the expiry sweep and the enforcement worker                             *)

Lapse ==
    /\ "expiry" \in cfg.has /\ ~acct.lapsed
    /\ acct' = [acct EXCEPT !.lapsed = TRUE]
    /\ UNCHANGED <<cfg, quotaVars, workVars, sweepVars, coaVars, timeVars, faults>>

\* The event's payload is the bare id.
ExpiredPayload == [kind |-> "expiry", form |-> "raw"]

\* sweepOnce: align the status in one statement; publish what just lapsed.
SweepOnce ==
    /\ \/ /\ acct.status = "active" /\ acct.lapsed
          /\ acct' = [acct EXCEPT !.status = "expired"]
          /\ \/ events' = events \cup {ExpiredPayload} /\ UNCHANGED faults
             \/ Fault /\ UNCHANGED events
       \/ /\ acct.status = "expired" /\ ~acct.lapsed
          /\ acct' = [acct EXCEPT !.status = "active"]
          /\ UNCHANGED <<events, faults>>
    /\ UNCHANGED <<cfg, quotaVars, claims, job, sweepVars, coaVars, timeVars>>

\* A publisher that keeps the contract (the test harness is one).
PublishEvent(k) ==
    /\ k = "quota" => flag
    /\ k = "expiry" => acct.lapsed
    /\ events' = events \cup {[kind |-> k, form |-> "json"]}
    /\ UNCHANGED <<acctVars, quotaVars, claims, job, sweepVars, coaVars, timeVars, faults>>

\* startEnforcementWorker: a payload that does not parse is dropped.
Receive(h, e) ==
    /\ e \in events /\ job[h].at = "idle"
    /\ events' = events \ {e}
    /\ job' = IF e.form = "json" THEN [job EXCEPT ![h] = [IdleJob EXCEPT !.at = "claim", !.kind = e.kind]]
              ELSE job
    /\ UNCHANGED <<acctVars, quotaVars, claims, sweepVars, coaVars, timeVars, faults>>

\* dedupKey: the kind, in the bucket that runs.
DedupKey(kind) == kind

\* claimEnforcement: one row for a key; an error proceeds with nothing.
ClaimEnforcement(key) == key \notin claims /\ claims' = claims \cup {key}

\* handle, up to the claim
HandleClaim(h) ==
    /\ job[h].at = "claim"
    /\ \/ ClaimEnforcement(DedupKey(job[h].kind)) /\ job' = [job EXCEPT ![h].at = "list"] /\ UNCHANGED faults
       \/ DedupKey(job[h].kind) \in claims /\ job' = [job EXCEPT ![h] = IdleJob] /\ UNCHANGED <<claims, faults>>
       \/ Fault /\ job' = [job EXCEPT ![h] = IdleJob] /\ UNCHANGED claims
    /\ UNCHANGED <<acctVars, quotaVars, events, sweepVars, coaVars, timeVars>>

\* liveSessionRefs: an error, or nobody online, leaves the claim behind.
HandleList(h) ==
    /\ job[h].at = "list"
    /\ \/ live # {} /\ job' = [job EXCEPT ![h].at = "enqueue", ![h].todo = live] /\ UNCHANGED faults
       \/ live = {} /\ job' = [job EXCEPT ![h] = IdleJob] /\ UNCHANGED faults
       \/ Fault /\ job' = [job EXCEPT ![h] = IdleJob]
    /\ UNCHANGED <<acctVars, quotaVars, claims, events, sweepVars, coaVars, timeVars>>

\* Enqueue: a row for a session that may be gone by now.
EnqueueAll(ss, by, plan, kind) ==
    sent' = [s \in Sessions |-> IF s \in ss \cap live THEN [by |-> by, plan |-> plan, kind |-> kind] ELSE sent[s]]

\* enqueueSessions: every session on its own, some may fail.
EnqueueSessions(h, failed) ==
    EnqueueAll(job[h].todo \ failed, "worker", PlanSteps(job[h].kind, View), job[h].kind)

\* handle, from the behaviour on; whether the limit still holds is not asked
\* again.
HandleEnqueue(h) ==
    /\ job[h].at = "enqueue"
    /\ job' = [job EXCEPT ![h] = IdleJob]
    /\ \/ PlanSteps(job[h].kind, View) # Noop /\ EnqueueSessions(h, {}) /\ UNCHANGED faults
       \/ PlanSteps(job[h].kind, View) # Noop /\ Fault /\ \E failed \in SUBSET job[h].todo : EnqueueSessions(h, failed)
       \/ PlanSteps(job[h].kind, View) = Noop /\ UNCHANGED <<sent, faults>>
    /\ UNCHANGED <<acctVars, quotaVars, claims, events, sweepVars, live, timeVars>>

-----------------------------------------------------------------------------
(* the limits sweep                                                        *)

\* resetDailyCountersForProfile
ResetDailyCounters == acct' = [acct EXCEPT !.daily = 0]

\* dailyResetTick: claimed for the day first; an error behind the claim costs
\* the day its reset.
DailyResetTick ==
    \/ (DedupKey("daily_reset") \in claims \/ "daily" \notin cfg.has) /\ UNCHANGED <<claims, acct, faults>>
    \/ "daily" \in cfg.has /\ ClaimEnforcement(DedupKey("daily_reset")) /\ ResetDailyCounters /\ UNCHANGED faults
    \/ "daily" \in cfg.has /\ ClaimEnforcement(DedupKey("daily_reset")) /\ Fault /\ UNCHANGED acct

\* tick: the reset, then a list of every online session.
Tick ==
    /\ sweep = {}
    /\ DailyResetTick
    /\ sweep' = live
    /\ UNCHANGED <<cfg, quotaVars, events, job, mem, lost, coaVars, timeVars>>

\* enforceLimit: the claim is the subscriber's, not the session's, so one
\* session of a cycle is told.
EnforceLimit(s, kind) ==
    LET plan == PlanForOutcome(View, EvaluateLimits(View, FALSE)) IN
    \/ ClaimEnforcement(DedupKey(kind)) /\ EnqueueAll({s}, "limits", plan, kind) /\ UNCHANGED faults
    \/ ClaimEnforcement(DedupKey(kind)) /\ Fault /\ UNCHANGED sent
    \/ DedupKey(kind) \in claims /\ UNCHANGED <<claims, sent, faults>>

\* evaluateSession on an uptime or a daily limit
EvaluateExhausted(s, kind) ==
    /\ kind \in {"uptime", "daily"}
    /\ mem' = [mem EXCEPT ![s] = [Forgotten EXCEPT !.was = TRUE]]
    /\ EnforceLimit(s, kind)
    /\ UNCHANGED lost

\* Expiry and quota belong to the other worker: what was known is dropped.
EvaluateDeferred(s, kind) ==
    /\ kind \in {"expiry", "quota"}
    /\ mem' = [mem EXCEPT ![s] = Forgotten]
    /\ lost' = IF sent[s].by = "limits" THEN lost \cup {s} ELSE lost
    /\ UNCHANGED <<claims, sent, faults>>

\* Mutant: the session is synchronised only when its rate has changed.
EvaluateByRate(s, kind) ==
    LET rate == NormalRate(View, FALSE, IF window = "open" THEN "boost" ELSE "") IN
    /\ kind = "none"
    /\ mem' = [mem EXCEPT ![s] = [was |-> FALSE, seen |-> TRUE, rate |-> rate]]
    /\ \/ mem[s].seen /\ mem[s].rate # rate
          /\ EnqueueAll({s}, "sync", Attrs(rate, ""), "none") /\ UNCHANGED <<lost, faults>>
       \/ ~(mem[s].seen /\ mem[s].rate # rate) /\ UNCHANGED <<sent, lost, faults>>
    /\ UNCHANGED claims

\* No limit holds: the rate is synchronised when it changed, and restored when
\* this process has enforced; a first observation is a baseline.
EvaluateNormal(s, kind) ==
    LET rate == NormalRate(View, FALSE, IF window = "open" THEN "boost" ELSE "")
        sync == mem[s].was \/ (mem[s].seen /\ mem[s].rate # rate) IN
    /\ kind = "none"
    /\ mem' = [mem EXCEPT ![s] = [was |-> FALSE, seen |-> TRUE, rate |-> rate]]
    /\ \/ sync /\ EnqueueAll({s}, "sync", Attrs(rate, ""), "none") /\ UNCHANGED <<lost, faults>>
       \/ sync /\ Fault /\ lost' = lost \cup {s} /\ UNCHANGED sent
       \/ ~sync /\ UNCHANGED <<sent, lost, faults>>
    /\ UNCHANGED claims

\* evaluateSession
EvaluateSession(s) ==
    LET kind == ExhaustedKind(View, FALSE) IN
    /\ s \in sweep
    /\ sweep' = sweep \ {s}
    /\ EvaluateExhausted(s, kind) \/ EvaluateDeferred(s, kind) \/ EvaluateNormal(s, kind)
    /\ UNCHANGED <<acctVars, quotaVars, events, job, live, timeVars>>

-----------------------------------------------------------------------------
(* the time-of-day sweep                                                   *)

\* sweepProfile: every live session of the profile, throttled or not.
SweepProfile(rate) ==
    \/ EnqueueAll(live, "tod", Attrs(rate, ""), "none") /\ UNCHANGED faults
    \/ Fault /\ UNCHANGED sent

\* todEngine.tick: the first observation is a baseline.
TodTick ==
    /\ cfg.timed /\ tod # window
    /\ tod' = window
    /\ IF tod = "unseen" THEN UNCHANGED <<sent, faults>>
       ELSE SweepProfile(IF window = "open" THEN "boost" ELSE "full")
    /\ UNCHANGED <<acctVars, quotaVars, workVars, sweepVars, live, window>>

-----------------------------------------------------------------------------
(* renewals, sessions, time and restarts                                   *)

\* renewInTx: a new expiry and new anchors.  The daily period is not touched.
RenewAccount ==
    acct' = [acct EXCEPT !.lapsed = FALSE, !.status = "active", !.quota = 0, !.uptime = 0]

\* Mutant: the flag is left to the next evaluation.
KeepFlag == UNCHANGED flag /\ raced' = (eval = "over")

\* resetQuota
ResetQuota == flag' = FALSE /\ raced' = (eval = "over")

\* restoreCoA: every live session to full speed.
RestoreCoA ==
    \/ EnqueueAll(live, "renew", Attrs("full", ""), "none") /\ UNCHANGED faults
    \/ Fault /\ UNCHANGED sent

Renew ==
    /\ acct.lapsed \/ acct.quota >= 1
    /\ RenewAccount /\ ResetQuota /\ RestoreCoA
    /\ UNCHANGED <<cfg, eval, workVars, sweepVars, live, timeVars>>

\* A login that the limits let through; it starts from what it is told then.
SessionStarts(s) ==
    /\ s \notin live /\ ~EvaluateLimits(View, FALSE).reject
    /\ live' = live \cup {s}
    /\ sent' = [sent EXCEPT ![s] = NoCoa]
    /\ lost' = lost \ {s}
    /\ mem' = [mem EXCEPT ![s] = Forgotten]      \* the key is a new session's
    /\ UNCHANGED <<acctVars, quotaVars, workVars, sweep, timeVars, faults>>

SessionEnds(s) ==
    /\ s \in live
    /\ live' = live \ {s}
    /\ sent' = [sent EXCEPT ![s] = NoCoa]
    /\ lost' = lost \ {s}
    /\ UNCHANGED <<acctVars, quotaVars, workVars, sweep, mem, timeVars, faults>>

\* The next bucket; the next day too, as far as the daily reset goes.
TimePasses ==
    /\ claims' = {}
    /\ window' \in IF cfg.timed THEN {"open", "closed"} ELSE {window}
    /\ UNCHANGED <<acctVars, quotaVars, events, job, sweepVars, coaVars, tod, faults>>

\* The process restarts: the memory of the sweeps and the events are gone,
\* the claims stay.
Restart ==
    /\ Fault
    /\ events' = {} /\ job' = [h \in Handlers |-> IdleJob]
    /\ sweep' = {} /\ mem' = [s \in Sessions |-> Forgotten]
    /\ lost' = lost \cup {s \in live : sent[s].by = "limits"}
    /\ tod' = "unseen"
    /\ UNCHANGED <<acctVars, quotaVars, claims, coaVars, window>>

EnfNext ==
    \/ \E k \in {"quota", "uptime", "daily"} : Usage(k)
    \/ Evaluate \/ ApplyQuota \/ Lapse \/ SweepOnce
    \/ \E k \in {"quota", "expiry"} : PublishEvent(k)
    \/ \E h \in Handlers :
         \/ \E e \in events : Receive(h, e)
         \/ HandleClaim(h) \/ HandleList(h) \/ HandleEnqueue(h)
    \/ Tick \/ TodTick \/ Renew \/ TimePasses \/ Restart
    \/ \E s \in Sessions : EvaluateSession(s) \/ SessionStarts(s) \/ SessionEnds(s)

EnfSpec == EnfInit /\ [][EnfNext]_enfVars

\* The sweeps and the worker run for the life of the process; nothing else is
\* owed to anybody.
EnfFairness ==
    /\ WF_enfVars(SweepOnce) /\ WF_enfVars(Tick)
    /\ \A h \in Handlers :
         /\ WF_enfVars(\E e \in events : Receive(h, e))
         /\ WF_enfVars(HandleClaim(h)) /\ WF_enfVars(HandleList(h)) /\ WF_enfVars(HandleEnqueue(h))
    /\ \A s \in Sessions : WF_enfVars(EvaluateSession(s))

-----------------------------------------------------------------------------
\* A session the limits sweep restricted is restored by it: as long as its CoA
\* is the last word, the sweep remembers that it has to be undone, unless the
\* process was restarted, the restoring CoA could not be enqueued or another
\* limit took over.
RestoreRemembered ==
    \A s \in live : sent[s].by = "limits" => mem[s].was \/ s \in lost

\* The quota flag tells the truth about the cycle that runs: it is set only
\* for usage since the last renewal, or by an evaluation that was under way
\* while the renewal passed.
QuotaFlagEarned ==
    /\ flag => acct.quota >= 1 \/ raced
    /\ eval = "over" => acct.quota >= 1 \/ raced

\* Auth time and the sweep agree: a session is disconnected exactly when a
\* login would be refused, and throttled to the rate a login would get.
SameVerdict ==
    \A s \in live : sent[s].by = "limits" =>
        LET oc == ResolveAction(cfg.lim[sent[s].kind]) IN
        IF oc.reject THEN sent[s].plan = Disconnect
        ELSE sent[s].plan.rate = ReplyIntents(View, "", FALSE, oc, "").rate

\* "B's enforcement worker moves online sessions to the expired pool or
\* disconnects": an expired account that stays online and unpaid is enforced.
ExpiredEnforced ==
    \A s \in Sessions :
        (s \in live /\ acct.lapsed)
            ~> (s \notin live \/ ~acct.lapsed \/ sent[s].kind = "expiry")

=============================================================================
