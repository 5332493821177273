--------------------------- MODULE NetworkProofs ----------------------------
(***************************************************************************)
(* Proofs about who is let on the network and under which limits: the      *)
(* enforcement workers, the authorization of a login, plans, the registry  *)
(* of routers and the registry of subscribers; for every number of         *)
(* sessions, requests, plans, routers, names and faults, every cap, every  *)
(* timeout and every configuration.                                        *)
(***************************************************************************)
EXTENDS Enforcement, Authorize, Subscribers, Profiles, NasRegistry,
        FiniteSetTheorems, WellFoundedInduction, TLAPS

-----------------------------------------------------------------------------
(* Enforcement.                                                            *)

\* The account and the quota evaluation have their types.
QuotaType ==
    /\ acct \in [status : {"active", "expired"}, lapsed : BOOLEAN,
                 quota : Nat, uptime : Nat, daily : Nat]
    /\ flag \in BOOLEAN /\ raced \in BOOLEAN
    /\ eval \in {"idle", "over", "under"}

\* What a step does to the account, the flag and the evaluation.
LEMMA QuotaStep ==
    ASSUME QuotaType, [EnfNext]_enfVars
    PROVE  \/ /\ flag' = flag /\ eval' = eval /\ raced' = raced
              /\ acct'.quota >= acct.quota
              /\ acct' \in [status : {"active", "expired"}, lapsed : BOOLEAN,
                            quota : Nat, uptime : Nat, daily : Nat]
           \/ Evaluate \/ ApplyQuota \/ Renew
<1> DEFINE A == [status : {"active", "expired"}, lapsed : BOOLEAN,
                 quota : Nat, uptime : Nat, daily : Nat]
<1>0. acct \in A
  BY DEF QuotaType
<1>1. CASE \E k \in {"quota", "uptime", "daily"} : Usage(k)
  <2>1. flag' = flag /\ eval' = eval /\ raced' = raced
    BY <1>1 DEF Usage, quotaVars
  <2>2. CASE acct' = [acct EXCEPT !.quota = 1] /\ acct.quota = 0
    BY <2>2, <1>0, <2>1
  <2>3. CASE acct' = [acct EXCEPT !.uptime = 1]
    BY <2>3, <1>0, <2>1
  <2>4. CASE acct' = [acct EXCEPT !.daily = 1]
    BY <2>4, <1>0, <2>1
  <2>5. PICK k \in {"quota", "uptime", "daily"} : Usage(k)
    BY <1>1
  <2>6. acct' = [acct EXCEPT ![k] = 1] /\ acct[k] = 0
    BY <2>5 DEF Usage
  <2>7. CASE k = "quota"
    BY <2>2, <2>6, <2>7
  <2>8. CASE k = "uptime"
    BY <2>3, <2>6, <2>8
  <2>9. CASE k = "daily"
    BY <2>4, <2>6, <2>9
  <2> QED
    BY <2>7, <2>8, <2>9
<1>2. CASE Lapse
  <2>1. acct' = [acct EXCEPT !.lapsed = TRUE] /\ flag' = flag /\ eval' = eval /\ raced' = raced
    BY <1>2 DEF Lapse, quotaVars
  <2>2. acct' \in A
    BY <2>1, <1>0
  <2>3. acct'.quota = acct.quota /\ acct.quota \in Nat
    BY <2>1, <1>0
  <2> QED
    BY <2>1, <2>2, <2>3
<1>3. CASE SweepOnce
  <2>1. \/ acct' = [acct EXCEPT !.status = "expired"]
        \/ acct' = [acct EXCEPT !.status = "active"]
    BY <1>3 DEF SweepOnce
  <2>2. flag' = flag /\ eval' = eval /\ raced' = raced
    BY <1>3 DEF SweepOnce, quotaVars
  <2> QED
    BY <2>1, <2>2, <1>0
<1>4. CASE Tick
  <2>1. flag' = flag /\ eval' = eval /\ raced' = raced
    BY <1>4 DEF Tick, quotaVars
  <2>2. acct' = acct \/ acct' = [acct EXCEPT !.daily = 0]
    BY <1>4 DEF Tick, DailyResetTick, ResetDailyCounters
  <2> QED
    BY <2>1, <2>2, <1>0
<1>5. CASE UNCHANGED <<acctVars, quotaVars>>
  BY <1>5, <1>0 DEF acctVars, quotaVars
<1>6. CASE \E k \in {"quota", "expiry"} : PublishEvent(k)
  BY <1>5, <1>6 DEF PublishEvent
<1>7. CASE \E h \in Handlers : (\E e \in events : Receive(h, e)) \/ HandleClaim(h)
                                 \/ HandleList(h) \/ HandleEnqueue(h)
  BY <1>5, <1>7 DEF Receive, HandleClaim, HandleList, HandleEnqueue
<1>8. CASE TodTick \/ TimePasses \/ Restart
  BY <1>5, <1>8 DEF TodTick, TimePasses, Restart
<1>9. CASE \E s \in Sessions : EvaluateSession(s) \/ SessionStarts(s) \/ SessionEnds(s)
  BY <1>5, <1>9 DEF EvaluateSession, SessionStarts, SessionEnds
<1>10. CASE UNCHANGED enfVars
  BY <1>5, <1>10 DEF enfVars
<1> QED
  BY <1>1, <1>2, <1>3, <1>4, <1>6, <1>7, <1>8, <1>9, <1>10 DEF EnfNext

\* The quota flag tells the truth about the cycle that runs, for any number
\* of sessions, workers and faults: set only for usage since the last renewal
\* or by an evaluation that was under way while the renewal passed.
THEOREM FlagCorrect == EnfSpec => []QuotaFlagEarned
<1>1. EnfInit => QuotaType /\ QuotaFlagEarned
  <2> SUFFICES ASSUME EnfInit PROVE QuotaType /\ QuotaFlagEarned
    OBVIOUS
  <2>1. /\ acct = [status |-> "active", lapsed |-> FALSE, quota |-> 0, uptime |-> 0, daily |-> 0]
        /\ flag = FALSE /\ eval = "idle" /\ raced = FALSE
    BY DEF EnfInit
  <2> QED
    BY <2>1 DEF QuotaType, QuotaFlagEarned
<1>2. QuotaType /\ QuotaFlagEarned /\ [EnfNext]_enfVars => QuotaType' /\ QuotaFlagEarned'
  <2> SUFFICES ASSUME QuotaType, QuotaFlagEarned, [EnfNext]_enfVars
               PROVE  QuotaType' /\ QuotaFlagEarned'
    OBVIOUS
  <2>1. CASE /\ flag' = flag /\ eval' = eval /\ raced' = raced
             /\ acct'.quota >= acct.quota
             /\ acct' \in [status : {"active", "expired"}, lapsed : BOOLEAN,
                           quota : Nat, uptime : Nat, daily : Nat]
    <3>1. acct.quota \in Nat /\ acct'.quota \in Nat
      BY <2>1 DEF QuotaType
    <3> QED
      BY <2>1, <3>1 DEF QuotaType, QuotaFlagEarned
  <2>2. CASE Evaluate
    BY <2>2 DEF Evaluate, acctVars, QuotaType, QuotaFlagEarned
  <2>3. CASE ApplyQuota
    BY <2>3 DEF ApplyQuota, acctVars, QuotaType, QuotaFlagEarned
  <2>4. CASE Renew
    <3>1. acct' = [acct EXCEPT !.lapsed = FALSE, !.status = "active", !.quota = 0, !.uptime = 0]
      BY <2>4 DEF Renew, RenewAccount
    <3>2. flag' = FALSE /\ raced' = (eval = "over") /\ eval' = eval
      BY <2>4 DEF Renew, ResetQuota
    <3> QED
      BY <3>1, <3>2 DEF QuotaType, QuotaFlagEarned
  <2> QED
    BY <2>1, <2>2, <2>3, <2>4, QuotaStep
<1> QED
  BY <1>1, <1>2, PTL DEF EnfSpec

-----------------------------------------------------------------------------
\* The CoAs and the memory of the sweep are kept by session.
CoaType == DOMAIN sent = Sessions /\ DOMAIN mem = Sessions /\ live \subseteq Sessions

\* The rate an outcome stands for: it depends on the profile alone.
Told(oc) ==
    IF oc.mode = "expired_pool" THEN Or(Or(oc.rate, cfg.throttle), FallbackRate)
    ELSE IF oc.mode = "normal" THEN "full" ELSE Or(oc.rate, "full")

\* The answer to a login carries that rate.
LEMMA ReplyRate ==
    ASSUME NEW o
    PROVE  ReplyIntents(View, "", FALSE, o, "").rate = Told(o)
<1>1. View.rate = "full" /\ View.throttle = cfg.throttle
  BY DEF View
<1>2. CASE o.mode = "expired_pool"
  BY <1>1, <1>2 DEF ReplyIntents, Attrs, ExpiredPoolRate, Told
<1>3. CASE o.mode = "normal"
  <2>1. ReplyIntents(View, "", FALSE, o, "").rate = "full"
    BY <1>1, <1>3 DEF ReplyIntents, Attrs, NormalRate, Or
  <2> QED
    BY <2>1, <1>3 DEF Told
<1>4. CASE o.mode \notin {"expired_pool", "normal"}
  BY <1>1, <1>4 DEF ReplyIntents, Attrs, ThrottleOrSwitchRate, Told
<1> QED
  BY <1>2, <1>3, <1>4

\* resolveAction, read by its result: a block, or a mode that is not normal.
LEMMA ActionModes ==
    ASSUME NEW l
    PROVE  \/ ResolveAction(l).reject /\ ResolveAction(l).mode = "normal"
           \/ /\ ~ResolveAction(l).reject
              /\ ResolveAction(l).mode \in {"throttled", "switch_plan", "expired_pool"}
<1>1. CASE l.action = "throttle"
  BY <1>1 DEF ResolveAction
<1>2. CASE l.action = "expired_pool"
  BY <1>2 DEF ResolveAction
<1>3. CASE l.action = "switch_plan"
  BY <1>3 DEF ResolveAction
<1>4. CASE l.action \notin {"throttle", "expired_pool", "switch_plan"}
  BY <1>4 DEF ResolveAction
<1> QED
  BY <1>1, <1>2, <1>3, <1>4

\* And so does the CoA to a session, unless it is a disconnection.
LEMMA SameRate ==
    ASSUME NEW l, NEW oc, oc = ResolveAction(l)
    PROVE  /\ oc.reject => PlanForOutcome(View, oc) = Disconnect
           /\ ~oc.reject => PlanForOutcome(View, oc).rate = Told(oc)
<1>1. View.rate = "full" /\ View.throttle = cfg.throttle
  BY DEF View
<1>2. \/ oc.reject /\ oc.mode = "normal"
      \/ ~oc.reject /\ oc.mode \in {"throttled", "switch_plan", "expired_pool"}
  BY ActionModes
<1>3. ASSUME ~oc.reject, oc.mode \in {"throttled", "switch_plan"}
      PROVE  PlanForOutcome(View, oc).rate = Told(oc)
  <2>1. PlanForOutcome(View, oc) = Attrs(ThrottleOrSwitchRate(View, oc), oc.pool)
    BY <1>3 DEF PlanForOutcome
  <2>2. ThrottleOrSwitchRate(View, oc) = Told(oc)
    BY <1>3, <1>1 DEF ThrottleOrSwitchRate, Told
  <2> QED
    BY <2>1, <2>2 DEF Attrs
<1>4. ASSUME ~oc.reject, oc.mode = "expired_pool"
      PROVE  PlanForOutcome(View, oc).rate = Told(oc)
  <2>1. PlanForOutcome(View, oc) = Attrs(ExpiredPoolRate(View, oc), ExpiredPoolName(View, oc))
    BY <1>4 DEF PlanForOutcome
  <2>2. ExpiredPoolRate(View, oc) = Told(oc)
    BY <1>4, <1>1 DEF ExpiredPoolRate, Told
  <2> QED
    BY <2>1, <2>2 DEF Attrs
<1>5. ASSUME oc.reject, oc.mode = "normal"
      PROVE  PlanForOutcome(View, oc) = Disconnect
  BY <1>5 DEF PlanForOutcome
<1> QED
  BY <1>2, <1>3, <1>4, <1>5

\* An enqueued CoA reaches the sessions it is meant for that are still there.
LEMMA EnqueueFacts ==
    ASSUME NEW ss, NEW by, NEW plan, NEW kind, EnqueueAll(ss, by, plan, kind)
    PROVE  /\ DOMAIN sent' = Sessions
           /\ \A s \in Sessions :
                sent'[s] = IF s \in ss /\ s \in live THEN [by |-> by, plan |-> plan, kind |-> kind]
                           ELSE sent[s]
BY DEF EnqueueAll

\* A CoA of the limits sweep that stands after a step stood before it, its
\* memory kept or lost on the record, or was sent now from the outcome.
Stands(s) ==
    \/ /\ s \in live /\ sent'[s] = sent[s]
       /\ mem[s].was => mem'[s].was \/ s \in lost'
       /\ s \in lost => s \in lost'
    \/ /\ mem'[s].was
       /\ \E kind \in {"uptime", "daily"} :
            sent'[s] = [by |-> "limits", kind |-> kind,
                        plan |-> PlanForOutcome(View, ResolveAction(cfg.lim[kind]))]

\* The sweep's evaluation of one session.
LEMMA EvaluateStands ==
    ASSUME CoaType, NEW t \in Sessions, EvaluateSession(t),
           NEW s \in live', sent'[s].by = "limits"
    PROVE  Stands(s)
<1> DEFINE kind == ExhaustedKind(View, FALSE)
<1>1. live' = live /\ s \in live /\ s \in Sessions
  BY DEF EvaluateSession, CoaType
<1>2. CASE EvaluateExhausted(t, kind)
  <2>1. /\ kind \in {"uptime", "daily"} /\ lost' = lost
        /\ mem' = [mem EXCEPT ![t] = [Forgotten EXCEPT !.was = TRUE]]
    BY <1>2 DEF EvaluateExhausted
  <2>2. mem'[t].was /\ (s # t => mem'[s] = mem[s])
    BY <2>1, <1>1 DEF CoaType, Forgotten
  <2> DEFINE oc == EvaluateLimits(View, FALSE)
             plan == PlanForOutcome(View, oc)
  <2>3. EvaluateLimits(View, FALSE) = ResolveAction(cfg.lim[kind])
    <3>1. View.lim = cfg.lim
      BY DEF View
    <3>2. EvaluateLimits(View, FALSE) = IF kind = "none" THEN Normal ELSE ResolveAction(View.lim[kind])
      BY DEF EvaluateLimits
    <3> HIDE DEF kind
    <3> QED
      BY <2>1, <3>1, <3>2
  <2>4. EnqueueAll({t}, "limits", plan, kind) \/ sent' = sent
    BY <1>2 DEF EvaluateExhausted, EnforceLimit
  <2> HIDE DEF kind
  <2>5. CASE sent' = sent
    BY <2>5, <2>1, <2>2, <1>1 DEF Stands
  <2>6. CASE EnqueueAll({t}, "limits", plan, kind)
    <3>1. sent'[s] = IF s = t THEN [by |-> "limits", plan |-> plan, kind |-> kind] ELSE sent[s]
      <4> HIDE DEF plan
      <4> QED
        BY <2>6, <1>1, EnqueueFacts
    <3>2. CASE s = t
      <4>1. plan = PlanForOutcome(View, ResolveAction(cfg.lim[kind]))
        BY <2>3
      <4> HIDE DEF plan
      <4> QED
        BY <3>1, <3>2, <4>1, <2>1, <2>2 DEF Stands
    <3>3. CASE s # t
      BY <3>1, <3>3, <2>1, <2>2, <1>1 DEF Stands
    <3> QED
      BY <3>2, <3>3
  <2> QED
    BY <2>4, <2>5, <2>6
<1>3. CASE EvaluateDeferred(t, kind)
  <2>1. /\ mem' = [mem EXCEPT ![t] = Forgotten] /\ sent' = sent
        /\ lost' = IF sent[t].by = "limits" THEN lost \cup {t} ELSE lost
    BY <1>3 DEF EvaluateDeferred
  <2> QED
    BY <2>1, <1>1 DEF Stands, CoaType
<1>4. CASE EvaluateNormal(t, kind)
  <2> DEFINE rate == NormalRate(View, FALSE, IF window = "open" THEN "boost" ELSE "")
             sync == mem[t].was \/ (mem[t].seen /\ mem[t].rate # rate)
  <2>1. mem' = [mem EXCEPT ![t] = [was |-> FALSE, seen |-> TRUE, rate |-> rate]]
    BY <1>4 DEF EvaluateNormal
  <2>2. \/ EnqueueAll({t}, "sync", Attrs(rate, ""), "none") /\ lost' = lost
        \/ lost' = lost \cup {t} /\ sent' = sent
        \/ ~mem[t].was /\ sent' = sent /\ lost' = lost
    BY <1>4 DEF EvaluateNormal
  <2> HIDE DEF rate
  <2>3. s # t => mem'[s] = mem[s]
    BY <2>1, <1>1 DEF CoaType
  <2>4. CASE EnqueueAll({t}, "sync", Attrs(rate, ""), "none") /\ lost' = lost
    <3> DEFINE plan == Attrs(rate, "")
    <3> HIDE DEF plan
    <3>0. EnqueueAll({t}, "sync", plan, "none")
      BY <2>4 DEF plan
    <3>1. sent'[s] = IF s = t THEN [by |-> "sync", plan |-> plan, kind |-> "none"] ELSE sent[s]
      BY <3>0, <1>1, EnqueueFacts
    <3>2. s # t /\ sent'[s] = sent[s]
      BY <3>1
    <3> QED
      BY <2>3, <2>4, <3>2, <1>1 DEF Stands
  <2>5. CASE lost' = lost \cup {t} /\ sent' = sent
    BY <2>3, <2>5, <1>1 DEF Stands
  <2>6. CASE ~mem[t].was /\ sent' = sent /\ lost' = lost
    BY <2>3, <2>6, <1>1 DEF Stands
  <2> QED
    BY <2>2, <2>4, <2>5, <2>6
<1> QED
  BY <1>2, <1>3, <1>4 DEF EvaluateSession

\* A CoA of another worker replaces the sweep's or passes it by.
LEMMA OtherStands ==
    ASSUME CoaType, NEW ss, NEW by, NEW plan, NEW kind, EnqueueAll(ss, by, plan, kind),
           by # "limits", live' = live, lost' = lost, mem' = mem,
           NEW s \in live', sent'[s].by = "limits"
    PROVE  Stands(s)
<1>1. s \in Sessions /\ s \in live
  BY DEF CoaType
<1>2. sent'[s] = IF s \in ss /\ s \in live THEN [by |-> by, plan |-> plan, kind |-> kind] ELSE sent[s]
  BY <1>1, EnqueueFacts
<1>3. sent'[s] = sent[s]
  BY <1>2
<1> QED
  BY <1>1, <1>3 DEF Stands

LEMMA StandsNext ==
    ASSUME CoaType, [EnfNext]_enfVars, NEW s \in live', sent'[s].by = "limits"
    PROVE  Stands(s)
<1>0. ASSUME UNCHANGED <<live, sent>>, UNCHANGED <<mem, lost>> PROVE Stands(s)
  BY <1>0 DEF Stands
<1>1. CASE \E k \in {"quota", "uptime", "daily"} : Usage(k)
  BY <1>0, <1>1 DEF Usage, coaVars, sweepVars
<1>2. CASE Evaluate \/ ApplyQuota \/ Lapse \/ SweepOnce
  BY <1>0, <1>2 DEF Evaluate, ApplyQuota, Lapse, SweepOnce, coaVars, sweepVars
<1>3. CASE \E k \in {"quota", "expiry"} : PublishEvent(k)
  BY <1>0, <1>3 DEF PublishEvent, coaVars, sweepVars
<1>4. CASE \E h \in Handlers : (\E e \in events : Receive(h, e)) \/ HandleClaim(h) \/ HandleList(h)
  BY <1>0, <1>4 DEF Receive, HandleClaim, HandleList, coaVars, sweepVars
<1>5. CASE \E h \in Handlers : HandleEnqueue(h)
  <2>1. PICK h \in Handlers : HandleEnqueue(h)
    BY <1>5
  <2>2. live' = live /\ lost' = lost /\ mem' = mem
    BY <2>1 DEF HandleEnqueue, sweepVars
  <2>3. sent' = sent \/ \E failed : EnqueueSessions(h, failed)
    BY <2>1 DEF HandleEnqueue
  <2>4. ASSUME NEW failed, EnqueueSessions(h, failed) PROVE Stands(s)
    <3> DEFINE ss == job[h].todo \ failed
               plan == PlanSteps(job[h].kind, View)
               k == job[h].kind
    <3>1. EnqueueAll(ss, "worker", plan, k)
      BY <2>4 DEF EnqueueSessions
    <3> HIDE DEF ss, plan, k
    <3> QED
      BY <3>1, <2>2, OtherStands
  <2> QED
    BY <2>2, <2>3, <2>4, <1>0
<1>6. CASE Tick
  BY <1>0, <1>6 DEF Tick, coaVars
<1>7. CASE TodTick
  <2>1. live' = live /\ lost' = lost /\ mem' = mem
    BY <1>7 DEF TodTick, sweepVars
  <2>2. sent' = sent \/ \E rate : EnqueueAll(live, "tod", Attrs(rate, ""), "none")
    BY <1>7 DEF TodTick, SweepProfile
  <2>3. ASSUME NEW rate, EnqueueAll(live, "tod", Attrs(rate, ""), "none") PROVE Stands(s)
    <3> DEFINE plan == Attrs(rate, "")
    <3>1. EnqueueAll(live, "tod", plan, "none")
      BY <2>3
    <3> HIDE DEF plan
    <3> QED
      BY <3>1, <2>1, OtherStands
  <2> QED
    BY <2>1, <2>2, <2>3, <1>0
<1>8. CASE Renew
  <2>1. live' = live /\ lost' = lost /\ mem' = mem
    BY <1>8 DEF Renew, sweepVars
  <2> DEFINE plan == Attrs("full", "")
  <2>2. sent' = sent \/ EnqueueAll(live, "renew", plan, "none")
    BY <1>8 DEF Renew, RestoreCoA
  <2> HIDE DEF plan
  <2> QED
    BY <2>1, <2>2, <1>0, OtherStands
<1>9. CASE TimePasses
  BY <1>0, <1>9 DEF TimePasses, coaVars, sweepVars
<1>10. CASE Restart
  BY <1>10 DEF Restart, coaVars, Stands
<1>11. CASE \E t \in Sessions : EvaluateSession(t)
  BY <1>11, EvaluateStands
<1>12. CASE \E t \in Sessions : SessionStarts(t)
  <2>1. PICK t \in Sessions : SessionStarts(t)
    BY <1>12
  <2>2. /\ live' = live \cup {t} /\ sent' = [sent EXCEPT ![t] = NoCoa]
        /\ lost' = lost \ {t} /\ mem' = [mem EXCEPT ![t] = Forgotten]
    BY <2>1 DEF SessionStarts
  <2>3. s # t
    BY <2>2 DEF NoCoa, CoaType
  <2> QED
    BY <2>2, <2>3 DEF Stands, CoaType
<1>13. CASE \E t \in Sessions : SessionEnds(t)
  <2>1. PICK t \in Sessions : SessionEnds(t)
    BY <1>13
  <2>2. /\ live' = live \ {t} /\ sent' = [sent EXCEPT ![t] = NoCoa]
        /\ lost' = lost \ {t} /\ mem' = mem
    BY <2>1 DEF SessionEnds
  <2> QED
    BY <2>2 DEF Stands, CoaType
<1>14. CASE UNCHANGED enfVars
  BY <1>0, <1>14 DEF enfVars, coaVars, sweepVars
<1> QED
  BY <1>1, <1>2, <1>3, <1>4, <1>5, <1>6, <1>7, <1>8, <1>9, <1>10, <1>11, <1>12, <1>13, <1>14 DEF EnfNext

\* Every step keeps the sessions' rows in place and the profile as it is.
LEMMA CoaTypeNext ==
    ASSUME CoaType, [EnfNext]_enfVars
    PROVE  CoaType' /\ cfg' = cfg
<1>1. cfg' = cfg
  <2>1. CASE \E h \in Handlers : (\E e \in events : Receive(h, e)) \/ HandleClaim(h)
                                   \/ HandleList(h) \/ HandleEnqueue(h)
    BY <2>1 DEF Receive, HandleClaim, HandleList, HandleEnqueue, acctVars
  <2>2. CASE \E s \in Sessions : EvaluateSession(s) \/ SessionStarts(s) \/ SessionEnds(s)
    BY <2>2 DEF EvaluateSession, SessionStarts, SessionEnds, acctVars
  <2>3. CASE UNCHANGED enfVars
    BY <2>3 DEF enfVars, acctVars
  <2> QED
    BY <2>1, <2>2, <2>3 DEF EnfNext, Usage, Evaluate, ApplyQuota, Lapse, SweepOnce, PublishEvent,
       Tick, TodTick, Renew, TimePasses, Restart, acctVars
<1>2. DOMAIN sent' = Sessions
  <2>1. \/ sent' = sent
        \/ \E ss, by, plan, kind : EnqueueAll(ss, by, plan, kind)
        \/ \E s \in Sessions : sent' = [sent EXCEPT ![s] = NoCoa]
    <3>1. CASE \E h \in Handlers : (\E e \in events : Receive(h, e)) \/ HandleClaim(h)
                                     \/ HandleList(h)
      BY <3>1 DEF Receive, HandleClaim, HandleList, coaVars
    <3>2. CASE \E h \in Handlers : HandleEnqueue(h)
      BY <3>2 DEF HandleEnqueue, EnqueueSessions
    <3>3. CASE \E s \in Sessions : EvaluateSession(s)
      BY <3>3 DEF EvaluateSession, EvaluateExhausted, EnforceLimit, EvaluateDeferred, EvaluateNormal
    <3>4. CASE \E s \in Sessions : SessionStarts(s) \/ SessionEnds(s)
      BY <3>4 DEF SessionStarts, SessionEnds
    <3>5. CASE TodTick \/ Renew
      BY <3>5 DEF TodTick, SweepProfile, Renew, RestoreCoA
    <3>6. CASE UNCHANGED enfVars
      BY <3>6 DEF enfVars, coaVars
    <3> QED
      BY <3>1, <3>2, <3>3, <3>4, <3>5, <3>6 DEF EnfNext, Usage, Evaluate, ApplyQuota, Lapse,
         SweepOnce, PublishEvent, Tick, TimePasses, Restart, coaVars
  <2> QED
    BY <2>1, EnqueueFacts DEF CoaType
<1>3. DOMAIN mem' = Sessions
  <2>1. \/ mem' = mem \/ mem' = [s \in Sessions |-> Forgotten]
        \/ \E s \in Sessions : \E m : mem' = [mem EXCEPT ![s] = m]
    <3>1. CASE \E h \in Handlers : (\E e \in events : Receive(h, e)) \/ HandleClaim(h)
                                     \/ HandleList(h) \/ HandleEnqueue(h)
      BY <3>1 DEF Receive, HandleClaim, HandleList, HandleEnqueue, sweepVars
    <3>2. CASE \E s \in Sessions : EvaluateSession(s)
      BY <3>2 DEF EvaluateSession, EvaluateExhausted, EvaluateDeferred, EvaluateNormal
    <3>3. CASE \E s \in Sessions : SessionStarts(s) \/ SessionEnds(s)
      BY <3>3 DEF SessionStarts, SessionEnds
    <3>4. CASE UNCHANGED enfVars
      BY <3>4 DEF enfVars, sweepVars
    <3> QED
      BY <3>1, <3>2, <3>3, <3>4 DEF EnfNext, Usage, Evaluate, ApplyQuota, Lapse, SweepOnce,
         PublishEvent, Tick, TodTick, Renew, TimePasses, Restart, sweepVars
  <2> QED
    BY <2>1 DEF CoaType
<1>4. live' \subseteq Sessions
  <2>1. CASE \E h \in Handlers : (\E e \in events : Receive(h, e)) \/ HandleClaim(h)
                                   \/ HandleList(h) \/ HandleEnqueue(h)
    BY <2>1 DEF Receive, HandleClaim, HandleList, HandleEnqueue, coaVars, CoaType
  <2>2. CASE \E s \in Sessions : EvaluateSession(s) \/ SessionStarts(s) \/ SessionEnds(s)
    BY <2>2 DEF EvaluateSession, SessionStarts, SessionEnds, CoaType
  <2>3. CASE UNCHANGED enfVars
    BY <2>3 DEF enfVars, coaVars, CoaType
  <2> QED
    BY <2>1, <2>2, <2>3 DEF EnfNext, Usage, Evaluate, ApplyQuota, Lapse, SweepOnce, PublishEvent,
       Tick, TodTick, Renew, TimePasses, Restart, coaVars, CoaType
<1> QED
  BY <1>1, <1>2, <1>3, <1>4 DEF CoaType

LEMMA CoaTyped == EnfSpec => []CoaType
<1>1. EnfInit => CoaType
  <2> SUFFICES ASSUME EnfInit PROVE CoaType
    OBVIOUS
  <2>1. sent = [s \in Sessions |-> NoCoa] /\ mem = [s \in Sessions |-> Forgotten] /\ live = {}
    BY DEF EnfInit
  <2> QED
    BY <2>1 DEF CoaType
<1>2. CoaType /\ [EnfNext]_enfVars => CoaType'
  BY CoaTypeNext
<1> QED
  BY <1>1, <1>2, PTL DEF EnfSpec

\* A session the limits sweep restricted is one it will restore, or one whose
\* loss is on record: a restart, a CoA that could not be enqueued, a limit of
\* the other worker.  For any number of sessions, workers and faults.
THEOREM RestoreCorrect == EnfSpec => []RestoreRemembered
<1>1. EnfInit => RestoreRemembered
  BY DEF EnfInit, RestoreRemembered
<1>2. CoaType /\ RestoreRemembered /\ [EnfNext]_enfVars => RestoreRemembered'
  <2> SUFFICES ASSUME CoaType, RestoreRemembered, [EnfNext]_enfVars,
                      NEW s \in live', sent'[s].by = "limits"
               PROVE  mem'[s].was \/ s \in lost'
    BY DEF RestoreRemembered
  <2>1. Stands(s)
    BY StandsNext
  <2> QED
    BY <2>1 DEF Stands, RestoreRemembered
<1> QED
  BY <1>1, <1>2, CoaTyped, PTL DEF EnfSpec

\* Auth time and the limits sweep agree, whatever the profile: a session is
\* disconnected exactly when a login would be refused, and throttled to the
\* rate a login would get.
THEOREM VerdictCorrect == EnfSpec => []SameVerdict
<1> DEFINE Fair(c) == IF ResolveAction(cfg.lim[c.kind]).reject THEN c.plan = Disconnect
                      ELSE c.plan.rate = Told(ResolveAction(cfg.lim[c.kind]))
           FairInv == \A s \in live : sent[s].by = "limits" => Fair(sent[s])
<1>1. EnfInit => FairInv
  BY DEF EnfInit
<1>2. CoaType /\ FairInv /\ [EnfNext]_enfVars => FairInv'
  <2> SUFFICES ASSUME CoaType, FairInv, [EnfNext]_enfVars,
                      NEW s \in live', sent'[s].by = "limits"
               PROVE  Fair(sent[s])'
    OBVIOUS
  <2>1. Stands(s) /\ cfg' = cfg
    BY StandsNext, CoaTypeNext
  <2>2. CASE s \in live /\ sent'[s] = sent[s]
    <3>1. Fair(sent[s])
      BY <2>2
    <3> QED
      BY <3>1, <2>1, <2>2 DEF Told
  <2>3. CASE \E kind \in {"uptime", "daily"} :
               sent'[s] = [by |-> "limits", kind |-> kind,
                           plan |-> PlanForOutcome(View, ResolveAction(cfg.lim[kind]))]
    <3>1. PICK kind \in {"uptime", "daily"} :
               sent'[s] = [by |-> "limits", kind |-> kind,
                           plan |-> PlanForOutcome(View, ResolveAction(cfg.lim[kind]))]
      BY <2>3
    <3> DEFINE oc == ResolveAction(cfg.lim[kind])
               plan == PlanForOutcome(View, oc)
    <3>2. /\ oc.reject => plan = Disconnect
          /\ ~oc.reject => plan.rate = Told(oc)
      BY SameRate
    <3>3. sent'[s].kind = kind /\ sent'[s].plan = plan
      BY <3>1
    <3>4. IF oc.reject THEN plan = Disconnect ELSE plan.rate = Told(oc)
      BY <3>2
    <3> QED
      BY <3>3, <3>4, <2>1 DEF Told
  <2> QED
    BY <2>1, <2>2, <2>3 DEF Stands
<1>3. FairInv => SameVerdict
  <2> SUFFICES ASSUME FairInv, NEW s \in live, sent[s].by = "limits"
               PROVE  LET oc == ResolveAction(cfg.lim[sent[s].kind]) IN
                      IF oc.reject THEN sent[s].plan = Disconnect
                      ELSE sent[s].plan.rate = ReplyIntents(View, "", FALSE, oc, "").rate
    BY DEF SameVerdict
  <2> DEFINE o == ResolveAction(cfg.lim[sent[s].kind])
  <2>1. ReplyIntents(View, "", FALSE, o, "").rate = Told(o)
    BY ReplyRate
  <2>2. Fair(sent[s])
    OBVIOUS
  <2> QED
    BY <2>1, <2>2
<1> QED
  BY <1>1, <1>2, <1>3, CoaTyped, PTL DEF EnfSpec

-----------------------------------------------------------------------------
(* Authorization.                                                          *)

Phases == {"idle", "get", "load", "fill", "decide", "learned"}
Request == [at : Phases, ver : Nat, exh : BOOLEAN, age : Nat]

\* The account's history is a sequence of versions, the last one in force;
\* requests and the cached view name one of them by its number.
HistType == \E A, M : hist \in Seq([acct : A, mac : M, gone : Nat])

AuthType ==
    /\ HistType
    /\ Len(hist) > 0 /\ Row.gone = 0
    /\ reqs \in [Reqs -> Request]
    /\ cache \subseteq [ver : Nat, exh : BOOLEAN, ttl : Nat]
    /\ qkey \in BOOLEAN

\* Plain facts about the history.
LEMMA HistFacts ==
    ASSUME AuthType
    PROVE  /\ Len(hist) \in Nat /\ Len(hist) > 0 /\ DOMAIN hist = 1..Len(hist)
           /\ \A v \in 1..Len(hist) : hist[v].gone \in Nat
           /\ hist[Len(hist)].gone = 0
<1>1. PICK A, M : hist \in Seq([acct : A, mac : M, gone : Nat])
  BY DEF AuthType, HistType
<1> DEFINE S == [acct : A, mac : M, gone : Nat]
<1>2. hist \in Seq(S)
  BY <1>1
<1>3. \A w \in S : w.gone \in Nat
  OBVIOUS
<1> HIDE DEF S
<1>4. Len(hist) \in Nat /\ DOMAIN hist = 1..Len(hist) /\ \A v \in 1..Len(hist) : hist[v] \in S
  BY <1>2
<1> QED
  BY <1>3, <1>4 DEF AuthType, Row

\* A new version: the old ones stay, the new one is the row.
LEMMA WriteFacts ==
    ASSUME AuthType, NEW a, NEW m, Write(a, m)
    PROVE  /\ HistType'
           /\ Len(hist') = Len(hist) + 1 /\ Row'.gone = 0
           /\ \A v \in 1..Len(hist) : hist'[v] = hist[v]
<1>1. PICK A, M : hist \in Seq([acct : A, mac : M, gone : Nat])
  BY DEF AuthType, HistType
<1> DEFINE S == [acct : A, mac : M, gone : Nat]
           T == [acct : A \cup {a}, mac : M \cup {m}, gone : Nat]
           x == [acct |-> a, mac |-> m, gone |-> 0]
<1>2. S \subseteq T /\ x \in T
  OBVIOUS
<1>3. hist \in Seq(S) /\ hist' = Append(hist, x)
  BY <1>1 DEF Write
<1>4. x.gone = 0
  OBVIOUS
<1> HIDE DEF S, T, x
<1>5. hist \in Seq(T)
  BY <1>2, <1>3
<1>6. /\ hist' \in Seq(T) /\ Len(hist') = Len(hist) + 1
      /\ hist'[Len(hist) + 1] = x /\ \A v \in 1..Len(hist) : hist'[v] = hist[v]
  BY <1>2, <1>3, <1>5
<1>7. HistType'
  BY <1>6 DEF HistType, T
<1> QED
  BY <1>4, <1>6, <1>7 DEF Row

\* A tick: the versions that are replaced age, the row does not.
LEMMA TickHist ==
    ASSUME AuthType, AuthTick
    PROVE  /\ HistType'
           /\ Len(hist') = Len(hist) /\ Row'.gone = 0
           /\ \A v \in 1..Len(hist) : hist'[v].gone <= hist[v].gone + 1
<1>1. PICK A, M : hist \in Seq([acct : A, mac : M, gone : Nat])
  BY DEF AuthType, HistType
<1> DEFINE S == [acct : A, mac : M, gone : Nat]
<1>2. \A v \in 1..Len(hist) : hist[v] \in S
  <2>1. hist \in Seq(S)
    BY <1>1
  <2> HIDE DEF S
  <2> QED
    BY <2>1
<1>3. Len(hist) \in Nat /\ Len(hist) > 0 /\ hist[Len(hist)].gone = 0
  BY HistFacts
<1>4. hist' = [v \in 1..Len(hist) |-> IF v = Len(hist) \/ hist[v].gone > Stale THEN hist[v]
                                      ELSE [hist[v] EXCEPT !.gone = @ + 1]]
  BY DEF AuthTick, RowVer
<1>5. ASSUME NEW v \in 1..Len(hist)
      PROVE  /\ hist'[v] \in S /\ hist'[v].gone <= hist[v].gone + 1
             /\ v = Len(hist) => hist'[v] = hist[v]
  <2>1. CASE hist'[v] = hist[v]
    BY <1>2, <2>1
  <2>2. CASE hist'[v] = [hist[v] EXCEPT !.gone = @ + 1] /\ v # Len(hist)
    BY <1>2, <2>2
  <2> QED
    BY <1>4, <2>1, <2>2
<1>6. hist' \in [1..Len(hist) -> S]
  BY <1>4, <1>5
<1> HIDE DEF S
<1>7. hist' \in Seq(S) /\ Len(hist') = Len(hist)
  BY <1>3, <1>6
<1>8. HistType'
  BY <1>7 DEF HistType, S
<1>9. Row'.gone = 0
  BY <1>3, <1>5, <1>7 DEF Row
<1> QED
  BY <1>5, <1>7, <1>8, <1>9

\* One request changes, the others stay.
Moves(r, w) == reqs' = [reqs EXCEPT ![r] = w]

LEMMA MovesFacts ==
    ASSUME AuthType, NEW r \in Reqs, NEW w \in Request, Moves(r, w)
    PROVE  /\ reqs' \in [Reqs -> Request] /\ reqs'[r] = w
           /\ \A q \in Reqs \ {r} : reqs'[q] = reqs[q]
BY DEF AuthType, Moves

\* How a step writes a request: its place, its quota bit.
LEMMA SetAt ==
    ASSUME AuthType, NEW r \in Reqs, NEW a \in Phases, reqs' = [reqs EXCEPT ![r].at = a]
    PROVE  \E w \in Request : Moves(r, w) /\ w.at = a /\ w.age = reqs[r].age
<1> DEFINE q == reqs[r]
           w == [q EXCEPT !.at = a]
<1>1. reqs \in [Reqs -> Request] /\ q \in Request
  BY DEF AuthType
<1>2. reqs' = [reqs EXCEPT ![r] = w]
  BY <1>1
<1> HIDE DEF q
<1>3. w \in Request /\ w.at = a /\ w.age = q.age
  BY <1>1 DEF Request
<1> HIDE DEF w
<1> QED
  BY <1>2, <1>3 DEF Moves, q

LEMMA SetExh ==
    ASSUME AuthType, NEW r \in Reqs, NEW a \in Phases, NEW e \in BOOLEAN,
           reqs' = [reqs EXCEPT ![r].at = a, ![r].exh = e]
    PROVE  \E w \in Request : Moves(r, w) /\ w.at = a /\ w.ver = reqs[r].ver /\ w.age = reqs[r].age
<1> DEFINE q == reqs[r]
           w == [q EXCEPT !.at = a, !.exh = e]
<1>1. reqs \in [Reqs -> Request] /\ q \in Request
  BY DEF AuthType
<1>2. reqs' = [reqs EXCEPT ![r] = w]
  BY <1>1
<1> HIDE DEF q
<1>3. w \in Request /\ w.at = a /\ w.ver = q.ver /\ w.age = q.age
  BY <1>1 DEF Request
<1> HIDE DEF w
<1> QED
  BY <1>2, <1>3 DEF Moves, q

\* What a step other than a tick does to the requests and the cached view.
ReqStep(r) ==
    \/ reqs'[r] = reqs[r]
    \/ /\ reqs'[r].at \in {"idle", "get", "load", "learned"}
       /\ reqs'[r].age \in {0, reqs[r].age}
    \/ /\ reqs'[r].at = "fill" /\ reqs'[r].ver = RowVer /\ reqs'[r].age = reqs[r].age
       /\ hist' = hist
    \/ /\ reqs'[r].at = "decide" /\ reqs'[r].age = reqs[r].age /\ hist' = hist
       /\ \/ \E c \in cache : reqs'[r].ver = c.ver
          \/ reqs[r].at = "fill" /\ reqs'[r].ver = reqs[r].ver

CacheStep ==
    \A c \in cache' :
        \/ c \in cache
        \/ \E r \in Reqs : reqs[r].at = "fill" /\ hist' = hist
               /\ c = [ver |-> reqs[r].ver, exh |-> reqs[r].exh, ttl |-> ViewTTL]

HistStep == hist' = hist \/ \E a, m : Write(a, m)

AuthEffect ==
    /\ reqs' \in [Reqs -> Request] /\ qkey' \in BOOLEAN
    /\ \A r \in Reqs : ReqStep(r)
    /\ CacheStep /\ HistStep

\* Idle, as a request.
LEMMA IdleRequest == Idle \in Request /\ Idle.at = "idle" /\ Idle.age = 0
BY DEF Idle, Request, Phases

\* A request that moves on its own.
LEMMA MoveEffect ==
    ASSUME AuthType, NEW r \in Reqs, NEW w \in Request, Moves(r, w),
           w.at \in {"idle", "get", "load", "learned"}, w.age \in {0, reqs[r].age}
    PROVE  reqs' \in [Reqs -> Request] /\ \A q \in Reqs : ReqStep(q)
<1>1. /\ reqs' \in [Reqs -> Request] /\ reqs'[r] = w
      /\ \A q \in Reqs \ {r} : reqs'[q] = reqs[q]
  BY MovesFacts
<1> QED
  BY <1>1 DEF ReqStep

LEMMA AuthStep ==
    ASSUME AuthType, [AuthNext]_authVars, ~AuthTick
    PROVE  AuthEffect
<1>0. reqs \in [Reqs -> Request] /\ qkey \in BOOLEAN
  BY DEF AuthType
<1>1. ASSUME NEW r \in Reqs, Arrive(r) PROVE AuthEffect
  <2>1. reqs' = [reqs EXCEPT ![r].at = "get"] /\ "get" \in Phases
    BY <1>1 DEF Arrive, Phases
  <2>2. PICK w \in Request : Moves(r, w) /\ w.at = "get" /\ w.age = reqs[r].age
    BY <2>1, SetAt
  <2>4. reqs' \in [Reqs -> Request] /\ \A q \in Reqs : ReqStep(q)
    BY <2>2, MoveEffect
  <2> QED
    BY <1>0, <1>1, <2>4 DEF AuthEffect, CacheStep, HistStep, Arrive
<1>2. ASSUME NEW r \in Reqs, ResolveView(r) PROVE AuthEffect
  <2>0. hist' = hist /\ cache' = cache /\ qkey' = qkey
    BY <1>2 DEF ResolveView
  <2>1. CASE reqs' = [reqs EXCEPT ![r].at = "load"]
    <3>1. "load" \in Phases
      BY DEF Phases
    <3>2. PICK w \in Request : Moves(r, w) /\ w.at = "load" /\ w.age = reqs[r].age
      BY <2>1, <3>1, SetAt
    <3>3. reqs' \in [Reqs -> Request] /\ \A q \in Reqs : ReqStep(q)
      BY <3>2, MoveEffect
    <3> QED
      BY <1>0, <2>0, <3>3 DEF AuthEffect, CacheStep, HistStep
  <2>2. ASSUME NEW c \in cache,
               reqs' = [reqs EXCEPT ![r].at = "decide", ![r].ver = c.ver, ![r].exh = OverlayQuota(c.exh)]
        PROVE  AuthEffect
    <3>0. c.ver \in Nat /\ OverlayQuota(c.exh) \in BOOLEAN
      BY DEF AuthType, OverlayQuota
    <3> DEFINE e == OverlayQuota(c.exh)
               v == c.ver
    <3>1. e \in BOOLEAN /\ v \in Nat /\ reqs' = [reqs EXCEPT ![r].at = "decide", ![r].ver = v, ![r].exh = e]
      BY <2>2, <3>0
    <3> HIDE DEF e, v
    <3> DEFINE q == reqs[r]
               w == [q EXCEPT !.at = "decide", !.ver = v, !.exh = e]
    <3>2. w \in Request /\ Moves(r, w) /\ w.at = "decide" /\ w.ver = v /\ w.age = reqs[r].age
      <4>1. q \in Request /\ reqs' = [reqs EXCEPT ![r] = w]
        BY <1>0, <3>1
      <4> HIDE DEF q
      <4>2. w \in Request /\ w.at = "decide" /\ w.ver = v /\ w.age = q.age
        BY <3>1, <4>1 DEF Request, Phases
      <4> HIDE DEF w
      <4> QED
        BY <4>1, <4>2 DEF Moves, q
    <3> HIDE DEF w
    <3>3. /\ reqs' \in [Reqs -> Request] /\ reqs'[r] = w
          /\ \A k \in Reqs \ {r} : reqs'[k] = reqs[k]
      BY <3>2, MovesFacts
    <3>4. ReqStep(r)
      BY <2>0, <3>2, <3>3 DEF ReqStep, v
    <3>5. \A k \in Reqs \ {r} : ReqStep(k)
      BY <3>3 DEF ReqStep
    <3> QED
      BY <1>0, <2>0, <3>3, <3>4, <3>5 DEF AuthEffect, CacheStep, HistStep
  <2> QED
    BY <1>2, <2>1, <2>2 DEF ResolveView
<1>3. ASSUME NEW r \in Reqs, LoadView(r) PROVE AuthEffect
  <2>0. hist' = hist /\ cache' = cache /\ qkey' = qkey
    BY <1>3 DEF LoadView
  <2>1. CASE Moves(r, Idle)
    <3>1. reqs' \in [Reqs -> Request] /\ \A q \in Reqs : ReqStep(q)
      BY <2>1, IdleRequest, MoveEffect
    <3> QED
      BY <1>0, <2>0, <3>1 DEF AuthEffect, CacheStep, HistStep
  <2>2. CASE reqs' = [reqs EXCEPT ![r].at = "fill", ![r].ver = RowVer, ![r].exh = qkey]
    <3>1. RowVer \in Nat /\ "fill" \in Phases
      BY HistFacts DEF RowVer, Phases
    <3> DEFINE q == reqs[r]
               w == [q EXCEPT !.at = "fill", !.ver = RowVer, !.exh = qkey]
    <3>2. w \in Request /\ Moves(r, w) /\ w.at = "fill" /\ w.ver = RowVer /\ w.age = reqs[r].age
      <4>1. q \in Request /\ reqs' = [reqs EXCEPT ![r] = w]
        BY <1>0, <2>2
      <4> HIDE DEF q
      <4>2. w \in Request /\ w.at = "fill" /\ w.ver = RowVer /\ w.age = q.age
        BY <1>0, <3>1, <4>1 DEF Request, Phases
      <4> HIDE DEF w
      <4> QED
        BY <4>1, <4>2 DEF Moves, q
    <3> HIDE DEF w
    <3>3. /\ reqs' \in [Reqs -> Request] /\ reqs'[r] = w
          /\ \A k \in Reqs \ {r} : reqs'[k] = reqs[k]
      BY <3>2, MovesFacts
    <3>4. \A k \in Reqs : ReqStep(k)
      BY <2>0, <3>2, <3>3 DEF ReqStep
    <3> QED
      BY <1>0, <2>0, <3>3, <3>4 DEF AuthEffect, CacheStep, HistStep
  <2> QED
    BY <1>3, <2>1, <2>2 DEF LoadView, Moves
<1>4. ASSUME NEW r \in Reqs, FillView(r) PROVE AuthEffect
  <2>0. hist' = hist /\ qkey' = qkey /\ reqs[r].at = "fill"
    BY <1>4 DEF FillView
  <2> DEFINE e == OverlayQuota(reqs[r].exh)
  <2>1. e \in BOOLEAN /\ "decide" \in Phases
    BY DEF OverlayQuota, Phases
  <2>2. reqs' = [reqs EXCEPT ![r].at = "decide", ![r].exh = e]
    BY <1>0, <1>4 DEF FillView, Request
  <2> HIDE DEF e
  <2>3. PICK w \in Request : Moves(r, w) /\ w.at = "decide" /\ w.ver = reqs[r].ver /\ w.age = reqs[r].age
    BY <2>1, <2>2, SetExh
  <2>5. /\ reqs' \in [Reqs -> Request] /\ reqs'[r] = w
        /\ \A q \in Reqs \ {r} : reqs'[q] = reqs[q]
    BY <2>3, MovesFacts
  <2>6. \A q \in Reqs : ReqStep(q)
    BY <2>0, <2>3, <2>5 DEF ReqStep
  <2>7. CacheStep
    BY <1>4, <2>0 DEF FillView, CacheView, CacheStep
  <2> QED
    BY <1>0, <2>0, <2>5, <2>6, <2>7 DEF AuthEffect, HistStep
<1>5. ASSUME NEW r \in Reqs, Decide(r) PROVE AuthEffect
  <2>0. cache' = cache /\ qkey' = qkey
    BY <1>5 DEF Decide
  <2>1. \/ Moves(r, Idle) /\ hist' = hist
        \/ reqs' = [reqs EXCEPT ![r].at = "learned"] /\ HistStep
    BY <1>5 DEF Decide, LearnMac, Moves, HistStep
  <2>2. CASE Moves(r, Idle) /\ hist' = hist
    <3>1. reqs' \in [Reqs -> Request] /\ \A q \in Reqs : ReqStep(q)
      BY <2>2, IdleRequest, MoveEffect
    <3> QED
      BY <1>0, <2>0, <2>2, <3>1 DEF AuthEffect, CacheStep, HistStep
  <2>3. CASE reqs' = [reqs EXCEPT ![r].at = "learned"] /\ HistStep
    <3>1. "learned" \in Phases
      BY DEF Phases
    <3>2. PICK w \in Request : Moves(r, w) /\ w.at = "learned" /\ w.age = reqs[r].age
      BY <2>3, <3>1, SetAt
    <3>3. reqs' \in [Reqs -> Request] /\ \A q \in Reqs : ReqStep(q)
      BY <3>2, MoveEffect
    <3> QED
      BY <1>0, <2>0, <2>3, <3>3 DEF AuthEffect, CacheStep
  <2> QED
    BY <2>1, <2>2, <2>3
<1>6. ASSUME NEW r \in Reqs, LearnedInvalidate(r) PROVE AuthEffect
  <2>1. Moves(r, Idle) /\ hist' = hist /\ qkey' = qkey /\ (cache' = {} \/ cache' = cache)
    BY <1>6 DEF LearnedInvalidate, Moves, InvalidatePolicy
  <2>2. reqs' \in [Reqs -> Request] /\ \A q \in Reqs : ReqStep(q)
    BY <2>1, IdleRequest, MoveEffect
  <2> QED
    BY <1>0, <2>1, <2>2 DEF AuthEffect, CacheStep, HistStep
<1>7. CASE (\E a \in Accounts : Update(a)) \/ ResetMac \/ Delete \/ RenewAuth
  <2>1. HistStep /\ reqs' = reqs /\ cache' = cache /\ qkey' = qkey
    BY <1>7 DEF Update, ResetMac, Delete, RenewAuth, Edits, HistStep
  <2> QED
    BY <1>0, <2>1 DEF AuthEffect, ReqStep, CacheStep
<1>8. CASE EditInvalidate \/ EditQuotaKey \/ QuotaRunsOut
  <2>1. /\ hist' = hist /\ reqs' = reqs /\ (cache' = {} \/ cache' = cache)
        /\ qkey' \in {qkey, TRUE, FALSE}
    BY <1>8 DEF EditInvalidate, InvalidatePolicy, EditQuotaKey, QuotaRunsOut
  <2> QED
    BY <1>0, <2>1 DEF AuthEffect, ReqStep, CacheStep, HistStep
<1>9. CASE UNCHANGED authVars
  BY <1>0, <1>9 DEF authVars, AuthEffect, ReqStep, CacheStep, HistStep
<1> QED
  BY <1>1, <1>2, <1>3, <1>4, <1>5, <1>6, <1>7, <1>8, <1>9 DEF AuthNext

\* How old the news can be that a view stands for.
HealInv ==
    /\ \A r \in Reqs : reqs[r].age <= ReqLife
    /\ \A r \in Reqs : reqs[r].at = "fill" =>
           reqs[r].ver \in 1..RowVer /\ hist[reqs[r].ver].gone <= reqs[r].age
    /\ \A r \in Reqs : reqs[r].at = "decide" =>
           reqs[r].ver \in 1..RowVer /\ hist[reqs[r].ver].gone <= ViewTTL + ReqLife + reqs[r].age
    /\ \A c \in cache :
           /\ c.ver \in 1..RowVer /\ c.ttl <= ViewTTL
           /\ hist[c.ver].gone + c.ttl <= ViewTTL + ReqLife

\* A step that is not a tick.
LEMMA HealStep ==
    ASSUME AuthType, HealInv, AuthEffect
    PROVE  AuthType' /\ HealInv'
<1> USE AuthAssumption
<1>0. /\ reqs \in [Reqs -> Request] /\ reqs' \in [Reqs -> Request]
      /\ \A r \in Reqs : reqs[r].age \in Nat /\ reqs'[r].age \in Nat /\ reqs[r].ver \in Nat
      /\ RowVer \in Nat /\ RowVer > 0 /\ hist[RowVer].gone = 0
      /\ \A v \in 1..RowVer : hist[v].gone \in Nat
      /\ cache \subseteq [ver : Nat, exh : BOOLEAN, ttl : Nat]
  <2>1. reqs \in [Reqs -> Request] /\ reqs' \in [Reqs -> Request]
    BY DEF AuthType, AuthEffect
  <2> QED
    BY <2>1, HistFacts DEF AuthType, RowVer, Request
<1>1. /\ HistType'
      /\ RowVer' \in Nat /\ RowVer' >= RowVer /\ Row'.gone = 0
      /\ \A v \in 1..RowVer : hist'[v] = hist[v]
  <2>1. CASE hist' = hist
    <3>1. HistType /\ Row.gone = 0
      BY DEF AuthType
    <3>2. HistType'
      BY <2>1, <3>1 DEF HistType
    <3>3. RowVer' = RowVer /\ Row' = Row
      BY <2>1 DEF RowVer, Row
    <3>4. RowVer' \in Nat /\ RowVer' >= RowVer
      BY <1>0, <3>3
    <3> QED
      BY <2>1, <3>1, <3>2, <3>3, <3>4
  <2>2. ASSUME NEW a, NEW m, Write(a, m)
        PROVE  /\ HistType'
               /\ Len(hist') = Len(hist) + 1 /\ Row'.gone = 0
               /\ \A v \in 1..Len(hist) : hist'[v] = hist[v]
    BY <2>2, WriteFacts
  <2>3. CASE \E a, m : Write(a, m)
    BY <2>2, <2>3, <1>0 DEF RowVer
  <2> QED
    BY <2>1, <2>3 DEF AuthEffect, HistStep
<1>2. ASSUME NEW c \in cache'
      PROVE  /\ c \in [ver : Nat, exh : BOOLEAN, ttl : Nat]
             /\ c.ver \in 1..RowVer /\ c.ttl <= ViewTTL
             /\ hist[c.ver].gone + c.ttl <= ViewTTL + ReqLife
  <2>1. CASE c \in cache
    BY <2>1, <1>0 DEF HealInv
  <2>2. CASE \E r \in Reqs : reqs[r].at = "fill"
               /\ c = [ver |-> reqs[r].ver, exh |-> reqs[r].exh, ttl |-> ViewTTL]
    <3>1. PICK r \in Reqs : reqs[r].at = "fill"
               /\ c = [ver |-> reqs[r].ver, exh |-> reqs[r].exh, ttl |-> ViewTTL]
      BY <2>2
    <3>2. reqs[r].ver \in 1..RowVer /\ hist[reqs[r].ver].gone <= reqs[r].age /\ reqs[r].age <= ReqLife
      BY <3>1 DEF HealInv
    <3>3. reqs[r].exh \in BOOLEAN
      BY <1>0 DEF Request
    <3>4. c.ver = reqs[r].ver /\ c.ttl = ViewTTL
      BY <3>1
    <3>5. c \in [ver : Nat, exh : BOOLEAN, ttl : Nat]
      BY <3>1, <3>3, <1>0
    <3> QED
      BY <3>2, <3>4, <3>5, <1>0
  <2> QED
    BY <2>1, <2>2 DEF AuthEffect, CacheStep
<1>3. ASSUME NEW r \in Reqs
      PROVE  /\ reqs'[r].age <= ReqLife
             /\ reqs'[r].at = "fill" =>
                  reqs'[r].ver \in 1..RowVer /\ hist[reqs'[r].ver].gone <= reqs'[r].age
             /\ reqs'[r].at = "decide" =>
                  /\ reqs'[r].ver \in 1..RowVer
                  /\ hist[reqs'[r].ver].gone <= ViewTTL + ReqLife + reqs'[r].age
  <2>0. reqs[r].age \in Nat /\ reqs[r].age <= ReqLife
    BY <1>0 DEF HealInv
  <2>1. CASE reqs'[r] = reqs[r]
    BY <2>1 DEF HealInv
  <2>2. CASE /\ reqs'[r].at \in {"idle", "get", "load", "learned"}
             /\ reqs'[r].age \in {0, reqs[r].age}
    BY <2>2, <2>0
  <2>3. CASE reqs'[r].at = "fill" /\ reqs'[r].ver = RowVer /\ reqs'[r].age = reqs[r].age
    BY <2>3, <2>0, <1>0
  <2>4. CASE /\ reqs'[r].at = "decide" /\ reqs'[r].age = reqs[r].age
             /\ \E c \in cache : reqs'[r].ver = c.ver
    <3>1. PICK c \in cache : reqs'[r].ver = c.ver
      BY <2>4
    <3>2. /\ c.ver \in 1..RowVer /\ c.ttl \in Nat
          /\ hist[c.ver].gone + c.ttl <= ViewTTL + ReqLife
      BY <1>0 DEF HealInv
    <3>3. hist[c.ver].gone \in Nat
      BY <3>2, <1>0
    <3> DEFINE g == hist[c.ver].gone
    <3> HIDE DEF g
    <3>4. g <= ViewTTL + ReqLife + reqs[r].age
      BY <3>2, <3>3, <2>0 DEF g
    <3> QED
      BY <2>0, <2>4, <3>1, <3>2, <3>4 DEF g
  <2>5. CASE /\ reqs'[r].at = "decide" /\ reqs'[r].age = reqs[r].age
             /\ reqs[r].at = "fill" /\ reqs'[r].ver = reqs[r].ver
    <3>1. reqs[r].ver \in 1..RowVer /\ hist[reqs[r].ver].gone <= reqs[r].age
      BY <2>5 DEF HealInv
    <3>2. hist[reqs[r].ver].gone \in Nat
      BY <3>1, <1>0
    <3> QED
      BY <2>0, <2>5, <3>1, <3>2
  <2> QED
    BY <2>1, <2>2, <2>3, <2>4, <2>5 DEF AuthEffect, ReqStep
<1>4. AuthType'
  BY <1>0, <1>1, <1>2 DEF AuthType, AuthEffect, RowVer
<1>5. \A v \in 1..RowVer : v \in 1..RowVer' /\ hist'[v] = hist[v]
  BY <1>0, <1>1
<1>6. HealInv'
  BY <1>2, <1>3, <1>5 DEF HealInv
<1> QED
  BY <1>4, <1>6

\* A tick: requests, replaced versions and the cached view age together.
LEMMA HealTick ==
    ASSUME AuthType, HealInv, AuthTick
    PROVE  AuthType' /\ HealInv'
<1> USE AuthAssumption
<1>0. /\ reqs \in [Reqs -> Request] /\ RowVer \in Nat
      /\ \A v \in 1..RowVer : hist[v].gone \in Nat
      /\ cache \subseteq [ver : Nat, exh : BOOLEAN, ttl : Nat]
  BY HistFacts DEF AuthType, RowVer
<1>1. /\ HistType'
      /\ RowVer' = RowVer /\ Row'.gone = 0
      /\ \A v \in 1..RowVer : hist'[v].gone <= hist[v].gone + 1
  BY TickHist DEF RowVer
<1>2. ASSUME NEW r \in Reqs
      PROVE  /\ reqs'[r] \in Request /\ reqs'[r].age <= ReqLife
             /\ reqs'[r].at \in {"fill", "decide"} =>
                  /\ reqs[r].at = reqs'[r].at /\ reqs'[r].ver = reqs[r].ver
                  /\ reqs'[r].age = reqs[r].age + 1
  <2>0. reqs[r] \in Request
    BY <1>0
  <2>1. CASE reqs[r].at = "idle"
    <3>1. reqs'[r] = Idle
      BY <2>1 DEF AuthTick
    <3> QED
      BY <3>1, IdleRequest
  <2>2. CASE reqs[r].at # "idle"
    <3>1. reqs'[r] = [reqs[r] EXCEPT !.age = @ + 1] /\ reqs[r].age < ReqLife
      BY <2>2 DEF AuthTick
    <3> QED
      BY <3>1, <2>0 DEF Request
  <2> QED
    BY <2>1, <2>2
<1>3. reqs' \in [Reqs -> Request]
  <2>1. reqs' = [r \in Reqs |-> IF reqs[r].at = "idle" THEN Idle ELSE [reqs[r] EXCEPT !.age = @ + 1]]
    BY DEF AuthTick
  <2> QED
    BY <1>2, <2>1
<1>4. ASSUME NEW c \in cache'
      PROVE  /\ c \in [ver : Nat, exh : BOOLEAN, ttl : Nat]
             /\ \E d \in cache : c.ver = d.ver /\ d.ttl = c.ttl + 1
  <2>1. PICK d \in cache : d.ttl > 0 /\ c = [d EXCEPT !.ttl = @ - 1]
    BY DEF AuthTick
  <2>2. d \in [ver : Nat, exh : BOOLEAN, ttl : Nat]
    BY <1>0
  <2>3. c.ver = d.ver /\ d.ttl = c.ttl + 1
    BY <2>1, <2>2
  <2>4. c \in [ver : Nat, exh : BOOLEAN, ttl : Nat]
    BY <2>1, <2>2
  <2> QED
    BY <2>3, <2>4
<1>5. ASSUME NEW c \in cache'
      PROVE  /\ c.ver \in 1..RowVer /\ c.ttl <= ViewTTL
             /\ hist'[c.ver].gone + c.ttl <= ViewTTL + ReqLife
  <2>1. PICK d \in cache : c.ver = d.ver /\ d.ttl = c.ttl + 1
    BY <1>4
  <2>2. c.ttl \in Nat
    BY <1>4
  <2>3. d.ver \in 1..RowVer /\ d.ttl <= ViewTTL /\ hist[d.ver].gone + d.ttl <= ViewTTL + ReqLife
    BY DEF HealInv
  <2> DEFINE g == hist[d.ver].gone
             h == hist'[d.ver].gone
             t == c.ttl
  <2>4. g \in Nat /\ h <= g + 1 /\ g + (t + 1) <= ViewTTL + ReqLife /\ t + 1 <= ViewTTL
    BY <1>0, <1>1, <2>1, <2>3
  <2>5. h \in Nat
    <3>1. PICK A, M : hist' \in Seq([acct : A, mac : M, gone : Nat])
      BY <1>1 DEF HistType
    <3> DEFINE S == [acct : A, mac : M, gone : Nat]
    <3>2. \A w \in S : w.gone \in Nat
      OBVIOUS
    <3>3. hist' \in Seq(S)
      BY <3>1
    <3> HIDE DEF S
    <3>4. hist'[d.ver] \in S
      BY <3>3, <2>3, <1>1 DEF RowVer
    <3> QED
      BY <3>2, <3>4
  <2> HIDE DEF g, h, t
  <2>6. h + t <= ViewTTL + ReqLife /\ t <= ViewTTL
    BY <2>2, <2>4, <2>5 DEF t
  <2> QED
    BY <2>1, <2>3, <2>6 DEF h, t
<1>6. ASSUME NEW r \in Reqs
      PROVE  /\ reqs'[r].at = "fill" =>
                  reqs'[r].ver \in 1..RowVer /\ hist'[reqs'[r].ver].gone <= reqs'[r].age
             /\ reqs'[r].at = "decide" =>
                  /\ reqs'[r].ver \in 1..RowVer
                  /\ hist'[reqs'[r].ver].gone <= ViewTTL + ReqLife + reqs'[r].age
  <2> SUFFICES ASSUME reqs'[r].at \in {"fill", "decide"}
               PROVE  /\ reqs'[r].ver \in 1..RowVer
                      /\ reqs'[r].at = "fill" => hist'[reqs'[r].ver].gone <= reqs'[r].age
                      /\ reqs'[r].at = "decide" =>
                           hist'[reqs'[r].ver].gone <= ViewTTL + ReqLife + reqs'[r].age
    OBVIOUS
  <2>1. /\ reqs[r].at = reqs'[r].at /\ reqs'[r].ver = reqs[r].ver
        /\ reqs'[r].age = reqs[r].age + 1
    BY <1>2
  <2> DEFINE a == reqs[r].age
             g == hist[reqs[r].ver].gone
             h == hist'[reqs[r].ver].gone
  <2>2. reqs[r].ver \in 1..RowVer
    BY <2>1 DEF HealInv
  <2>3. a \in Nat /\ g \in Nat /\ h <= g + 1
    <3>1. reqs[r] \in Request
      BY <1>0
    <3> QED
      BY <3>1, <1>0, <1>1, <2>2 DEF Request
  <2>4. h \in Nat
    <3>1. PICK A, M : hist' \in Seq([acct : A, mac : M, gone : Nat])
      BY <1>1 DEF HistType
    <3> DEFINE S == [acct : A, mac : M, gone : Nat]
    <3>2. \A w \in S : w.gone \in Nat
      OBVIOUS
    <3>3. hist' \in Seq(S)
      BY <3>1
    <3> HIDE DEF S
    <3>4. hist'[reqs[r].ver] \in S
      BY <3>3, <2>2, <1>1 DEF RowVer
    <3> QED
      BY <3>2, <3>4
  <2>5. /\ reqs[r].at = "fill" => g <= a
        /\ reqs[r].at = "decide" => g <= ViewTTL + ReqLife + a
    BY DEF HealInv
  <2> HIDE DEF a, g, h
  <2>6. /\ reqs[r].at = "fill" => h <= a + 1
        /\ reqs[r].at = "decide" => h <= ViewTTL + ReqLife + (a + 1)
    BY <2>3, <2>4, <2>5
  <2> QED
    BY <2>1, <2>2, <2>6 DEF a, h
<1>7. AuthType'
  <2>1. cache' \subseteq [ver : Nat, exh : BOOLEAN, ttl : Nat] /\ qkey' \in BOOLEAN
    BY <1>4 DEF AuthTick, AuthType
  <2>2. Len(hist') > 0
    BY <1>1, HistFacts DEF RowVer
  <2> QED
    BY <1>1, <1>3, <2>1, <2>2 DEF AuthType
<1>8. HealInv'
  BY <1>1, <1>2, <1>5, <1>6 DEF HealInv
<1> QED
  BY <1>7, <1>8

LEMMA OneVersion ==
    ASSUME NEW S, NEW x \in S
    PROVE  <<x>> \in Seq(S) /\ Len(<<x>>) = 1 /\ <<x>>[1] = x
OBVIOUS

LEMMA AuthStart == AuthInit => AuthType /\ HealInv /\ CacheCoherent
<1> SUFFICES ASSUME AuthInit PROVE AuthType /\ HealInv /\ CacheCoherent
  OBVIOUS
<1>1. PICK a, m : hist = <<[acct |-> a, mac |-> m, gone |-> 0]>>
  BY DEF AuthInit
<1>2. qkey = FALSE /\ cache = {} /\ reqs = [r \in Reqs |-> Idle]
  BY DEF AuthInit
<1> DEFINE x == [acct |-> a, mac |-> m, gone |-> 0]
           S == [acct : {a}, mac : {m}, gone : Nat]
<1>3. x \in S /\ x.gone = 0
  OBVIOUS
<1>4. hist = <<x>>
  BY <1>1
<1> HIDE DEF x, S
<1>5. hist \in Seq(S) /\ Len(hist) = 1 /\ hist[1] = x
  BY <1>3, <1>4, OneVersion
<1>6. HistType
  BY <1>5 DEF HistType, S
<1>7. reqs \in [Reqs -> Request] /\ \A r \in Reqs : reqs[r].at = "idle" /\ reqs[r].age = 0
  BY <1>2, IdleRequest
<1>8. qkey \in BOOLEAN /\ cache \subseteq [ver : Nat, exh : BOOLEAN, ttl : Nat]
  BY <1>2
<1>9. Len(hist) > 0 /\ Row.gone = 0
  <2>1. Row = x
    BY <1>5 DEF Row
  <2>2. Len(hist) > 0
    BY <1>5
  <2> QED
    BY <1>3, <2>1, <2>2
<1>10. AuthType
  BY <1>6, <1>7, <1>8, <1>9 DEF AuthType
<1>11. cache = {}
  BY <1>2
<1>12. HealInv
  <2>1. \A r \in Reqs : reqs[r].age <= ReqLife
    BY <1>7, AuthAssumption
  <2>2. \A r \in Reqs : reqs[r].at # "fill" /\ reqs[r].at # "decide"
    BY <1>7
  <2> QED
    BY <1>11, <2>1, <2>2 DEF HealInv
<1>13. CacheCoherent
  BY <1>11 DEF CacheCoherent
<1> QED
  BY <1>10, <1>12, <1>13

\* "a best-effort miss self-heals at the TTL": for every cache lifetime and
\* request timeout and any number of requests and lost invalidations, a login
\* is accepted on what the account was at most a cache life and two request
\* lives ago.
THEOREM HealsCorrect == AuthSpec => []SelfHeals
<1>1. AuthInit => AuthType /\ HealInv
  BY AuthStart
<1>2. AuthType /\ HealInv /\ [AuthNext]_authVars => AuthType' /\ HealInv'
  BY AuthStep, HealStep, HealTick
<1>3. AuthType /\ HealInv => SelfHeals
  <2> SUFFICES ASSUME AuthType, HealInv, NEW r \in Reqs, reqs[r].at = "decide"
               PROVE  hist[reqs[r].ver].gone <= Stale
    BY DEF SelfHeals
  <2> DEFINE g == hist[reqs[r].ver].gone
             a == reqs[r].age
  <2>1. reqs[r].ver \in 1..RowVer /\ g <= ViewTTL + ReqLife + a /\ a <= ReqLife
    BY DEF HealInv
  <2>2. g \in Nat /\ a \in Nat
    BY <2>1, HistFacts DEF AuthType, Request, RowVer
  <2> HIDE DEF g, a
  <2>3. g <= ViewTTL + 2 * ReqLife
    BY <2>1, <2>2, AuthAssumption
  <2> QED
    BY <2>3 DEF g, Stale
<1> QED
  BY <1>1, <1>2, <1>3, PTL DEF AuthSpec


-----------------------------------------------------------------------------
(* CacheCoherent is inductive: what excuses an old view outlives the view. *)

Excused == tainted \/ edit \in {"inv", "inv+key"} \/ \E r \in Reqs : reqs[r].at = "learned"

\* No view is added, the row stays and the excuse does.
LEMMA CoherentKept ==
    ASSUME CacheCoherent, cache' \subseteq cache, hist' = hist, Excused => Excused'
    PROVE  CacheCoherent'
BY DEF CacheCoherent, Excused, RowVer

\* A request that has not just learnt a MAC moves on.
LEMMA CoherentMove ==
    ASSUME CacheCoherent, NEW r \in Reqs, reqs[r].at # "learned",
           \A q \in Reqs \ {r} : reqs'[q] = reqs[q],
           cache' = cache, hist' = hist, edit' = edit, tainted' = tainted
    PROVE  CacheCoherent'
<1>1. Excused => Excused'
  BY DEF Excused
<1> QED
  BY <1>1, CoherentKept

LEMMA CoherentInvalidate ==
    ASSUME InvalidatePolicy
    PROVE  CacheCoherent'
<1>1. cache' = {} \/ tainted' = TRUE
  BY DEF InvalidatePolicy
<1> QED
  BY <1>1 DEF CacheCoherent

LEMMA CoherentTick ==
    ASSUME AuthType, CacheCoherent, AuthTick
    PROVE  CacheCoherent'
<1>1. RowVer' = RowVer
  BY TickHist DEF RowVer
<1>2. edit' = edit /\ tainted' = (tainted /\ cache' # {})
  BY DEF AuthTick
<1>3. \A r \in Reqs : reqs[r].at = "learned" => reqs'[r].at = "learned"
  <2> SUFFICES ASSUME NEW r \in Reqs, reqs[r].at = "learned" PROVE reqs'[r].at = "learned"
    OBVIOUS
  <2>1. reqs'[r] = [reqs[r] EXCEPT !.age = @ + 1]
    BY DEF AuthTick
  <2>2. reqs[r] \in Request
    BY DEF AuthType
  <2> QED
    BY <2>1, <2>2 DEF Request
<1>4. ASSUME NEW c \in cache' PROVE \E d \in cache : c.ver = d.ver
  <2>1. PICK d \in cache : c = [d EXCEPT !.ttl = @ - 1]
    BY DEF AuthTick
  <2>2. d \in [ver : Nat, exh : BOOLEAN, ttl : Nat]
    BY DEF AuthType
  <2> QED
    BY <2>1, <2>2
<1>5. cache' # {} => (Excused => Excused')
  BY <1>2, <1>3 DEF Excused
<1> QED
  BY <1>1, <1>4, <1>5 DEF CacheCoherent, Excused

LEMMA CoherentStep ==
    ASSUME AuthType, CacheCoherent, [AuthNext]_authVars
    PROVE  CacheCoherent'
<1>0. reqs \in [Reqs -> Request]
  BY DEF AuthType
<1>1. ASSUME NEW r \in Reqs, Arrive(r) \/ ResolveView(r) \/ LoadView(r)
      PROVE  CacheCoherent'
  <2>1. /\ reqs[r].at # "learned" /\ cache' = cache /\ hist' = hist
        /\ edit' = edit /\ tainted' = tainted
    BY <1>1 DEF Arrive, ResolveView, LoadView
  <2>2. \A q \in Reqs \ {r} : reqs'[q] = reqs[q]
    BY <1>0, <1>1 DEF Arrive, ResolveView, LoadView
  <2> QED
    BY <2>1, <2>2, CoherentMove
<1>2. ASSUME NEW r \in Reqs, FillView(r) PROVE CacheCoherent'
  <2>1. /\ reqs[r].at # "learned" /\ hist' = hist /\ edit' = edit
        /\ \A q \in Reqs \ {r} : reqs'[q] = reqs[q]
    BY <1>0, <1>2 DEF FillView
  <2>2. CASE CacheView(r) /\ tainted' = (reqs[r].ver # RowVer)
    <3>1. \A c \in cache' : c.ver = reqs[r].ver
      BY <2>2 DEF CacheView
    <3>2. RowVer' = RowVer
      BY <2>1 DEF RowVer
    <3> QED
      BY <2>2, <3>1, <3>2 DEF CacheCoherent
  <2>3. CASE cache' = cache /\ tainted' = tainted
    BY <2>1, <2>3, CoherentMove
  <2> QED
    BY <1>2, <2>2, <2>3 DEF FillView
<1>3. ASSUME NEW r \in Reqs, Decide(r) PROVE CacheCoherent'
  <2>1. reqs[r].at # "learned" /\ cache' = cache /\ edit' = edit /\ tainted' = tainted
    BY <1>3 DEF Decide
  <2>2. \/ reqs' = [reqs EXCEPT ![r] = Idle] /\ hist' = hist
        \/ reqs' = [reqs EXCEPT ![r].at = "learned"]
    BY <1>3 DEF Decide, LearnMac
  <2>3. CASE reqs' = [reqs EXCEPT ![r] = Idle] /\ hist' = hist
    <3>1. \A q \in Reqs \ {r} : reqs'[q] = reqs[q]
      BY <1>0, <2>3
    <3> QED
      BY <2>1, <2>3, <3>1, CoherentMove
  <2>4. CASE reqs' = [reqs EXCEPT ![r].at = "learned"]
    <3>1. "learned" \in Phases
      BY DEF Phases
    <3>2. PICK w \in Request : Moves(r, w) /\ w.at = "learned"
      BY <2>4, <3>1, SetAt
    <3>3. reqs'[r].at = "learned"
      BY <3>2, MovesFacts
    <3> QED
      BY <3>3 DEF CacheCoherent
  <2> QED
    BY <2>2, <2>3, <2>4
<1>4. ASSUME NEW r \in Reqs, LearnedInvalidate(r) PROVE CacheCoherent'
  BY <1>4, CoherentInvalidate DEF LearnedInvalidate
<1>5. CASE (\E a \in Accounts : Update(a)) \/ ResetMac \/ Delete \/ RenewAuth
  <2>1. edit' \in {"inv", "inv+key"}
    BY <1>5 DEF Update, ResetMac, Delete, RenewAuth, Edits
  <2> QED
    BY <2>1 DEF CacheCoherent
<1>6. CASE EditInvalidate
  BY <1>6, CoherentInvalidate DEF EditInvalidate
<1>7. CASE EditQuotaKey \/ QuotaRunsOut
  <2>1. /\ hist' = hist /\ cache' = cache /\ reqs' = reqs /\ tainted' = tainted
        /\ edit \in {"inv", "inv+key"} => edit' = edit
    BY <1>7 DEF EditQuotaKey, QuotaRunsOut
  <2>2. Excused => Excused'
    BY <2>1 DEF Excused
  <2> QED
    BY <2>1, <2>2, CoherentKept
<1>8. CASE UNCHANGED authVars
  BY <1>8 DEF authVars, CacheCoherent, RowVer
<1> QED
  BY <1>1, <1>2, <1>3, <1>4, <1>5, <1>6, <1>7, <1>8, CoherentTick DEF AuthNext

\* Every writer drops the view: for any number of requests and edits in any
\* order, a cached view that is not the row's has a writer between its commit
\* and its invalidation, an invalidation that failed or a load that overlapped
\* the change to account for it (authview.go, subscribers/api.go, LearnMac).
THEOREM CoherentCorrect == AuthSpec => []CacheCoherent
<1>1. AuthInit => AuthType /\ HealInv /\ CacheCoherent
  BY AuthStart
<1>2. AuthType /\ HealInv /\ [AuthNext]_authVars => AuthType' /\ HealInv'
  BY AuthStep, HealStep, HealTick
<1>3. AuthType /\ CacheCoherent /\ [AuthNext]_authVars => CacheCoherent'
  BY CoherentStep
<1> QED
  BY <1>1, <1>2, <1>3, PTL DEF AuthSpec

-----------------------------------------------------------------------------
(* Plans: PlanViewsFollow with its types and the fact that nobody off every *)
(* plan has a view.                                                         *)

PlanRow == [st : {"none", "live", "archived"}, ver : Nat, to : Plans \union {NoPlan}, scope : {0, 1}]
PlanView == [ver : Nat, lazy : BOOLEAN]
Editor == [at : {"idle", "load", "drop", "delete"}, plan : Plans \union {NoPlan}, ids : SUBSET Members]

PlanType ==
    /\ plans \in [Plans -> PlanRow]
    /\ on \in [Members -> Plans \union {NoPlan}]
    /\ cached \in [Members -> PlanView]
    /\ editors \in [Editors -> Editor]
    /\ pbulk \in [act : {"none", "set", "delete"}, todo : SUBSET Plans]
    /\ pbulk # NoJob => pbulk.todo # {}

NoPlanNoView == \A s \in Members : on[s] = NoPlan => cached[s].ver = 0

\* An edit that will delete the view of s.
Due(s, e) ==
    /\ editors[e].plan = on[s]
    /\ editors[e].at = "load" \/ (editors[e].at = "drop" /\ s \in editors[e].ids)

Follows(s) ==
    cached[s].ver > 0 /\ cached[s].ver < plans[on[s]].ver =>
        cached[s].lazy \/ \E e \in Editors : Due(s, e)

LEMMA FollowsAll == PlanViewsFollow <=> \A s \in Members : Follows(s)
BY DEF PlanViewsFollow, Follows, Due

\* A view that is left to its lifetime keeps its version and says so.
LEMMA LazyFacts ==
    ASSUME PlanType, NEW ids, cached' = Lazy(ids)
    PROVE  /\ cached' \in [Members -> PlanView]
           /\ \A s \in Members :
                /\ cached'[s].ver = cached[s].ver
                /\ cached[s].lazy => cached'[s].lazy
                /\ s \in ids /\ cached[s].ver > 0 => cached'[s].lazy
<1>1. cached' = [s \in Members |-> IF s \in ids /\ cached[s].ver > 0 THEN [cached[s] EXCEPT !.lazy = TRUE]
                                   ELSE cached[s]]
  BY DEF Lazy
<1>2. ASSUME NEW s \in Members
      PROVE  /\ cached'[s] \in PlanView /\ cached'[s].ver = cached[s].ver
             /\ cached[s].lazy => cached'[s].lazy
             /\ s \in ids /\ cached[s].ver > 0 => cached'[s].lazy
  <2>1. cached[s] \in PlanView
    BY DEF PlanType
  <2> DEFINE c == cached[s]
             w == [c EXCEPT !.lazy = TRUE]
  <2>2. c \in PlanView /\ cached'[s] = IF s \in ids /\ c.ver > 0 THEN w ELSE c
    BY <1>1, <2>1
  <2> HIDE DEF c
  <2>3. w \in PlanView /\ w.ver = c.ver /\ w.lazy
    BY <2>2 DEF PlanView
  <2> HIDE DEF w
  <2> QED
    BY <2>2, <2>3 DEF c
<1> QED
  BY <1>1, <1>2

\* A plan is written: only it changes.
LEMMA WritePlanFacts ==
    ASSUME PlanType, NEW p \in Plans, NEW to \in Plans \union {NoPlan}, NEW scope \in {0, 1},
           WritePlan(p, to, scope)
    PROVE  plans' \in [Plans -> PlanRow] /\ \A q \in Plans \ {p} : plans'[q] = plans[q]
<1> DEFINE x == plans[p]
           n == x.ver + 1
           u == [x EXCEPT !.ver = n]
           v == [u EXCEPT !.to = to]
           w == [v EXCEPT !.scope = scope]
<1>1. plans \in [Plans -> PlanRow] /\ x \in PlanRow
  BY DEF PlanType
<1>2. plans' = [plans EXCEPT ![p] = w]
  BY <1>1 DEF WritePlan
<1>3. n \in Nat
  BY <1>1 DEF PlanRow
<1> HIDE DEF x, n
<1>4. u \in PlanRow
  BY <1>1, <1>3 DEF PlanRow
<1> HIDE DEF u
<1>5. v \in PlanRow
  BY <1>4 DEF PlanRow
<1> HIDE DEF v
<1>6. w \in PlanRow
  BY <1>5 DEF PlanRow
<1> HIDE DEF w
<1> QED
  BY <1>1, <1>2, <1>6

\* The plan of a subscriber is left alone, so is his view, and no edit that
\* was due is dropped.
LEMMA FollowsKept ==
    ASSUME NEW s \in Members, Follows(s), on'[s] = on[s], plans'[on[s]].ver = plans[on[s]].ver,
           cached'[s].ver = cached[s].ver, cached[s].lazy => cached'[s].lazy,
           \A e \in Editors : Due(s, e) => Due(s, e)'
    PROVE  Follows(s)'
BY DEF Follows

\* A new edit takes the place of an editor that had nothing due.
LEMMA DueKept ==
    ASSUME PlanType, NEW e \in Editors, NEW w \in Editor, editors' = [editors EXCEPT ![e] = w],
           editors[e].at \notin {"load", "drop"}, on' = on
    PROVE  /\ editors' \in [Editors -> Editor] /\ editors'[e] = w
           /\ \A s \in Members, f \in Editors : Due(s, f) => Due(s, f)'
<1>1. editors \in [Editors -> Editor]
  BY DEF PlanType
<1>2. editors' \in [Editors -> Editor] /\ editors'[e] = w /\ \A f \in Editors \ {e} : editors'[f] = editors[f]
  BY <1>1
<1>3. ASSUME NEW s \in Members, NEW f \in Editors, Due(s, f) PROVE Due(s, f)'
  <2>1. f # e
    BY <1>3 DEF Due
  <2> QED
    BY <1>2, <1>3, <2>1 DEF Due
<1> QED
  BY <1>2, <1>3

PlanInv == PlanType /\ NoPlanNoView /\ PlanViewsFollow

\* What a step has to show.
PlanGoal ==
    /\ PlanType' /\ NoPlanNoView'
    /\ \A s \in Members : Follows(s)'

LEMMA GoalInv == PlanGoal => PlanInv'
BY DEF PlanGoal, PlanInv, PlanViewsFollow, Follows, Due

\* A plan is created: nobody has an older view of it.
LEMMA InsertGoal ==
    ASSUME PlanInv, NEW p \in Plans, NEW to \in Plans \union {NoPlan}, NEW scope \in {0, 1},
           InsertProfile(p, to, scope)
    PROVE  PlanGoal
<1> DEFINE w == [st |-> "live", ver |-> 1, to |-> to, scope |-> scope]
<1>1. plans' = [plans EXCEPT ![p] = w] /\ UNCHANGED <<on, cached, editors, pbulk>>
  BY DEF InsertProfile
<1>2. w \in PlanRow /\ w.ver = 1
  BY DEF PlanRow
<1> HIDE DEF w
<1>3. plans \in [Plans -> PlanRow]
  BY DEF PlanInv, PlanType
<1>4. plans' \in [Plans -> PlanRow] /\ plans'[p] = w /\ \A q \in Plans \ {p} : plans'[q] = plans[q]
  BY <1>1, <1>2, <1>3
<1>5. PlanType' /\ NoPlanNoView'
  BY <1>1, <1>4 DEF PlanInv, PlanType, NoPlanNoView
<1>6. ASSUME NEW s \in Members PROVE Follows(s)'
  <2>1. on[s] \in Plans \union {NoPlan} /\ cached[s].ver \in Nat /\ Follows(s)
    BY FollowsAll DEF PlanInv, PlanType, PlanView
  <2>2. on'[s] = on[s] /\ cached'[s] = cached[s]
    BY <1>1
  <2>3. CASE cached[s].ver = 0
    BY <2>2, <2>3 DEF Follows
  <2>4. CASE on[s] = p
    <3>1. plans'[on[s]].ver = 1
      BY <1>2, <1>4, <2>4
    <3>2. ~(cached[s].ver > 0 /\ cached[s].ver < 1)
      BY <2>1
    <3> QED
      BY <2>2, <3>1, <3>2 DEF Follows
  <2>5. CASE cached[s].ver # 0 /\ on[s] # p
    <3>1. on[s] \in Plans \ {p}
      BY <2>1, <2>5 DEF PlanInv, NoPlanNoView
    <3>2. plans'[on[s]].ver = plans[on[s]].ver
      BY <1>4, <3>1
    <3>3. \A e \in Editors : Due(s, e) => Due(s, e)'
      BY <1>1 DEF Due
    <3> QED
      BY <2>1, <2>2, <3>2, <3>3, FollowsKept
  <2> QED
    BY <2>3, <2>4, <2>5
<1> QED
  BY <1>5, <1>6 DEF PlanGoal

\* A plan is written and an edit that is due to its subscribers begins.
LEMMA ApplyGoal ==
    ASSUME PlanInv, NEW p \in Plans, NEW e \in Editors, NEW to \in Plans \union {NoPlan},
           NEW scope \in {0, 1}, WritePlan(p, to, scope), ApplyNow(e, p), on' = on, cached' = cached,
           pbulk' \in [act : {"none", "set", "delete"}, todo : SUBSET Plans],
           pbulk' # NoJob => pbulk'.todo # {}
    PROVE  PlanGoal
<1> DEFINE w == [at |-> "load", plan |-> p, ids |-> {}]
<1>1. editors' = [editors EXCEPT ![e] = w] /\ editors[e].at \notin {"load", "drop"}
  BY DEF ApplyNow
<1>2. w \in Editor /\ w.at = "load" /\ w.plan = p
  BY DEF Editor
<1> HIDE DEF w
<1>3. /\ editors' \in [Editors -> Editor] /\ editors'[e] = w
      /\ \A s \in Members, f \in Editors : Due(s, f) => Due(s, f)'
  BY <1>1, <1>2, DueKept DEF PlanInv
<1>4. plans' \in [Plans -> PlanRow] /\ \A q \in Plans \ {p} : plans'[q] = plans[q]
  BY WritePlanFacts DEF PlanInv
<1>5. PlanType' /\ NoPlanNoView'
  BY <1>3, <1>4 DEF PlanInv, PlanType, NoPlanNoView
<1>6. ASSUME NEW s \in Members PROVE Follows(s)'
  <2>1. on[s] \in Plans \union {NoPlan} /\ Follows(s)
    BY FollowsAll DEF PlanInv, PlanType
  <2>2. CASE on[s] = p
    <3>1. Due(s, e)'
      BY <1>2, <1>3, <2>2 DEF Due
    <3> QED
      BY <3>1 DEF Follows
  <2>3. CASE on[s] \in Plans \ {p}
    <3>1. plans'[on[s]].ver = plans[on[s]].ver
      BY <1>4, <2>3
    <3> QED
      BY <1>3, <2>1, <3>1, FollowsKept
  <2>4. CASE on[s] = NoPlan
    BY <2>4 DEF Follows, PlanInv, NoPlanNoView
  <2> QED
    BY <2>1, <2>2, <2>3, <2>4
<1> QED
  BY <1>5, <1>6 DEF PlanGoal

\* A plan is written for the next renewal: its views are left to their lifetime.
LEMMA NextRenewalGoal ==
    ASSUME PlanInv, NEW p \in Plans, NEW to \in Plans \union {NoPlan}, NEW scope \in {0, 1},
           WritePlan(p, to, scope), cached' = Lazy(SubscribersOnProfile(p)), UNCHANGED <<on, editors, pbulk>>
    PROVE  PlanGoal
<1>1. plans' \in [Plans -> PlanRow] /\ \A q \in Plans \ {p} : plans'[q] = plans[q]
  BY WritePlanFacts DEF PlanInv
<1>2. /\ cached' \in [Members -> PlanView]
      /\ \A s \in Members :
           /\ cached'[s].ver = cached[s].ver
           /\ cached[s].lazy => cached'[s].lazy
           /\ s \in SubscribersOnProfile(p) /\ cached[s].ver > 0 => cached'[s].lazy
  BY LazyFacts DEF PlanInv
<1>3. PlanType' /\ NoPlanNoView'
  BY <1>1, <1>2 DEF PlanInv, PlanType, NoPlanNoView
<1>4. ASSUME NEW s \in Members PROVE Follows(s)'
  <2>1. on[s] \in Plans \union {NoPlan} /\ Follows(s)
    BY FollowsAll DEF PlanInv, PlanType
  <2>2. CASE on[s] = p
    <3>1. s \in SubscribersOnProfile(p)
      BY <2>2 DEF SubscribersOnProfile
    <3> QED
      BY <1>2, <3>1 DEF Follows
  <2>3. CASE on[s] \in Plans \ {p}
    <3>1. plans'[on[s]].ver = plans[on[s]].ver
      BY <1>1, <2>3
    <3>2. \A e \in Editors : Due(s, e) => Due(s, e)'
      BY DEF Due
    <3> QED
      BY <1>2, <2>1, <3>1, <3>2, FollowsKept
  <2>4. CASE on[s] = NoPlan
    BY <1>2, <2>4 DEF Follows, PlanInv, NoPlanNoView
  <2> QED
    BY <2>1, <2>2, <2>3, <2>4
<1> QED
  BY <1>3, <1>4 DEF PlanGoal

\* No version moves, no subscriber either, and what was due still is, or the
\* view is gone or left to its lifetime.
LEMMA SameVersionsGoal ==
    ASSUME PlanInv, on' = on, plans' \in [Plans -> PlanRow], \A q \in Plans : plans'[q].ver = plans[q].ver,
           cached' \in [Members -> PlanView], editors' \in [Editors -> Editor],
           pbulk' \in [act : {"none", "set", "delete"}, todo : SUBSET Plans],
           pbulk' # NoJob => pbulk'.todo # {},
           \A s \in Members :
               \/ cached'[s].ver = 0
               \/ cached'[s].ver = cached[s].ver /\ cached'[s].lazy
               \/ /\ cached'[s].ver = cached[s].ver /\ (cached[s].lazy => cached'[s].lazy)
                  /\ \A e \in Editors : Due(s, e) => Due(s, e)'
    PROVE  PlanGoal
<1>1. PlanType'
  BY DEF PlanInv, PlanType
<1>2. NoPlanNoView'
  BY DEF PlanInv, NoPlanNoView
<1>3. ASSUME NEW s \in Members PROVE Follows(s)'
  <2>1. on[s] \in Plans \union {NoPlan} /\ Follows(s)
    BY FollowsAll DEF PlanInv, PlanType
  <2>2. CASE cached'[s].ver = 0 \/ cached'[s].lazy
    BY <2>2 DEF Follows
  <2>3. CASE /\ cached'[s].ver = cached[s].ver /\ (cached[s].lazy => cached'[s].lazy)
             /\ \A e \in Editors : Due(s, e) => Due(s, e)'
    <3>1. CASE on[s] = NoPlan
      BY <2>3, <3>1 DEF Follows, PlanInv, NoPlanNoView
    <3>2. CASE on[s] \in Plans
      <4>1. plans'[on[s]].ver = plans[on[s]].ver
        BY <3>2
      <4> QED
        BY <2>1, <2>3, <4>1, FollowsKept
    <3> QED
      BY <2>1, <3>1, <3>2
  <2> QED
    BY <2>2, <2>3
<1> QED
  BY <1>1, <1>2, <1>3 DEF PlanGoal

\* A view is read from the plan as it is.
LEMMA ColdLoadGoal ==
    ASSUME PlanInv, NEW s \in Members, ColdLoad(s)
    PROVE  PlanGoal
<1> DEFINE n == plans[on[s]].ver
           w == [ver |-> n, lazy |-> FALSE]
<1>0. /\ plans \in [Plans -> PlanRow] /\ on \in [Members -> Plans \union {NoPlan}]
      /\ cached \in [Members -> PlanView]
  BY DEF PlanInv, PlanType
<1>1. on[s] \in Plans /\ on[s] # NoPlan
  BY <1>0 DEF ColdLoad
<1>2. n \in Nat
  BY <1>0, <1>1 DEF PlanRow
<1>3. cached' = [cached EXCEPT ![s] = w] /\ UNCHANGED <<plans, on, editors, pbulk>>
  BY DEF ColdLoad
<1>4. plans'[on'[s]].ver = n
  BY <1>3
<1> HIDE DEF n
<1>5. w \in PlanView /\ w.ver = n
  BY <1>2 DEF PlanView
<1> HIDE DEF w
<1>6. cached' \in [Members -> PlanView] /\ cached'[s] = w /\ \A m \in Members \ {s} : cached'[m] = cached[m]
  BY <1>0, <1>3, <1>5
<1>7. PlanType' /\ NoPlanNoView'
  BY <1>1, <1>3, <1>6 DEF PlanInv, PlanType, NoPlanNoView
<1>8. Follows(s)'
  <2>1. ~(n < n)
    BY <1>2
  <2> QED
    BY <1>4, <1>5, <1>6, <2>1 DEF Follows
<1>9. ASSUME NEW m \in Members \ {s} PROVE Follows(m)'
  <2>1. Follows(m)
    BY FollowsAll DEF PlanInv
  <2> QED
    BY <1>3, <1>6, <2>1 DEF Follows, Due
<1> QED
  BY <1>7, <1>8, <1>9 DEF PlanGoal

LEMMA NoViewType == NoView \in PlanView /\ NoView.ver = 0
BY DEF NoView, PlanView

LEMMA NoEditType == NoEdit \in Editor /\ NoEdit.at = "idle"
BY DEF NoEdit, Editor

\* A subscriber changes plans: his view goes with it.
LEMMA AssignGoal ==
    ASSUME PlanInv, NEW s \in Members, NEW p \in Plans, AssignPlan(s, p)
    PROVE  PlanGoal
<1>1. /\ on' = [on EXCEPT ![s] = p] /\ cached' = [cached EXCEPT ![s] = NoView]
      /\ UNCHANGED <<plans, editors, pbulk>>
  BY DEF AssignPlan
<1>2. on \in [Members -> Plans \union {NoPlan}] /\ cached \in [Members -> PlanView]
  BY DEF PlanInv, PlanType
<1>3. /\ on' \in [Members -> Plans \union {NoPlan}] /\ cached' \in [Members -> PlanView]
      /\ cached'[s].ver = 0
      /\ \A m \in Members \ {s} : on'[m] = on[m] /\ cached'[m] = cached[m]
  BY <1>1, <1>2, NoViewType
<1>4. PlanType' /\ NoPlanNoView'
  BY <1>1, <1>3 DEF PlanInv, PlanType, NoPlanNoView
<1>5. ASSUME NEW m \in Members PROVE Follows(m)'
  <2>1. CASE m = s
    BY <1>3, <2>1 DEF Follows
  <2>2. CASE m # s
    <3>1. Follows(m)
      BY FollowsAll DEF PlanInv
    <3> QED
      BY <1>1, <1>3, <2>2, <3>1 DEF Follows, Due
  <2> QED
    BY <2>1, <2>2
<1> QED
  BY <1>4, <1>5 DEF PlanGoal

\* An editor that has nothing due begins or ends something else.
LEMMA IdleEditorGoal ==
    ASSUME PlanInv, NEW e \in Editors, NEW w \in Editor, editors' = [editors EXCEPT ![e] = w],
           editors[e].at \notin {"load", "drop"}, on' = on, cached' = cached,
           plans' \in [Plans -> PlanRow], \A q \in Plans : plans'[q].ver = plans[q].ver,
           pbulk' \in [act : {"none", "set", "delete"}, todo : SUBSET Plans],
           pbulk' # NoJob => pbulk'.todo # {}
    PROVE  PlanGoal
<1>1. /\ editors' \in [Editors -> Editor]
      /\ \A s \in Members, f \in Editors : Due(s, f) => Due(s, f)'
  BY DueKept DEF PlanInv
<1>2. cached' \in [Members -> PlanView]
  BY DEF PlanInv, PlanType
<1> QED
  BY <1>1, <1>2, SameVersionsGoal

\* invalidateProfileViews: the list is read, or the views are left.
LEMMA ListGoal ==
    ASSUME PlanInv, NEW e \in Editors, InvalidateProfileViews(e)
    PROVE  PlanGoal
<1> DEFINE q == editors[e]
           ids == SubscribersOnProfile(q.plan)
           w == [[q EXCEPT !.at = "drop"] EXCEPT !.ids = ids]
<1>0. /\ editors \in [Editors -> Editor] /\ q \in Editor
      /\ plans \in [Plans -> PlanRow] /\ cached \in [Members -> PlanView]
      /\ pbulk \in [act : {"none", "set", "delete"}, todo : SUBSET Plans]
      /\ pbulk # NoJob => pbulk.todo # {}
  BY DEF PlanInv, PlanType
<1>1. q.at = "load" /\ UNCHANGED <<plans, on, pbulk>>
  BY DEF InvalidateProfileViews
<1>2. \A s \in Members : on[s] = q.plan => s \in ids
  BY DEF SubscribersOnProfile
<1>3. ids \in SUBSET Members
  BY DEF SubscribersOnProfile
<1>4. CASE editors' = [editors EXCEPT ![e].at = "drop", ![e].ids = ids] /\ cached' = cached
  <2>1. editors' = [editors EXCEPT ![e] = w]
    BY <1>0, <1>4
  <2> HIDE DEF ids
  <2>2. w \in Editor /\ w.at = "drop" /\ w.plan = q.plan /\ w.ids = ids
    <3> HIDE DEF q
    <3> DEFINE u == [q EXCEPT !.at = "drop"]
    <3>1. u \in Editor /\ u.at = "drop" /\ u.plan = q.plan
      BY <1>0 DEF Editor
    <3>2. w = [u EXCEPT !.ids = ids]
      OBVIOUS
    <3> HIDE DEF u, w
    <3> QED
      BY <1>3, <3>1, <3>2 DEF Editor
  <2> HIDE DEF w
  <2>3. /\ editors' \in [Editors -> Editor] /\ editors'[e] = w
        /\ \A f \in Editors \ {e} : editors'[f] = editors[f]
    BY <1>0, <2>1, <2>2
  <2>4. ASSUME NEW s \in Members, NEW f \in Editors, Due(s, f) PROVE Due(s, f)'
    <3>1. CASE f = e
      BY <1>1, <1>2, <2>2, <2>3, <2>4, <3>1 DEF Due
    <3>2. CASE f # e
      BY <1>1, <2>3, <2>4, <3>2 DEF Due
    <3> QED
      BY <3>1, <3>2
  <2> QED
    BY <1>0, <1>1, <1>4, <2>3, <2>4, SameVersionsGoal
<1>5. CASE editors' = [editors EXCEPT ![e] = NoEdit] /\ cached' = Lazy(ids)
  <2> HIDE DEF ids
  <2>1. /\ cached' \in [Members -> PlanView]
        /\ \A s \in Members :
             /\ cached'[s].ver = cached[s].ver
             /\ cached[s].lazy => cached'[s].lazy
             /\ s \in ids /\ cached[s].ver > 0 => cached'[s].lazy
    BY <1>5, LazyFacts DEF PlanInv
  <2>2. editors' \in [Editors -> Editor] /\ \A f \in Editors \ {e} : editors'[f] = editors[f]
    BY <1>0, <1>5, NoEditType
  <2>3. ASSUME NEW s \in Members
        PROVE  \/ cached'[s].ver = 0
               \/ cached'[s].ver = cached[s].ver /\ cached'[s].lazy
               \/ /\ cached'[s].ver = cached[s].ver /\ (cached[s].lazy => cached'[s].lazy)
                  /\ \A f \in Editors : Due(s, f) => Due(s, f)'
    <3>1. CASE s \in ids
      <4>1. cached[s].ver \in Nat
        BY <1>0 DEF PlanView
      <4>2. cached[s].ver = 0 \/ cached[s].ver > 0
        BY <4>1
      <4> QED
        BY <2>1, <3>1, <4>2
    <3>2. CASE s \notin ids
      <4>1. \A f \in Editors : Due(s, f) => f # e
        BY <1>2, <3>2 DEF Due
      <4>2. \A f \in Editors : Due(s, f) => Due(s, f)'
        BY <1>1, <2>2, <4>1 DEF Due
      <4> QED
        BY <2>1, <4>2
    <3> QED
      BY <3>1, <3>2
  <2> QED
    BY <1>0, <1>1, <2>1, <2>2, <2>3, SameVersionsGoal
<1> QED
  BY <1>4, <1>5 DEF InvalidateProfileViews

\* InvalidatePolicyByProfile: one view is deleted, or left to its lifetime.
LEMMA DropGoal ==
    ASSUME PlanInv, NEW e \in Editors, InvalidatePolicyByProfile(e)
    PROVE  PlanGoal
<1> DEFINE q == editors[e]
           s == CHOOSE x \in editors[e].ids : TRUE
           w == [q EXCEPT !.ids = @ \ {s}]
<1>0. /\ editors \in [Editors -> Editor] /\ q \in Editor
      /\ plans \in [Plans -> PlanRow] /\ cached \in [Members -> PlanView]
      /\ pbulk \in [act : {"none", "set", "delete"}, todo : SUBSET Plans]
      /\ pbulk # NoJob => pbulk.todo # {}
  BY DEF PlanInv, PlanType
<1>1. q.at = "drop" /\ UNCHANGED <<plans, on, pbulk>>
  BY DEF InvalidatePolicyByProfile
<1>2. CASE q.ids = {}
  <2>1. editors' = [editors EXCEPT ![e] = NoEdit] /\ cached' = cached
    BY <1>2 DEF InvalidatePolicyByProfile
  <2>2. editors' \in [Editors -> Editor] /\ \A f \in Editors \ {e} : editors'[f] = editors[f]
    BY <1>0, <2>1, NoEditType
  <2>3. \A m \in Members, f \in Editors : Due(m, f) => Due(m, f)'
    BY <1>1, <1>2, <2>2 DEF Due
  <2> QED
    BY <1>0, <1>1, <2>1, <2>2, <2>3, SameVersionsGoal
<1>3. CASE q.ids # {}
  <2>1. s \in q.ids /\ q.ids \subseteq Members
    BY <1>0, <1>3 DEF Editor
  <2>2. editors' = [editors EXCEPT ![e] = w] /\ cached' \in {[cached EXCEPT ![s] = NoView], Lazy({s})}
    BY <1>0, <1>3 DEF InvalidatePolicyByProfile
  <2> HIDE DEF s
  <2>3. w \in Editor /\ w.at = "drop" /\ w.plan = q.plan /\ w.ids = q.ids \ {s}
    <3> HIDE DEF q
    <3> QED
      BY <1>0, <1>1 DEF Editor
  <2> HIDE DEF w
  <2>4. /\ editors' \in [Editors -> Editor] /\ editors'[e] = w
        /\ \A f \in Editors \ {e} : editors'[f] = editors[f]
    BY <1>0, <2>2, <2>3
  <2>5. ASSUME NEW m \in Members \ {s}, NEW f \in Editors, Due(m, f) PROVE Due(m, f)'
    <3>1. CASE f = e
      BY <1>1, <2>3, <2>4, <2>5, <3>1 DEF Due
    <3>2. CASE f # e
      BY <1>1, <2>4, <2>5, <3>2 DEF Due
    <3> QED
      BY <3>1, <3>2
  <2>6. CASE cached' = [cached EXCEPT ![s] = NoView]
    <3>1. /\ cached' \in [Members -> PlanView] /\ cached'[s].ver = 0
          /\ \A m \in Members \ {s} : cached'[m] = cached[m]
      BY <1>0, <2>1, <2>6, NoViewType
    <3> QED
      BY <1>0, <1>1, <2>4, <2>5, <3>1, SameVersionsGoal
  <2>7. CASE cached' = Lazy({s})
    <3>1. /\ cached' \in [Members -> PlanView]
          /\ \A m \in Members :
               /\ cached'[m].ver = cached[m].ver
               /\ cached[m].lazy => cached'[m].lazy
               /\ m \in {s} /\ cached[m].ver > 0 => cached'[m].lazy
      BY <2>7, LazyFacts DEF PlanInv
    <3>2. cached[s].ver = 0 \/ cached[s].ver > 0
      <4>1. cached[s].ver \in Nat
        BY <1>0, <2>1 DEF PlanView
      <4> QED
        BY <4>1
    <3>3. cached'[s].ver = 0 \/ (cached'[s].ver = cached[s].ver /\ cached'[s].lazy)
      BY <2>1, <3>1, <3>2
    <3> QED
      BY <1>0, <1>1, <2>4, <2>5, <3>1, <3>3, SameVersionsGoal
  <2> QED
    BY <2>2, <2>6, <2>7
<1> QED
  BY <1>2, <1>3

\* A restart: what was still due is left to its lifetime.
LEMMA PlanRestartGoal ==
    ASSUME PlanInv, PlanRestart
    PROVE  PlanGoal
<1> DEFINE late == {s \in Members : \E e \in Editors :
                       \/ editors[e].at = "load" /\ on[s] = editors[e].plan
                       \/ editors[e].at = "drop" /\ s \in editors[e].ids}
<1>0. plans \in [Plans -> PlanRow] /\ cached \in [Members -> PlanView]
  BY DEF PlanInv, PlanType
<1>1. /\ editors' = [e \in Editors |-> NoEdit] /\ pbulk' = NoJob
      /\ cached' = Lazy(late) /\ UNCHANGED <<plans, on>>
  BY DEF PlanRestart
<1>2. \A s \in Members, e \in Editors : Due(s, e) => s \in late
  BY DEF Due
<1> HIDE DEF late
<1>3. /\ cached' \in [Members -> PlanView]
      /\ \A s \in Members :
           /\ cached'[s].ver = cached[s].ver
           /\ cached[s].lazy => cached'[s].lazy
           /\ s \in late /\ cached[s].ver > 0 => cached'[s].lazy
  BY <1>1, LazyFacts DEF PlanInv
<1>4. editors' \in [Editors -> Editor]
  BY <1>1, NoEditType
<1>5. pbulk' \in [act : {"none", "set", "delete"}, todo : SUBSET Plans]
  BY <1>1 DEF NoJob
<1>6. ASSUME NEW s \in Members
      PROVE  \/ cached'[s].ver = 0
             \/ cached'[s].ver = cached[s].ver /\ cached'[s].lazy
             \/ /\ cached'[s].ver = cached[s].ver /\ (cached[s].lazy => cached'[s].lazy)
                /\ \A f \in Editors : Due(s, f) => Due(s, f)'
  <2>1. CASE s \in late
    <3>1. cached[s].ver \in Nat
      BY <1>0 DEF PlanView
    <3>2. cached[s].ver = 0 \/ cached[s].ver > 0
      BY <3>1
    <3> QED
      BY <1>3, <2>1, <3>2
  <2>2. CASE s \notin late
    BY <1>2, <1>3, <2>2
  <2> QED
    BY <2>1, <2>2
<1> QED
  BY <1>0, <1>1, <1>3, <1>4, <1>5, <1>6, SameVersionsGoal

\* The job's list gets shorter.
LEMMA NextRowFacts ==
    ASSUME PlanInv, NEW p \in pbulk.todo, NextRow(p)
    PROVE  /\ pbulk' \in [act : {"none", "set", "delete"}, todo : SUBSET Plans]
           /\ pbulk' # NoJob => pbulk'.todo # {}
<1>1. pbulk \in [act : {"none", "set", "delete"}, todo : SUBSET Plans]
  BY DEF PlanInv, PlanType
<1>2. CASE pbulk' = NoJob
  BY <1>2 DEF NoJob
<1>3. CASE pbulk.todo # {p} /\ pbulk' = [pbulk EXCEPT !.todo = @ \ {p}]
  <2>1. pbulk'.todo = pbulk.todo \ {p} /\ pbulk' \in [act : {"none", "set", "delete"}, todo : SUBSET Plans]
    BY <1>1, <1>3
  <2> QED
    BY <1>3, <2>1
<1> QED
  BY <1>2, <1>3 DEF NextRow

LEMMA BulkGoal ==
    ASSUME PlanInv, RunPlanBulk
    PROVE  PlanGoal
<1> DEFINE p == CHOOSE q \in pbulk.todo : TRUE
<1>0. /\ editors \in [Editors -> Editor] /\ plans \in [Plans -> PlanRow] /\ cached \in [Members -> PlanView]
      /\ pbulk \in [act : {"none", "set", "delete"}, todo : SUBSET Plans] /\ BulkEditor \in Editors
  BY ProfilesAssumption DEF PlanInv, PlanType
<1>1. /\ pbulk # NoJob /\ editors[BulkEditor].at = "idle" /\ UNCHANGED <<on, cached>> /\ NextRow(p)
      /\ \/ RunBulkUpdate(p)
         \/ UNCHANGED <<plans, editors>>
         \/ plans' = plans /\ editors' = [editors EXCEPT ![BulkEditor] = [at |-> "delete", plan |-> p, ids |-> {}]]
  BY DEF RunPlanBulk, RunBulkUpdate
<1>2. p \in pbulk.todo
  <2>1. pbulk.todo # {}
    BY <1>1 DEF PlanInv, PlanType
  <2> QED
    BY <2>1
<1> HIDE DEF p
<1>3. p \in Plans
  BY <1>0, <1>2
<1>4. /\ pbulk' \in [act : {"none", "set", "delete"}, todo : SUBSET Plans]
      /\ pbulk' # NoJob => pbulk'.todo # {}
  BY <1>1, <1>2, NextRowFacts
<1>5. CASE RunBulkUpdate(p)
  <2>1. plans[p].to \in Plans \union {NoPlan} /\ plans[p].scope \in {0, 1}
    BY <1>0, <1>3 DEF PlanRow
  <2>2. WritePlan(p, plans[p].to, plans[p].scope) /\ ApplyNow(BulkEditor, p)
    BY <1>5 DEF RunBulkUpdate
  <2> QED
    BY <1>0, <1>1, <1>3, <1>4, <2>1, <2>2, ApplyGoal
<1>6. CASE UNCHANGED <<plans, editors>>
  <2>1. \A s \in Members, f \in Editors : Due(s, f) => Due(s, f)'
    BY <1>1, <1>6 DEF Due
  <2> QED
    BY <1>0, <1>1, <1>4, <1>6, <2>1, SameVersionsGoal
<1>7. CASE plans' = plans /\ editors' = [editors EXCEPT ![BulkEditor] = [at |-> "delete", plan |-> p, ids |-> {}]]
  <2> DEFINE w == [at |-> "delete", plan |-> p, ids |-> {}]
  <2>1. w \in Editor
    BY <1>3 DEF Editor
  <2>2. editors' = [editors EXCEPT ![BulkEditor] = w]
    BY <1>7
  <2> HIDE DEF w
  <2> QED
    BY <1>0, <1>1, <1>4, <1>7, <2>1, <2>2, IdleEditorGoal
<1> QED
  BY <1>1, <1>5, <1>6, <1>7

\* A change of a plan's state leaves its version.
LEMMA SetState ==
    ASSUME PlanType, NEW p \in Plans, NEW a \in {"none", "archived"}, plans' = [plans EXCEPT ![p].st = a]
    PROVE  plans' \in [Plans -> PlanRow] /\ \A q \in Plans : plans'[q].ver = plans[q].ver
<1> DEFINE x == plans[p]
           w == [x EXCEPT !.st = a]
<1>1. plans \in [Plans -> PlanRow] /\ x \in PlanRow /\ plans' = [plans EXCEPT ![p] = w]
  BY DEF PlanType
<1> HIDE DEF x
<1>2. w \in PlanRow /\ w.ver = x.ver
  BY <1>1 DEF PlanRow
<1> HIDE DEF w
<1> QED
  BY <1>1, <1>2 DEF x

LEMMA DeleteGoal ==
    ASSUME PlanInv, NEW e \in Editors, DeleteProfile(e)
    PROVE  PlanGoal
<1> DEFINE p == editors[e].plan
<1>0. /\ editors \in [Editors -> Editor] /\ plans \in [Plans -> PlanRow]
      /\ pbulk \in [act : {"none", "set", "delete"}, todo : SUBSET Plans]
      /\ pbulk # NoJob => pbulk.todo # {}
  BY DEF PlanInv, PlanType
<1>1. /\ editors[e].at \notin {"load", "drop"} /\ editors' = [editors EXCEPT ![e] = NoEdit]
      /\ UNCHANGED <<on, cached, pbulk>>
      /\ plans' = [plans EXCEPT ![p].st = "none"] \/ plans' = plans
  BY DEF DeleteProfile
<1> HIDE DEF p
<1>2. plans' \in [Plans -> PlanRow] /\ \A q \in Plans : plans'[q].ver = plans[q].ver
  <2>1. CASE p \in Plans
    BY <1>0, <1>1, <2>1, SetState DEF PlanInv
  <2>2. CASE p \notin Plans
    <3>1. plans' = plans
      BY <1>0, <1>1, <2>2
    <3> QED
      BY <1>0, <3>1
  <2> QED
    BY <2>1, <2>2
<1> QED
  BY <1>0, <1>1, <1>2, NoEditType, IdleEditorGoal

LEMMA PlanStep ==
    ASSUME PlanInv, [PlansNext]_planVars
    PROVE  PlanInv'
<1>0. /\ editors \in [Editors -> Editor] /\ plans \in [Plans -> PlanRow] /\ cached \in [Members -> PlanView]
      /\ on \in [Members -> Plans \union {NoPlan}]
      /\ pbulk \in [act : {"none", "set", "delete"}, todo : SUBSET Plans]
      /\ pbulk # NoJob => pbulk.todo # {}
  BY DEF PlanInv, PlanType
<1>1. ASSUME NEW p \in Plans, CreatePlanHandler(p) PROVE PlanGoal
  <2>1. PICK to \in Targets : InsertProfile(p, to, 0)
    BY <1>1 DEF CreatePlanHandler
  <2>2. to \in Plans \union {NoPlan}
    BY DEF Targets
  <2> QED
    BY <2>1, <2>2, InsertGoal
<1>2. ASSUME NEW p \in Plans, NEW q \in Plans, DuplicateHandler(p, q) PROVE PlanGoal
  <2>1. plans[p].to \in Plans \union {NoPlan} /\ plans[p].scope \in {0, 1}
    BY <1>0 DEF PlanRow
  <2> QED
    BY <1>2, <2>1, InsertGoal DEF DuplicateHandler
<1>3. ASSUME NEW p \in Plans, ArchiveHandler(p) PROVE PlanGoal
  <2>1. plans' = [plans EXCEPT ![p].st = "archived"] /\ UNCHANGED <<on, cached, editors, pbulk>>
    BY <1>3 DEF ArchiveHandler
  <2>2. plans' \in [Plans -> PlanRow] /\ \A q \in Plans : plans'[q].ver = plans[q].ver
    BY <2>1, SetState DEF PlanInv
  <2>3. \A s \in Members, f \in Editors : Due(s, f) => Due(s, f)'
    BY <2>1 DEF Due
  <2> QED
    BY <1>0, <2>1, <2>2, <2>3, SameVersionsGoal
<1>4. ASSUME NEW e \in Editors, NEW p \in Plans, NEW now \in BOOLEAN, UpdatePlanHandler(e, p, now)
      PROVE  PlanGoal
  <2>1. PICK to \in Targets, scope \in {0, 1} :
          /\ WritePlan(p, to, scope)
          /\ IF now \/ NasScopeChanged(p, scope) THEN ApplyNow(e, p) /\ UNCHANGED cached
             ELSE cached' = Lazy(SubscribersOnProfile(p)) /\ UNCHANGED editors
          /\ UNCHANGED <<on, pbulk>>
    BY <1>4 DEF UpdatePlanHandler
  <2>2. to \in Plans \union {NoPlan}
    BY DEF Targets
  <2>3. CASE ApplyNow(e, p) /\ UNCHANGED cached
    BY <1>0, <2>1, <2>2, <2>3, ApplyGoal
  <2>4. CASE cached' = Lazy(SubscribersOnProfile(p)) /\ UNCHANGED editors
    BY <2>1, <2>2, <2>4, NextRenewalGoal
  <2> QED
    BY <2>1, <2>3, <2>4
<1>5. ASSUME NEW e \in Editors, NEW p \in Plans, SpeedWindowHandler(e, p) PROVE PlanGoal
  <2>1. plans[p].to \in Plans \union {NoPlan} /\ plans[p].scope \in {0, 1}
    BY <1>0 DEF PlanRow
  <2>2. /\ WritePlan(p, plans[p].to, plans[p].scope) /\ ApplyNow(e, p)
        /\ on' = on /\ cached' = cached /\ pbulk' = pbulk
    BY <1>5 DEF SpeedWindowHandler
  <2> QED
    BY <1>0, <2>1, <2>2, ApplyGoal
<1>6. ASSUME NEW e \in Editors, NEW p \in Plans, DeletePlanHandler(e, p) PROVE PlanGoal
  <2> DEFINE w == [at |-> "delete", plan |-> p, ids |-> {}]
  <2>1. w \in Editor
    BY DEF Editor
  <2>2. /\ editors' = [editors EXCEPT ![e] = w] /\ editors[e].at \notin {"load", "drop"}
        /\ UNCHANGED <<plans, on, cached, pbulk>>
    BY <1>6 DEF DeletePlanHandler
  <2> HIDE DEF w
  <2> QED
    BY <1>0, <2>1, <2>2, IdleEditorGoal
<1>7. ASSUME NEW s \in Members, ViewExpires(s) PROVE PlanGoal
  <2>1. cached' = [cached EXCEPT ![s] = NoView] /\ UNCHANGED <<plans, on, editors, pbulk>>
    BY <1>7 DEF ViewExpires
  <2>2. /\ cached' \in [Members -> PlanView] /\ cached'[s].ver = 0
        /\ \A m \in Members \ {s} : cached'[m] = cached[m]
    BY <1>0, <2>1, NoViewType
  <2>3. \A m \in Members, f \in Editors : Due(m, f) => Due(m, f)'
    BY <2>1 DEF Due
  <2> QED
    BY <1>0, <2>1, <2>2, <2>3, SameVersionsGoal
<1>8. ASSUME NEW act \in {"set", "delete"}, NEW sel \in SUBSET Plans, PlanBulkHandler(act, sel)
      PROVE  PlanGoal
  <2>1. /\ pbulk' = [act |-> act, todo |-> {p \in sel : Exists(p)}] /\ pbulk'.todo # {}
        /\ UNCHANGED <<plans, on, cached, editors>>
    BY <1>8 DEF PlanBulkHandler
  <2>2. pbulk' \in [act : {"none", "set", "delete"}, todo : SUBSET Plans]
    BY <2>1
  <2>3. \A m \in Members, f \in Editors : Due(m, f) => Due(m, f)'
    BY <2>1 DEF Due
  <2> QED
    BY <1>0, <2>1, <2>2, <2>3, SameVersionsGoal
<1>9. ASSUME UNCHANGED planVars PROVE PlanGoal
  <2>1. UNCHANGED <<plans, on, cached, editors, pbulk>>
    BY <1>9 DEF planVars
  <2>2. \A m \in Members, f \in Editors : Due(m, f) => Due(m, f)'
    BY <2>1 DEF Due
  <2> QED
    BY <1>0, <2>1, <2>2, SameVersionsGoal
<1>10. PlanGoal
  BY <1>1, <1>2, <1>3, <1>4, <1>5, <1>6, <1>7, <1>8, <1>9, DeleteGoal, ListGoal, DropGoal,
     ColdLoadGoal, AssignGoal, BulkGoal, PlanRestartGoal DEF PlansNext
<1> QED
  BY <1>10, GoalInv

\* No edit, window or bulk row is forgotten: for any number of plans,
\* subscribers and edits under way, a view older than its subscriber's plan is
\* about to be deleted or was knowingly left to its lifetime
\* (profiles/api.go, bulk.go, speedwindows.go).
THEOREM PlanViewsCorrect == PlansSpec => []PlanViewsFollow
<1>1. PlansInit => PlanInv
  <2> SUFFICES ASSUME PlansInit PROVE PlanInv
    OBVIOUS
  <2>1. plans \in [Plans -> PlanRow]
    BY DEF PlansInit, PlanRow
  <2>2. cached \in [Members -> PlanView] /\ \A s \in Members : cached[s].ver = 0
    BY NoViewType DEF PlansInit
  <2>3. editors \in [Editors -> Editor] /\ on \in [Members -> Plans \union {NoPlan}]
    BY NoEditType DEF PlansInit
  <2>4. pbulk \in [act : {"none", "set", "delete"}, todo : SUBSET Plans] /\ pbulk = NoJob
    BY DEF PlansInit, NoJob
  <2>5. \A s \in Members : ~(cached[s].ver > 0)
    BY <2>2
  <2> QED
    BY <2>1, <2>2, <2>3, <2>4, <2>5 DEF PlanInv, PlanType, NoPlanNoView, PlanViewsFollow
<1>2. PlanInv /\ [PlansNext]_planVars => PlanInv'
  BY PlanStep
<1>3. PlanInv => PlanViewsFollow
  BY DEF PlanInv
<1> QED
  BY <1>1, <1>2, <1>3, PTL DEF PlansSpec

-----------------------------------------------------------------------------
(* The registry of routers: how old the news in a snapshot, and in a reload *)
(* under way, can be.                                                       *)

Answers == NasIds \union {NoNas}
NasRow == [ip : Addrs \union {NoNas}, secret : Nat, enabled : BOOLEAN, services : Nat]
Find == [step : {"idle", "reload", "store", "loaded", "answered"}, ip : Addrs \union {NoNas},
         read : [Addrs -> Answers], old : Answers, had : BOOLEAN, age : Nat, wrong : Nat, sick : BOOLEAN]

NasType ==
    /\ nas \in [NasIds -> NasRow]
    /\ registry \in [byIP : [Addrs -> Answers], loaded : BOOLEAN, age : Nat]
    /\ finds \in [Lookups -> Find]
    /\ changed \in [Addrs -> Nat]

\* The unique index on the address, for the rows that are enabled.
OnePerAddress ==
    \A m, n \in NasIds : nas[m].enabled /\ nas[n].enabled /\ nas[m].ip = nas[n].ip => m = n

\* A lookup: what a reload has read is at most as old as the reload.
FindOK(f) ==
    /\ f.step \in {"reload", "store", "loaded"} => f.ip \in Addrs
    /\ f.step \in {"store", "loaded"} => f.age <= LoadLife
    /\ f.step = "loaded" => registry.age <= f.age
    /\ f.step = "store" => \A a \in Addrs : f.read[a] = EnabledAt(a) \/ changed[a] <= f.age
    /\ f.step = "answered" /\ ~f.sick => f.wrong < Bound

\* The snapshot, while an answer can come from it.
SnapshotOK ==
    registry.age < CacheTTL \/ (\E l \in Lookups : finds[l].step = "loaded") =>
        \A a \in Addrs : registry.byIP[a] = EnabledAt(a) \/ changed[a] <= LoadLife + registry.age

NasInv == NasType /\ OnePerAddress /\ (\A l \in Lookups : FindOK(finds[l])) /\ SnapshotOK

\* The router found in a table with one row per address.
LEMMA OneChosen ==
    ASSUME NEW f, NEW a, NEW m \in NasIds, f[m].ip = a, f[m].enabled,
           \A k, n \in NasIds : f[k].enabled /\ f[n].enabled /\ f[k].ip = f[n].ip => k = n
    PROVE  (CHOOSE n \in NasIds : f[n].ip = a /\ f[n].enabled) = m
<1> DEFINE c == CHOOSE n \in NasIds : f[n].ip = a /\ f[n].enabled
<1>1. c \in NasIds /\ f[c].ip = a /\ f[c].enabled
  OBVIOUS
<1> HIDE DEF c
<1>2. c = m
  BY <1>1
<1> QED
  BY <1>2 DEF c

LEMMA EnabledFacts ==
    ASSUME OnePerAddress, NEW a
    PROVE  /\ EnabledAt(a) \in Answers
           /\ \A m \in NasIds : nas[m].ip = a /\ nas[m].enabled => EnabledAt(a) = m
           /\ (\A m \in NasIds : ~(nas[m].ip = a /\ nas[m].enabled)) => EnabledAt(a) = NoNas
<1>1. ASSUME NEW m \in NasIds, nas[m].ip = a, nas[m].enabled PROVE EnabledAt(a) = m
  <2>1. (CHOOSE n \in NasIds : nas[n].ip = a /\ nas[n].enabled) = m
    BY <1>1, OneChosen DEF OnePerAddress
  <2> QED
    BY <1>1, <2>1 DEF EnabledAt
<1>2. ASSUME \A m \in NasIds : ~(nas[m].ip = a /\ nas[m].enabled) PROVE EnabledAt(a) = NoNas
  BY <1>2 DEF EnabledAt
<1> QED
  BY <1>1, <1>2 DEF Answers

\* The same of the table after a step.
LEMMA EnabledFactsNext ==
    ASSUME OnePerAddress', NEW a
    PROVE  /\ \A m \in NasIds : nas'[m].ip = a /\ nas'[m].enabled => EnabledAt(a)' = m
           /\ (\A m \in NasIds : ~(nas'[m].ip = a /\ nas'[m].enabled)) => EnabledAt(a)' = NoNas
<1>1. ASSUME NEW m \in NasIds, nas'[m].ip = a, nas'[m].enabled PROVE EnabledAt(a)' = m
  <2>1. (CHOOSE n \in NasIds : nas'[n].ip = a /\ nas'[n].enabled) = m
    BY <1>1, OneChosen DEF OnePerAddress
  <2> QED
    BY <1>1, <2>1 DEF EnabledAt
<1>2. ASSUME \A m \in NasIds : ~(nas'[m].ip = a /\ nas'[m].enabled) PROVE EnabledAt(a)' = NoNas
  BY <1>2 DEF EnabledAt
<1> QED
  BY <1>1, <1>2

\* One lookup goes on, over the same table, snapshot and clock.
LEMMA FindGoal ==
    ASSUME NasInv, NEW l \in Lookups, NEW f \in Find, SetFind(l, f), FindOK(f), f.step # "loaded",
           UNCHANGED <<nas, registry, changed>>
    PROVE  NasInv'
<1>1. finds \in [Lookups -> Find]
  BY DEF NasInv, NasType
<1>2. finds' \in [Lookups -> Find] /\ finds'[l] = f /\ \A k \in Lookups \ {l} : finds'[k] = finds[k]
  BY <1>1 DEF SetFind
<1>3. \A a : EnabledAt(a)' = EnabledAt(a)
  BY DEF EnabledAt
<1>4. NasType' /\ OnePerAddress'
  BY <1>2 DEF NasInv, NasType, OnePerAddress
<1>5. ASSUME NEW k \in Lookups PROVE FindOK(finds[k])'
  <2>1. CASE k = l
    BY <1>2, <1>3, <2>1 DEF FindOK
  <2>2. CASE k # l
    <3>1. FindOK(finds[k])
      BY DEF NasInv
    <3> QED
      BY <1>2, <1>3, <2>2, <3>1 DEF FindOK
  <2> QED
    BY <2>1, <2>2
<1>6. SnapshotOK'
  <2>1. (\E k \in Lookups : finds'[k].step = "loaded") => \E k \in Lookups : finds[k].step = "loaded"
    BY <1>2
  <2> QED
    BY <1>3, <2>1 DEF NasInv, SnapshotOK
<1> QED
  BY <1>4, <1>5, <1>6 DEF NasInv

LEMMA NoLookupType == NoLookup \in Find /\ NoLookup.step = "idle"
BY DEF NoLookup, Find, Answers

\* What a snapshot says of an address, in time.
LEMMA AnswerOK ==
    ASSUME NasInv, NEW ip \in Addrs, NEW n, n = EnabledAt(ip) \/ changed[ip] < Bound
    PROVE  Answer(ip, n) \in Find /\ FindOK(Answer(ip, n)) /\ Answer(ip, n).step = "answered"
<1> DEFINE w == IF n = EnabledAt(ip) THEN 0 ELSE changed[ip]
<1>1. w \in Nat /\ w < Bound
  <2>1. changed[ip] \in Nat
    BY DEF NasInv, NasType
  <2> QED
    BY <2>1, NasAssumption DEF Bound
<1> DEFINE u == [NoLookup EXCEPT !.step = "answered"]
           f == [u EXCEPT !.wrong = w]
<1>2. Answer(ip, n) = f
  BY DEF Answer
<1> HIDE DEF w
<1>3. u \in Find /\ u.step = "answered"
  BY NoLookupType DEF Find
<1> HIDE DEF u
<1>4. f \in Find /\ f.step = "answered" /\ f.wrong = w
  BY <1>1, <1>3 DEF Find
<1> HIDE DEF f
<1>5. FindOK(f)
  BY <1>1, <1>4 DEF FindOK
<1> QED
  BY <1>2, <1>4, <1>5


\* An answer from the stale snapshot, which says that it is one.
LEMMA SickAnswerOK ==
    ASSUME NasInv, NEW ip \in Addrs, NEW n
    PROVE  \E f \in Find : /\ f = [Answer(ip, n) EXCEPT !.sick = TRUE]
                           /\ FindOK(f) /\ f.step = "answered"
<1> DEFINE w == IF n = EnabledAt(ip) THEN 0 ELSE changed[ip]
           u == [NoLookup EXCEPT !.step = "answered"]
           v == [u EXCEPT !.wrong = w]
           f == [v EXCEPT !.sick = TRUE]
<1>1. w \in Nat
  <2>1. changed[ip] \in Nat
    BY DEF NasInv, NasType
  <2> QED
    BY <2>1
<1>2. [Answer(ip, n) EXCEPT !.sick = TRUE] = f
  BY DEF Answer
<1> HIDE DEF w
<1>3. u \in Find /\ u.step = "answered"
  BY NoLookupType DEF Find
<1> HIDE DEF u
<1>4. v \in Find /\ v.step = "answered"
  BY <1>1, <1>3 DEF Find
<1> HIDE DEF v
<1>5. f \in Find /\ f.step = "answered" /\ f.sick
  BY <1>4 DEF Find
<1> HIDE DEF f
<1>6. FindOK(f)
  BY <1>5 DEF FindOK
<1> QED
  BY <1>2, <1>5, <1>6

LEMMA LookupGoal ==
    ASSUME NasInv, NEW l \in Lookups, lookup(l)
    PROVE  NasInv'
<1>0. /\ registry \in [byIP : [Addrs -> Answers], loaded : BOOLEAN, age : Nat]
      /\ changed \in [Addrs -> Nat]
  BY DEF NasInv, NasType
<1>1. UNCHANGED <<nas, registry, changed>>
  BY DEF lookup
<1>2. PICK ip \in Addrs :
        SetFind(l, IF Fresh THEN Answer(ip, registry.byIP[ip])
                   ELSE [NoLookup EXCEPT !.step = "reload", !.ip = ip, !.old = registry.byIP[ip],
                                    !.had = registry.loaded])
  BY DEF lookup
<1>3. CASE Fresh
  <2>1. registry.byIP[ip] = EnabledAt(ip) \/ changed[ip] < Bound
    <3>1. registry.age < CacheTTL /\ registry.age \in Nat /\ changed[ip] \in Nat
      BY <1>0, <1>3 DEF Fresh
    <3>2. registry.byIP[ip] = EnabledAt(ip) \/ changed[ip] <= LoadLife + registry.age
      BY <3>1 DEF NasInv, SnapshotOK
    <3> QED
      BY <3>1, <3>2, NasAssumption DEF Bound
  <2>2. PICK f \in Find : f = Answer(ip, registry.byIP[ip])
    BY <2>1, AnswerOK
  <2>3. FindOK(f) /\ f.step = "answered"
    BY <2>1, <2>2, AnswerOK
  <2>4. SetFind(l, f)
    BY <1>2, <1>3, <2>2
  <2> QED
    BY <1>1, <2>3, <2>4, FindGoal
<1>4. CASE ~Fresh
  <2> DEFINE o == registry.byIP[ip]
             h == registry.loaded
  <2>1. o \in Answers /\ h \in BOOLEAN
    BY <1>0
  <2>2. SetFind(l, [NoLookup EXCEPT !.step = "reload", !.ip = ip, !.old = o, !.had = h])
    BY <1>2, <1>4
  <2> HIDE DEF o, h
  <2> DEFINE u == [NoLookup EXCEPT !.step = "reload"]
             v == [u EXCEPT !.ip = ip]
             x == [v EXCEPT !.old = o]
             f == [x EXCEPT !.had = h]
  <2>3. SetFind(l, f)
    BY <2>2
  <2>4. u \in Find /\ u.step = "reload"
    BY NoLookupType DEF Find
  <2> HIDE DEF u
  <2>5. v \in Find /\ v.step = "reload" /\ v.ip = ip
    BY <2>4 DEF Find
  <2> HIDE DEF v
  <2>6. x \in Find /\ x.step = "reload" /\ x.ip = ip
    BY <2>1, <2>5 DEF Find
  <2> HIDE DEF x
  <2>7. f \in Find /\ f.step = "reload" /\ f.ip = ip
    BY <2>1, <2>6 DEF Find
  <2> HIDE DEF f
  <2>8. FindOK(f)
    BY <2>7 DEF FindOK
  <2> QED
    BY <1>1, <2>3, <2>7, <2>8, FindGoal
<1> QED
  BY <1>3, <1>4

LEMMA QueryGoal ==
    ASSUME NasInv, NEW l \in Lookups, reloadQuery(l)
    PROVE  NasInv'
<1> DEFINE q == finds[l]
           r == [a \in Addrs |-> EnabledAt(a)]
<1>0. q \in Find /\ q.step = "reload" /\ q.ip \in Addrs
  BY DEF NasInv, NasType, reloadQuery, FindOK
<1>1. UNCHANGED <<nas, registry, changed>>
  BY DEF reloadQuery
<1>2. r \in [Addrs -> Answers]
  BY EnabledFacts DEF NasInv
<1>3. CASE SetFind(l, [q EXCEPT !.step = "store", !.age = 0, !.read = r])
  <2>1. \A a \in Addrs : r[a] = EnabledAt(a)
    OBVIOUS
  <2> HIDE DEF q, r
  <2> DEFINE u == [q EXCEPT !.step = "store"]
             v == [u EXCEPT !.age = 0]
             f == [v EXCEPT !.read = r]
  <2>2. SetFind(l, f)
    BY <1>3
  <2>3. u \in Find /\ u.step = "store" /\ u.ip \in Addrs
    BY <1>0 DEF Find
  <2> HIDE DEF u
  <2>4. v \in Find /\ v.step = "store" /\ v.ip \in Addrs /\ v.age = 0
    BY <2>3 DEF Find
  <2> HIDE DEF v
  <2>5. f \in Find /\ f.step = "store" /\ f.ip \in Addrs /\ f.age = 0 /\ f.read = r
    BY <1>2, <2>4 DEF Find
  <2> HIDE DEF f
  <2>6. FindOK(f)
    BY <2>1, <2>5, NasAssumption DEF FindOK
  <2> QED
    BY <1>1, <2>2, <2>5, <2>6, FindGoal
<1>4. CASE SetFind(l, [Answer(q.ip, q.old) EXCEPT !.sick = TRUE])
  <2>1. PICK f \in Find : /\ f = [Answer(q.ip, q.old) EXCEPT !.sick = TRUE]
                          /\ FindOK(f) /\ f.step = "answered"
    BY <1>0, SickAnswerOK
  <2>2. SetFind(l, f)
    BY <1>4, <2>1
  <2> QED
    BY <1>1, <2>1, <2>2, FindGoal
<1>5. CASE SetFind(l, NoLookup)
  <2>1. FindOK(NoLookup)
    BY NoLookupType DEF FindOK
  <2> QED
    BY <1>1, <1>5, <2>1, NoLookupType, FindGoal
<1> QED
  BY <1>3, <1>4, <1>5 DEF reloadQuery

LEMMA ReloadAnswerGoal ==
    ASSUME NasInv, NEW l \in Lookups, reloadAnswer(l)
    PROVE  NasInv'
<1> DEFINE q == finds[l]
<1>0. /\ q \in Find /\ q.step = "loaded" /\ q.ip \in Addrs /\ q.age <= LoadLife /\ registry.age <= q.age
      /\ registry.age \in Nat /\ changed[q.ip] \in Nat
  <2>1. q \in Find /\ q.step = "loaded" /\ FindOK(q)
    BY DEF NasInv, NasType, reloadAnswer
  <2>2. q.ip \in Addrs /\ q.age <= LoadLife /\ registry.age <= q.age
    BY <2>1 DEF FindOK
  <2>3. registry.age \in Nat /\ changed[q.ip] \in Nat
    BY <2>2 DEF NasInv, NasType
  <2> QED
    BY <2>1, <2>2, <2>3
<1>1. UNCHANGED <<nas, registry, changed>> /\ SetFind(l, Answer(q.ip, registry.byIP[q.ip]))
  BY DEF reloadAnswer
<1>2. registry.byIP[q.ip] = EnabledAt(q.ip) \/ changed[q.ip] <= LoadLife + registry.age
  BY <1>0 DEF NasInv, SnapshotOK
<1>3. registry.byIP[q.ip] = EnabledAt(q.ip) \/ changed[q.ip] < Bound
  <2>1. q.age \in Nat
    BY <1>0 DEF Find
  <2> DEFINE c == changed[q.ip]
             g == registry.age
             t == q.age
  <2>2. c \in Nat /\ g \in Nat /\ t \in Nat /\ g <= t /\ t <= LoadLife
    BY <1>0, <2>1
  <2> HIDE DEF c, g, t
  <2>3. c <= LoadLife + g => c < Bound
    BY <2>2, NasAssumption DEF Bound
  <2> QED
    BY <1>2, <2>3 DEF c, g
<1>4. PICK f \in Find : f = Answer(q.ip, registry.byIP[q.ip])
  BY <1>0, <1>3, AnswerOK
<1>5. FindOK(f) /\ f.step = "answered"
  BY <1>0, <1>3, <1>4, AnswerOK
<1> QED
  BY <1>1, <1>4, <1>5, FindGoal

LEMMA StoreGoal ==
    ASSUME NasInv, NEW l \in Lookups, reloadStore(l)
    PROVE  NasInv'
<1> DEFINE q == finds[l]
           t == q.age
           i == q.ip
<1>0. /\ q \in Find /\ i \in Addrs /\ t \in Nat /\ t <= LoadLife /\ q.read \in [Addrs -> Answers]
      /\ \A a \in Addrs : q.read[a] = EnabledAt(a) \/ changed[a] <= t
  <2>1. q \in Find /\ q.step = "store" /\ FindOK(q)
    BY DEF NasInv, NasType, reloadStore
  <2>2. t \in Nat /\ q.read \in [Addrs -> Answers]
    BY <2>1 DEF Find
  <2> QED
    BY <2>1, <2>2 DEF FindOK
<1>1. /\ registry' = [byIP |-> q.read, loaded |-> TRUE, age |-> 0]
      /\ SetFind(l, [NoLookup EXCEPT !.step = "loaded", !.ip = i, !.age = t])
      /\ UNCHANGED <<nas, changed>>
  BY DEF reloadStore
<1>2. registry'.byIP = q.read /\ registry'.age = 0
  BY <1>1
<1>3. registry' \in [byIP : [Addrs -> Answers], loaded : BOOLEAN, age : Nat]
  BY <1>0, <1>1
<1> HIDE DEF t, i
<1> DEFINE u == [NoLookup EXCEPT !.step = "loaded"]
           v == [u EXCEPT !.ip = i]
           f == [v EXCEPT !.age = t]
<1>4. SetFind(l, f)
  BY <1>1
<1>5. u \in Find /\ u.step = "loaded"
  BY NoLookupType DEF Find
<1> HIDE DEF u
<1>6. v \in Find /\ v.step = "loaded" /\ v.ip = i
  BY <1>0, <1>5 DEF Find
<1> HIDE DEF v
<1>7. f \in Find /\ f.step = "loaded" /\ f.ip = i /\ f.age = t
  BY <1>0, <1>6 DEF Find
<1> HIDE DEF f
<1>8. finds' \in [Lookups -> Find] /\ finds'[l] = f /\ \A k \in Lookups \ {l} : finds'[k] = finds[k]
  <2>1. finds \in [Lookups -> Find]
    BY DEF NasInv, NasType
  <2> QED
    BY <1>4, <1>7, <2>1 DEF SetFind
<1>9. NasType' /\ OnePerAddress'
  BY <1>1, <1>3, <1>8 DEF NasInv, NasType, OnePerAddress
<1>10. \A a : EnabledAt(a)' = EnabledAt(a)
  BY <1>1 DEF EnabledAt
<1>11. ASSUME NEW k \in Lookups PROVE FindOK(finds[k])'
  <2>1. CASE k = l
    BY <1>0, <1>2, <1>7, <1>8, <2>1 DEF FindOK
  <2>2. CASE k # l
    <3>1. FindOK(finds[k]) /\ finds[k].age \in Nat
      BY DEF NasInv, NasType, Find
    <3> QED
      BY <1>1, <1>2, <1>8, <1>10, <2>2, <3>1 DEF FindOK
  <2> QED
    BY <2>1, <2>2
<1>12. ASSUME NEW a \in Addrs PROVE registry'.byIP[a] = EnabledAt(a)' \/ changed'[a] <= LoadLife + registry'.age
  <2>1. changed[a] \in Nat
    BY DEF NasInv, NasType
  <2>2. changed[a] <= t => changed'[a] <= LoadLife + registry'.age
    BY <1>0, <1>1, <1>2, <2>1, NasAssumption
  <2> QED
    BY <1>0, <1>2, <1>10, <2>2
<1>13. SnapshotOK'
  BY <1>12 DEF SnapshotOK
<1> QED
  BY <1>9, <1>11, <1>13 DEF NasInv

\* A row is written: an address is marked as changed, or its router is the
\* one it was.
LEMMA EditGoal ==
    ASSUME NasInv, NEW n \in NasIds, NEW w \in NasRow, nas' = [nas EXCEPT ![n] = w],
           w.enabled => Unique(n, w.ip), afterNASChange, finds' = finds
    PROVE  NasInv'
<1>0. /\ nas \in [NasIds -> NasRow] /\ changed \in [Addrs -> Nat]
      /\ registry \in [byIP : [Addrs -> Answers], loaded : BOOLEAN, age : Nat]
  BY DEF NasInv, NasType
<1>1. nas' \in [NasIds -> NasRow] /\ nas'[n] = w /\ \A m \in NasIds \ {n} : nas'[m] = nas[m]
  BY <1>0
<1>2. /\ registry' \in [byIP : [Addrs -> Answers], loaded : BOOLEAN, age : Nat]
      /\ registry'.byIP = registry.byIP /\ registry'.age = registry.age
  BY <1>0 DEF afterNASChange, invalidate
<1>3. changed' = [a \in Addrs |->
           IF \E m \in NasIds : nas[m] # nas'[m] /\ a \in {nas[m].ip, nas'[m].ip} THEN 0 ELSE changed[a]]
  BY DEF afterNASChange
<1>4. changed' \in [Addrs -> Nat]
  BY <1>0, <1>3
<1>5. OnePerAddress'
  <2> SUFFICES ASSUME NEW k \in NasIds, NEW m \in NasIds, nas'[k].enabled, nas'[m].enabled,
                      nas'[k].ip = nas'[m].ip
               PROVE  k = m
    BY DEF OnePerAddress
  <2>1. CASE k # n /\ m # n
    BY <1>1, <2>1 DEF NasInv, OnePerAddress
  <2>2. CASE k = n /\ m # n
    BY <1>1, <2>2 DEF Unique
  <2>3. CASE k # n /\ m = n
    BY <1>1, <2>3 DEF Unique
  <2> QED
    BY <2>1, <2>2, <2>3
<1>6. ASSUME NEW a \in Addrs, changed'[a] # 0
      PROVE  EnabledAt(a)' = EnabledAt(a) /\ changed'[a] = changed[a]
  <2>1. /\ \A m \in NasIds : nas[m] = nas'[m] \/ (a # nas[m].ip /\ a # nas'[m].ip)
        /\ changed'[a] = changed[a]
    BY <1>3, <1>6
  <2>2. CASE \E m \in NasIds : nas[m].ip = a /\ nas[m].enabled
    <3>1. PICK m \in NasIds : nas[m].ip = a /\ nas[m].enabled
      BY <2>2
    <3>2. nas'[m] = nas[m]
      BY <2>1, <3>1
    <3>3. EnabledAt(a) = m
      BY <3>1, EnabledFacts DEF NasInv
    <3>4. EnabledAt(a)' = m
      BY <1>5, <3>1, <3>2, EnabledFactsNext
    <3> QED
      BY <2>1, <3>3, <3>4
  <2>3. CASE \A m \in NasIds : ~(nas[m].ip = a /\ nas[m].enabled)
    <3>1. \A m \in NasIds : ~(nas'[m].ip = a /\ nas'[m].enabled)
      BY <2>1, <2>3
    <3>2. EnabledAt(a) = NoNas
      BY <2>3, EnabledFacts DEF NasInv
    <3>3. EnabledAt(a)' = NoNas
      BY <1>5, <3>1, EnabledFactsNext
    <3> QED
      BY <2>1, <3>2, <3>3
  <2> QED
    BY <2>2, <2>3
<1>7. NasType'
  BY <1>1, <1>2, <1>4 DEF NasInv, NasType
<1>8. ASSUME NEW l \in Lookups PROVE FindOK(finds[l])'
  <2>1. FindOK(finds[l]) /\ finds[l].age \in Nat
    BY DEF NasInv, NasType, Find
  <2>2. finds'[l] = finds[l]
    OBVIOUS
  <2>3. finds[l].step = "store" =>
          \A a \in Addrs : finds[l].read[a] = EnabledAt(a)' \/ changed'[a] <= finds[l].age
    <3> SUFFICES ASSUME finds[l].step = "store", NEW a \in Addrs
                 PROVE  finds[l].read[a] = EnabledAt(a)' \/ changed'[a] <= finds[l].age
      OBVIOUS
    <3>1. CASE changed'[a] = 0
      BY <2>1, <3>1
    <3>2. CASE changed'[a] # 0
      BY <1>6, <2>1, <3>2 DEF FindOK
    <3> QED
      BY <3>1, <3>2
  <2> QED
    BY <1>2, <2>1, <2>2, <2>3 DEF FindOK
<1>9. ASSUME NEW a \in Addrs,
             registry.byIP[a] = EnabledAt(a) \/ changed[a] <= LoadLife + registry.age
      PROVE  registry'.byIP[a] = EnabledAt(a)' \/ changed'[a] <= LoadLife + registry'.age
  <2>1. CASE changed'[a] = 0
    <3>1. registry.age \in Nat
      BY <1>0
    <3> QED
      BY <1>2, <2>1, <3>1, NasAssumption
  <2>2. CASE changed'[a] # 0
    BY <1>2, <1>6, <1>9, <2>2
  <2> QED
    BY <2>1, <2>2
<1>10. SnapshotOK'
  BY <1>2, <1>9 DEF NasInv, SnapshotOK
<1> QED
  BY <1>5, <1>7, <1>8, <1>10 DEF NasInv

LEMMA MutationGoal ==
    ASSUME NasInv, createNASHandler \/ updateNASHandler \/ deleteNASHandler
    PROVE  NasInv'
<1>0. nas \in [NasIds -> NasRow]
  BY DEF NasInv, NasType
<1>1. CASE createNASHandler
  <2>1. PICK n \in NasIds, ip \in Addrs, secret \in Secrets :
          /\ Unique(n, ip) /\ afterNASChange /\ Rest
          /\ nas' = [nas EXCEPT ![n] = replaceServices(insertNAS(n, ip, secret), 1)]
    BY <1>1 DEF createNASHandler
  <2> DEFINE w == replaceServices(insertNAS(n, ip, secret), 1)
  <2>2. w \in NasRow /\ w.ip = ip
    <3>1. secret \in Nat
      BY NasAssumption
    <3> QED
      BY <3>1 DEF replaceServices, insertNAS, NasRow
  <2>3. nas' = [nas EXCEPT ![n] = w] /\ finds' = finds
    BY <2>1 DEF Rest
  <2> HIDE DEF w
  <2> QED
    BY <2>1, <2>2, <2>3, EditGoal
<1>2. CASE updateNASHandler
  <2>1. PICK n \in NasIds, ip \in Addrs, secret \in {0} \union Secrets, turn \in BOOLEAN :
          /\ Unique(n, ip) /\ afterNASChange /\ Rest
          /\ nas' = [nas EXCEPT ![n] = replaceServices(updateNAS(n, ip, secret, turn), 1)]
    BY <1>2 DEF updateNASHandler
  <2> DEFINE w == replaceServices(updateNAS(n, ip, secret, turn), 1)
             q == nas[n]
             s == IF secret = 0 THEN q.secret ELSE secret
             t == [q EXCEPT !.ip = ip]
             u == [t EXCEPT !.enabled = turn]
             v == [u EXCEPT !.secret = s]
  <2>2. w = [v EXCEPT !.services = 1]
    BY <1>0 DEF replaceServices, updateNAS, NasRow
  <2>3. q \in NasRow /\ s \in Nat
    <3>1. q \in NasRow /\ secret \in Nat
      BY <1>0, NasAssumption
    <3> HIDE DEF q
    <3> QED
      BY <3>1 DEF NasRow
  <2> HIDE DEF q, s, w
  <2>4. t \in NasRow /\ t.ip = ip
    BY <2>3 DEF NasRow
  <2> HIDE DEF t
  <2>5. u \in NasRow /\ u.ip = ip
    BY <2>4 DEF NasRow
  <2> HIDE DEF u
  <2>6. v \in NasRow /\ v.ip = ip
    BY <2>3, <2>5 DEF NasRow
  <2> HIDE DEF v
  <2>7. w \in NasRow /\ w.ip = ip
    BY <2>2, <2>6 DEF NasRow
  <2>8. nas' = [nas EXCEPT ![n] = w] /\ finds' = finds
    BY <2>1 DEF Rest, w
  <2> QED
    BY <2>1, <2>7, <2>8, EditGoal
<1>3. CASE deleteNASHandler
  <2>1. PICK n \in NasIds : nas' = [nas EXCEPT ![n] = NoRouter] /\ afterNASChange /\ Rest
    BY <1>3 DEF deleteNASHandler, deleteNAS
  <2>2. NoRouter \in NasRow /\ ~NoRouter.enabled
    BY DEF NoRouter, NasRow
  <2>3. finds' = finds
    BY <2>1 DEF Rest
  <2> QED
    BY <2>1, <2>2, <2>3, EditGoal
<1> QED
  BY <1>1, <1>2, <1>3

LEMMA NasTickGoal ==
    ASSUME NasInv, NasTick
    PROVE  NasInv'
<1>0. /\ changed \in [Addrs -> Nat] /\ finds \in [Lookups -> Find]
      /\ registry \in [byIP : [Addrs -> Answers], loaded : BOOLEAN, age : Nat]
      /\ CacheTTL \in Nat /\ LoadLife \in Nat /\ LoadLife <= CacheTTL /\ Bound \in Nat
  BY NasAssumption DEF NasInv, NasType, Bound
<1> DEFINE g == registry.age
           h == IF g < CacheTTL THEN g + 1 ELSE g
<1>1. /\ registry' = [registry EXCEPT !.age = h] /\ nas' = nas
      /\ \A l \in Lookups : finds[l].step \in {"store", "loaded"} => finds[l].age < LoadLife
      /\ finds' = [l \in Lookups |-> IF finds[l].step \in {"store", "loaded"}
                                     THEN [finds[l] EXCEPT !.age = @ + 1] ELSE finds[l]]
      /\ changed' = [a \in Addrs |-> IF changed[a] < Bound THEN changed[a] + 1 ELSE changed[a]]
  BY <1>0 DEF NasTick
<1>2. g \in Nat /\ h \in Nat /\ h <= g + 1
  <2>1. g \in Nat
    BY <1>0
  <2> HIDE DEF g
  <2> QED
    BY <2>1, <1>0
<1>3. g < CacheTTL => h = g + 1
  OBVIOUS
<1>4. h < CacheTTL => g < CacheTTL
  <2> HIDE DEF g
  <2> QED
    BY <1>0, <1>2
<1> HIDE DEF h
<1>5. /\ registry' \in [byIP : [Addrs -> Answers], loaded : BOOLEAN, age : Nat]
      /\ registry'.byIP = registry.byIP /\ registry'.age = h
  BY <1>0, <1>1, <1>2
<1>6. changed' \in [Addrs -> Nat] /\ \A a \in Addrs : changed'[a] <= changed[a] + 1
  BY <1>0, <1>1
<1>7. ASSUME NEW l \in Lookups
      PROVE  /\ finds'[l] \in Find
             /\ finds[l].step \in {"store", "loaded"} =>
                  /\ finds'[l].step = finds[l].step /\ finds'[l].ip = finds[l].ip
                  /\ finds'[l].read = finds[l].read /\ finds'[l].age = finds[l].age + 1
             /\ finds[l].step \notin {"store", "loaded"} => finds'[l] = finds[l]
  <2> DEFINE q == finds[l]
             w == [q EXCEPT !.age = @ + 1]
  <2>1. q \in Find /\ finds'[l] = IF q.step \in {"store", "loaded"} THEN w ELSE q
    BY <1>0, <1>1
  <2> HIDE DEF q
  <2>2. w \in Find /\ w.step = q.step /\ w.ip = q.ip /\ w.read = q.read /\ w.age = q.age + 1
    BY <2>1 DEF Find
  <2> HIDE DEF w
  <2> QED
    BY <2>1, <2>2 DEF q
<1>8. finds' \in [Lookups -> Find]
  BY <1>1, <1>7
<1>9. NasType' /\ OnePerAddress'
  BY <1>1, <1>5, <1>6, <1>8 DEF NasInv, NasType, OnePerAddress
<1>10. \A a : EnabledAt(a)' = EnabledAt(a)
  BY <1>1 DEF EnabledAt
<1>11. ASSUME NEW l \in Lookups PROVE FindOK(finds[l])'
  <2>1. FindOK(finds[l]) /\ finds[l].age \in Nat
    BY <1>0 DEF NasInv, Find
  <2>2. CASE finds[l].step \in {"store", "loaded"}
    <3>1. finds[l].age < LoadLife
      BY <1>1, <2>2
    <3>2. /\ finds'[l].step = finds[l].step /\ finds'[l].ip = finds[l].ip
          /\ finds'[l].read = finds[l].read /\ finds'[l].age = finds[l].age + 1
      BY <1>7, <2>2
    <3>3. finds'[l].age <= LoadLife /\ finds'[l].ip \in Addrs
      BY <1>0, <2>1, <2>2, <3>1, <3>2 DEF FindOK
    <3>4. finds'[l].step = "loaded" => registry'.age <= finds'[l].age
      <4>1. finds[l].step = "loaded" => g <= finds[l].age
        BY <2>1 DEF FindOK
      <4> HIDE DEF g
      <4> QED
        BY <1>2, <1>5, <2>1, <3>2, <4>1
    <3>5. finds'[l].step = "store" =>
            \A a \in Addrs : finds'[l].read[a] = EnabledAt(a)' \/ changed'[a] <= finds'[l].age
      <4> SUFFICES ASSUME finds'[l].step = "store", NEW a \in Addrs
                   PROVE  finds'[l].read[a] = EnabledAt(a)' \/ changed'[a] <= finds'[l].age
        OBVIOUS
      <4>1. finds[l].read[a] = EnabledAt(a) \/ changed[a] <= finds[l].age
        BY <2>1, <3>2 DEF FindOK
      <4>2. changed[a] \in Nat /\ changed'[a] \in Nat /\ changed'[a] <= changed[a] + 1
        BY <1>0, <1>6
      <4>3. changed[a] <= finds[l].age => changed'[a] <= finds'[l].age
        BY <2>1, <3>2, <4>2
      <4> QED
        BY <1>10, <3>2, <4>1, <4>3
    <3> QED
      BY <2>2, <3>2, <3>3, <3>4, <3>5 DEF FindOK
  <2>3. CASE finds[l].step \notin {"store", "loaded"}
    <3>1. finds'[l] = finds[l]
      BY <1>7, <2>3
    <3> QED
      BY <2>1, <2>3, <3>1 DEF FindOK
  <2> QED
    BY <2>2, <2>3
<1>12. SnapshotOK'
  <2> SUFFICES ASSUME registry'.age < CacheTTL \/ \E l \in Lookups : finds'[l].step = "loaded",
                      NEW a \in Addrs
               PROVE  registry'.byIP[a] = EnabledAt(a)' \/ changed'[a] <= LoadLife + registry'.age
    BY DEF SnapshotOK
  <2>1. g < CacheTTL
    <3>1. CASE registry'.age < CacheTTL
      BY <1>4, <1>5, <3>1
    <3>2. CASE \E l \in Lookups : finds'[l].step = "loaded"
      <4>1. PICK l \in Lookups : finds'[l].step = "loaded"
        BY <3>2
      <4>2. finds[l].step = "loaded" /\ finds[l].age < LoadLife /\ finds[l].age \in Nat
        BY <1>0, <1>1, <1>7, <4>1 DEF Find
      <4>3. g <= finds[l].age
        BY <4>2 DEF NasInv, FindOK
      <4> HIDE DEF g
      <4> QED
        BY <1>0, <1>2, <4>2, <4>3
    <3> QED
      BY <3>1, <3>2
  <2>2. registry'.age = g + 1
    BY <1>3, <1>5, <2>1
  <2>3. registry.byIP[a] = EnabledAt(a) \/ changed[a] <= LoadLife + g
    BY <2>1 DEF NasInv, SnapshotOK
  <2>4. changed[a] \in Nat /\ changed'[a] \in Nat /\ changed'[a] <= changed[a] + 1
    BY <1>0, <1>6
  <2> HIDE DEF g
  <2>5. changed[a] <= LoadLife + g => changed'[a] <= LoadLife + (g + 1)
    BY <1>0, <1>2, <2>4
  <2> QED
    BY <1>5, <1>10, <2>2, <2>3, <2>5
<1> QED
  BY <1>9, <1>11, <1>12 DEF NasInv

LEMMA NasStart == NasInit => NasInv
<1> SUFFICES ASSUME NasInit PROVE NasInv
  OBVIOUS
<1>1. NoRouter \in NasRow /\ ~NoRouter.enabled
  BY DEF NoRouter, NasRow
<1>2. nas \in [NasIds -> NasRow] /\ \A n \in NasIds : ~nas[n].enabled
  BY <1>1 DEF NasInit
<1>3. Bound \in Nat
  BY NasAssumption DEF Bound
<1>4. changed \in [Addrs -> Nat]
  BY <1>3 DEF NasInit
<1>5. registry \in [byIP : [Addrs -> Answers], loaded : BOOLEAN, age : Nat]
  BY DEF NasInit, Answers
<1>6. finds \in [Lookups -> Find] /\ \A l \in Lookups : finds[l].step = "idle"
  BY NoLookupType DEF NasInit
<1>7. NasType /\ OnePerAddress
  BY <1>2, <1>4, <1>5, <1>6 DEF NasType, OnePerAddress
<1>8. \A l \in Lookups : FindOK(finds[l])
  BY <1>6 DEF FindOK
<1>9. \A a \in Addrs : registry.byIP[a] = EnabledAt(a)
  <2>1. \A a \in Addrs : registry.byIP[a] = NoNas
    BY DEF NasInit
  <2>2. \A a : EnabledAt(a) = NoNas
    BY <1>2, <1>7, EnabledFacts
  <2> QED
    BY <2>1, <2>2
<1>10. SnapshotOK
  BY <1>9 DEF SnapshotOK
<1> QED
  BY <1>7, <1>8, <1>10 DEF NasInv

\* The snapshot's life and one slow reload: for any number of routers,
\* addresses and lookups, however reloads, invalidations and edits interleave,
\* an answer is never wrong about an address that was left alone for longer
\* (nas_store.go:240-307).
THEOREM RegistryCorrect == NasSpec => []RegistryCurrent
<1>1. NasInit => NasInv
  BY NasStart
<1>2. NasInv /\ [NasNext]_nasVars => NasInv'
  <2> SUFFICES ASSUME NasInv, [NasNext]_nasVars PROVE NasInv'
    OBVIOUS
  <2>1. CASE UNCHANGED <<nas, registry, finds, changed>>
    <3>1. \A a : EnabledAt(a)' = EnabledAt(a)
      BY <2>1 DEF EnabledAt
    <3>2. NasType' /\ OnePerAddress'
      BY <2>1 DEF NasInv, NasType, OnePerAddress
    <3>3. \A l \in Lookups : FindOK(finds[l])'
      BY <2>1, <3>1 DEF NasInv, FindOK
    <3>4. SnapshotOK'
      BY <2>1, <3>1 DEF NasInv, SnapshotOK
    <3> QED
      BY <3>2, <3>3, <3>4 DEF NasInv
  <2>2. CASE regenerateList \/ regenerateWrite \/ dynamicClientHandler \/ UNCHANGED nasVars
    BY <2>1, <2>2 DEF regenerateList, regenerateWrite, dynamicClientHandler, nasVars
  <2> QED
    BY <2>2, MutationGoal, LookupGoal, QueryGoal, StoreGoal, ReloadAnswerGoal, NasTickGoal DEF NasNext
<1>3. NasInv => RegistryCurrent
  BY DEF NasInv, FindOK, RegistryCurrent
<1> QED
  BY <1>1, <1>2, <1>3, PTL DEF NasSpec

-----------------------------------------------------------------------------
(* Subscribers.                                                            *)

RowRecs == [st : {"none", "active", "disabled"}, own : Owners, ip : {0, 1}, paid : BOOLEAN, guest : BOOLEAN]
WriterRecs == [at : {"idle", "create", "update", "delete"}, name : Names \union {0}, in : RowRecs, scoped : BOOLEAN]
BulkActs == {"enable", "disable", "move_owner", "delete"}
BulkRecs == [at : {"idle", "rows", "delete"}, act : BulkActs \union {"none"}, todo : SUBSET Names,
             checked : Names \union {0}]
BatchRecs == [at : {"idle", "rows"}, mode : {"none", "each", "batch"}, todo : SUBSET Names, coll : SUBSET Names,
              made : Names \union {0}]

CustType ==
    /\ subs \in [Names -> RowRecs] /\ writers \in [Writers -> WriterRecs]
    /\ \A w \in Writers : writers[w].at # "idle" => writers[w].name \in Names
    /\ bulk \in BulkRecs
    /\ bulk.at # "idle" => bulk.todo # {} /\ bulk.act \in BulkActs
    /\ bulk.at = "delete" => bulk.checked \in Names
    /\ batch \in BatchRecs /\ overlapped \in BOOLEAN

\* One request at a time stands between its check and its write.
OnePending ==
    /\ \A v, w \in Writers : writers[v].at # "idle" /\ writers[w].at # "idle" => v = w
    /\ (\E w \in Writers : writers[w].at # "idle") => bulk.at # "delete" /\ batch.at # "rows"
    /\ ~(bulk.at = "delete" /\ batch.at = "rows")

\* The accounts that count, and those that were promised a place by a check.
Counted == {n \in Names : subs[n].st # "none" /\ ~subs[n].guest}
Promised == {n \in Names : \E w \in Writers : writers[w].at = "create" /\ writers[w].name = n}
Batched == IF batch.at = "rows" THEN batch.todo \ batch.coll ELSE {}
CapOK == Cap > 0 => Cardinality(Counted \union Promised \union Batched) <= Cap

\* An address has one holder, and the one a write will set is free but for
\* the row it is about.
FreeBut(ip, n) == \A m \in Names : m # n /\ subs[m].st # "none" => subs[m].ip # ip
AddressOK ==
    /\ \A m, n \in Names : /\ subs[m].st # "none" /\ subs[n].st # "none"
                           /\ subs[m].ip = subs[n].ip /\ subs[m].ip # 0
                           => m = n
    /\ \A w \in Writers : writers[w].at \in {"create", "update"} /\ writers[w].in.ip # 0
                          => FreeBut(writers[w].in.ip, writers[w].name)

\* A row about to be deleted has no money.
MoneyOK ==
    /\ orphans = {}
    /\ \A w \in Writers : writers[w].at = "delete" => ~subs[writers[w].name].paid
    /\ bulk.at = "delete" => ~subs[bulk.checked].paid

CustInv == CustType /\ (~overlapped => OnePending /\ CapOK /\ AddressOK /\ MoneyOK)

LEMMA NoRowTyped == NoRow \in RowRecs /\ NoRow.st = "none" /\ NoRow.ip = 0 /\ NoRow.paid = FALSE
BY DEF NoRow, RowRecs, Owners

LEMMA NoWriterTyped == NoWriter \in WriterRecs /\ NoWriter.at = "idle"
BY NoRowTyped DEF NoWriter, WriterRecs

LEMMA NoBulkTyped == NoBulk \in BulkRecs /\ NoBulk.at = "idle"
BY DEF NoBulk, BulkRecs

LEMMA NoBatchTyped == NoBatch \in BatchRecs /\ NoBatch.at = "idle"
BY DEF NoBatch, BatchRecs

\* The next of some names is one of them.
LEMMA NextName ==
    ASSUME NEW T \in SUBSET Names, T # {}
    PROVE  Next1(T) \in T
<1>1. T \subseteq Nat
  BY SubscribersAssumption
<1> DEFINE R == OpToRel(<, Nat)
<1>2. IsWellFoundedOn(R, Nat)
  BY NatLessThanWellFounded, Zenon
<1>3. \A a, b \in Nat : a < b => <<a, b>> \in R
  BY DEF OpToRel
<1> HIDE DEF R
<1>4. PICK x \in T : \A y \in T : ~(<<y, x>> \in R)
  BY <1>1, <1>2, WFMin
<1>5. ASSUME NEW y \in T PROVE x <= y
  <2>1. x \in Nat /\ y \in Nat
    BY <1>1
  <2>2. ~(y < x)
    BY <1>3, <1>4, <2>1
  <2> QED
    BY <2>1, <2>2
<1> QED
  BY <1>5 DEF Next1

LEMMA CustInvInit == SubsInit => CustInv
<1> SUFFICES ASSUME SubsInit PROVE CustInv
  OBVIOUS
<1>1. CustType
  BY NoRowTyped, NoWriterTyped, NoBulkTyped, NoBatchTyped DEF SubsInit, CustType
<1>2. /\ \A n \in Names : subs[n].st = "none"
      /\ \A w \in Writers : writers[w].at = "idle"
      /\ bulk.at = "idle" /\ batch.at = "idle" /\ orphans = {}
  BY NoRowTyped, NoWriterTyped, NoBulkTyped, NoBatchTyped DEF SubsInit
<1>3. OnePending /\ AddressOK /\ MoneyOK
  BY <1>2 DEF OnePending, AddressOK, MoneyOK
<1>4. CapOK
  <2>1. Counted \union Promised \union Batched = {}
    BY <1>2 DEF Counted, Promised, Batched
  <2>2. Cardinality({}) = 0
    BY FS_EmptySet
  <2> QED
    BY <2>1, <2>2, SubscribersAssumption DEF CapOK
<1> QED
  BY <1>1, <1>3, <1>4 DEF CustInv

\* A row is written, a request begins or ends.
LEMMA RowSet ==
    ASSUME CustType, NEW n \in Names, NEW r \in RowRecs, subs' = [subs EXCEPT ![n] = r]
    PROVE  /\ subs' \in [Names -> RowRecs] /\ subs'[n] = r
           /\ \A m \in Names : m # n => subs'[m] = subs[m]
<1>1. subs \in [Names -> RowRecs]
  BY DEF CustType
<1> QED
  BY <1>1

LEMMA WriterSet ==
    ASSUME CustType, NEW w \in Writers, NEW r \in WriterRecs, r.at # "idle" => r.name \in Names,
           writers' = [writers EXCEPT ![w] = r]
    PROVE  /\ writers' \in [Writers -> WriterRecs] /\ writers'[w] = r
           /\ \A v \in Writers : v # w => writers'[v] = writers[v]
           /\ \A v \in Writers : writers'[v].at # "idle" => writers'[v].name \in Names
<1>1. writers \in [Writers -> WriterRecs]
  BY DEF CustType
<1>2. /\ writers' \in [Writers -> WriterRecs] /\ writers'[w] = r
      /\ \A v \in Writers : v # w => writers'[v] = writers[v]
  BY <1>1
<1> QED
  BY <1>2 DEF CustType

LEMMA WriterEnds ==
    ASSUME CustType, NEW w \in Writers, End(w)
    PROVE  /\ writers' \in [Writers -> WriterRecs] /\ writers'[w].at = "idle"
           /\ \A v \in Writers : v # w => writers'[v] = writers[v]
           /\ \A v \in Writers : writers'[v].at # "idle" => writers'[v].name \in Names
BY NoWriterTyped, WriterSet DEF End

\* What a check leaves of overlapped.
LEMMA LooksTyped ==
    ASSUME CustType, Looks
    PROVE  overlapped' \in BOOLEAN /\ (~overlapped' => ~overlapped /\ ~Pending)
BY DEF CustType, Looks

\* A row keeps what an update does not name.
LEMMA RowFields ==
    ASSUME NEW r \in RowRecs, NEW st \in {"active", "disabled"}, NEW ip \in {0, 1}
    PROVE  LET u == [r EXCEPT !.st = st, !.ip = ip]
               p == [r EXCEPT !.paid = TRUE, !.st = "active"]
           IN  /\ u \in RowRecs /\ u.st = st /\ u.ip = ip /\ u.paid = r.paid /\ u.guest = r.guest
               /\ p \in RowRecs /\ p.st = "active" /\ p.ip = r.ip /\ p.paid = TRUE /\ p.guest = r.guest
BY DEF RowRecs

LEMMA BulkRow ==
    ASSUME NEW r \in RowRecs, NEW act \in BulkActs, act # "delete"
    PROVE  LET u == BuildBulkApply(act, r)
           IN  u \in RowRecs /\ u.ip = r.ip /\ u.paid = r.paid /\ u.guest = r.guest /\ u.st \in {r.st, "active", "disabled"}
<1>1. CASE act = "enable"
  BY <1>1 DEF BuildBulkApply, RowRecs
<1>2. CASE act = "disable"
  BY <1>2 DEF BuildBulkApply, RowRecs
<1>3. CASE act = "move_owner"
  BY <1>3 DEF BuildBulkApply, RowRecs, Owners
<1> QED
  BY <1>1, <1>2, <1>3 DEF BulkActs

\* What a step does that starts nothing: requests and jobs go on or end.
Ebbs ==
    /\ \A w \in Writers : writers'[w] = writers[w] \/ writers'[w].at = "idle"
    /\ bulk'.at = "delete" => bulk.at = "delete" /\ bulk'.checked = bulk.checked
    /\ batch'.at = "rows" => batch.at = "rows" /\ batch'.todo \ batch'.coll \subseteq batch.todo \ batch.coll

LEMMA AddressKept ==
    ASSUME AddressOK, Ebbs,
           \A m \in Names : subs'[m].st # "none" /\ subs'[m].ip # 0 => subs[m].st # "none" /\ subs[m].ip = subs'[m].ip
    PROVE  AddressOK'
<1>1. \A m, n \in Names : /\ subs'[m].st # "none" /\ subs'[n].st # "none"
                          /\ subs'[m].ip = subs'[n].ip /\ subs'[m].ip # 0
                          => m = n
  BY DEF AddressOK
<1>2. ASSUME NEW w \in Writers, writers'[w].at \in {"create", "update"}, writers'[w].in.ip # 0,
             NEW m \in Names, m # writers'[w].name, subs'[m].st # "none"
      PROVE  subs'[m].ip # writers'[w].in.ip
  <2>1. writers'[w] = writers[w]
    BY <1>2 DEF Ebbs
  <2>2. FreeBut(writers[w].in.ip, writers[w].name)
    BY <1>2, <2>1 DEF AddressOK
  <2>3. subs[m].st # "none" => subs[m].ip # writers[w].in.ip
    BY <1>2, <2>1, <2>2 DEF FreeBut
  <2> QED
    BY <1>2, <2>1, <2>3
<1>3. \A w \in Writers : writers'[w].at \in {"create", "update"} /\ writers'[w].in.ip # 0
                         => FreeBut(writers[w].in.ip, writers[w].name)'
  BY <1>2 DEF FreeBut
<1> QED
  BY <1>1, <1>3 DEF AddressOK

LEMMA MoneyKept ==
    ASSUME CustType, MoneyOK, Ebbs, orphans' = {}, \A m \in Names : subs'[m].paid => subs[m].paid
    PROVE  MoneyOK'
<1>1. ASSUME NEW w \in Writers, writers'[w].at = "delete" PROVE ~subs'[writers'[w].name].paid
  <2>1. writers'[w] = writers[w] /\ writers[w].name \in Names
    BY <1>1 DEF Ebbs, CustType
  <2> QED
    BY <1>1, <2>1 DEF MoneyOK
<1>2. ASSUME bulk'.at = "delete" PROVE ~subs'[bulk'.checked].paid
  <2>1. bulk.at = "delete" /\ bulk'.checked = bulk.checked /\ bulk.checked \in Names
    BY <1>2 DEF Ebbs, CustType
  <2> QED
    BY <2>1 DEF MoneyOK
<1> QED
  BY <1>1, <1>2 DEF MoneyOK

LEMMA CapWithin ==
    ASSUME NEW S \in SUBSET Names, NEW T \in SUBSET S, Cap > 0 => Cardinality(S) <= Cap
    PROVE  Cap > 0 => Cardinality(T) <= Cap
<1>1. IsFiniteSet(S)
  BY SubscribersAssumption, FS_Subset
<1>2. IsFiniteSet(T) /\ Cardinality(T) <= Cardinality(S)
  BY <1>1, FS_Subset
<1>3. Cardinality(S) \in Nat /\ Cardinality(T) \in Nat
  BY <1>1, <1>2, FS_CardinalityType
<1> QED
  BY <1>2, <1>3, SubscribersAssumption

LEMMA CustKept ==
    ASSUME CustInv, CustType', overlapped' = overlapped, Ebbs,
           \A m \in Names : subs'[m].st # "none" /\ ~subs'[m].guest => m \in Counted \union Promised \union Batched,
           ~overlapped => AddressOK' /\ MoneyOK'
    PROVE  CustInv'
<1> SUFFICES ASSUME ~overlapped PROVE OnePending' /\ CapOK'
  BY DEF CustInv
<1>1. OnePending /\ CapOK /\ CustType
  BY DEF CustInv
<1>2. OnePending'
  BY <1>1 DEF OnePending, Ebbs
<1>3. CapOK'
  <2> DEFINE S == Counted \union Promised \union Batched
             T == S'
  <2>1. T \subseteq S
    <3>1. Counted' \subseteq S
      BY DEF Counted
    <3>2. Promised' \subseteq Promised
      BY DEF Promised, Ebbs
    <3>3. Batched' \subseteq Batched
      BY DEF Batched, Ebbs
    <3> QED
      BY <3>1, <3>2, <3>3
  <2>2. S \subseteq Names
    BY <1>1 DEF Counted, Promised, Batched, CustType, BatchRecs
  <2> HIDE DEF S, T
  <2>3. Cap > 0 => Cardinality(S) <= Cap
    BY <1>1 DEF CapOK, S
  <2>4. Cap > 0 => Cardinality(T) <= Cap
    BY <2>1, <2>2, <2>3, CapWithin
  <2> QED
    BY <2>4 DEF CapOK, S, T
<1> QED
  BY <1>2, <1>3

\* A step that writes no row.
LEMMA CustRests ==
    ASSUME CustInv, CustType', overlapped' = overlapped, Ebbs, UNCHANGED <<subs, orphans>>
    PROVE  CustInv'
<1>1. \A m \in Names : subs'[m].st # "none" /\ ~subs'[m].guest => m \in Counted \union Promised \union Batched
  BY DEF Counted
<1>2. ASSUME ~overlapped PROVE AddressOK' /\ MoneyOK'
  <2>1. AddressOK /\ MoneyOK /\ CustType
    BY <1>2 DEF CustInv
  <2>2. AddressOK'
    BY <2>1, AddressKept
  <2>3. MoneyOK'
    <3>1. orphans' = {}
      BY <2>1 DEF MoneyOK
    <3> QED
      BY <2>1, <3>1, MoneyKept
  <2> QED
    BY <2>2, <2>3
<1> QED
  BY <1>1, <1>2, CustKept

\* A step that writes one row and neither its address nor its money.
LEMMA CustWrites ==
    ASSUME CustInv, CustType', overlapped' = overlapped, Ebbs, orphans' = orphans,
           NEW n \in Names, NEW r \in RowRecs, subs' = [subs EXCEPT ![n] = r],
           r.st # "none" /\ ~r.guest => n \in Counted \union Promised \union Batched,
           r.st # "none" /\ r.ip # 0 => subs[n].st # "none" /\ subs[n].ip = r.ip,
           r.paid => subs[n].paid
    PROVE  CustInv'
<1>0. CustType
  BY DEF CustInv
<1>1. subs'[n] = r /\ \A m \in Names : m # n => subs'[m] = subs[m]
  BY <1>0, RowSet
<1>2. \A m \in Names : subs'[m].st # "none" /\ ~subs'[m].guest => m \in Counted \union Promised \union Batched
  BY <1>1 DEF Counted
<1>3. \A m \in Names : subs'[m].st # "none" /\ subs'[m].ip # 0 => subs[m].st # "none" /\ subs[m].ip = subs'[m].ip
  BY <1>1
<1>4. \A m \in Names : subs'[m].paid => subs[m].paid
  BY <1>1
<1>5. ASSUME ~overlapped PROVE AddressOK' /\ MoneyOK'
  <2>1. AddressOK /\ MoneyOK
    BY <1>5 DEF CustInv
  <2>2. orphans' = {}
    BY <2>1 DEF MoneyOK
  <2> QED
    BY <1>0, <1>3, <1>4, <2>1, <2>2, AddressKept, MoneyKept
<1> QED
  BY <1>2, <1>5, CustKept

\* A row is deleted, with a check of its money behind it.
LEMMA CustDrops ==
    ASSUME CustInv, CustType', overlapped' = overlapped, Ebbs, NEW n \in Names, DropRow(n),
           ~overlapped => ~subs[n].paid
    PROVE  CustInv'
<1>0. CustType
  BY DEF CustInv
<1>1. subs'[n] = NoRow /\ \A m \in Names : m # n => subs'[m] = subs[m]
  BY <1>0, NoRowTyped, RowSet DEF DropRow
<1>2. \A m \in Names : subs'[m].st # "none" /\ ~subs'[m].guest => m \in Counted \union Promised \union Batched
  BY <1>1, NoRowTyped DEF Counted
<1>3. \A m \in Names : subs'[m].st # "none" /\ subs'[m].ip # 0 => subs[m].st # "none" /\ subs[m].ip = subs'[m].ip
  BY <1>1, NoRowTyped
<1>4. \A m \in Names : subs'[m].paid => subs[m].paid
  BY <1>1, NoRowTyped
<1>5. ASSUME ~overlapped PROVE AddressOK' /\ MoneyOK'
  <2>1. AddressOK /\ MoneyOK
    BY <1>5 DEF CustInv
  <2>2. orphans' = {}
    BY <1>5, <2>1 DEF MoneyOK, DropRow
  <2> QED
    BY <1>0, <1>3, <1>4, <2>1, <2>2, AddressKept, MoneyKept
<1> QED
  BY <1>2, <1>5, CustKept

\* A request that ends leaves the others as they are.
LEMMA EndEbbs ==
    ASSUME CustType, NEW w \in Writers, End(w), UNCHANGED <<bulk, batch, overlapped>>,
           subs' \in [Names -> RowRecs]
    PROVE  CustType' /\ Ebbs
<1>1. /\ writers' \in [Writers -> WriterRecs] /\ writers'[w].at = "idle"
      /\ \A v \in Writers : v # w => writers'[v] = writers[v]
      /\ \A v \in Writers : writers'[v].at # "idle" => writers'[v].name \in Names
  BY WriterEnds
<1>2. CustType'
  BY <1>1 DEF CustType
<1>3. Ebbs
  BY <1>1 DEF Ebbs
<1> QED
  BY <1>2, <1>3

\* The write of a request, the only one that is between check and write.
LEMMA SoleWrite ==
    ASSUME CustInv, NEW w \in Writers, writers[w].at # "idle", End(w), UNCHANGED <<bulk, batch, overlapped, orphans>>,
           NEW n \in Names, n = writers[w].name, NEW r \in RowRecs, subs' = [subs EXCEPT ![n] = r],
           r.st # "none" /\ ~r.guest => n \in Counted \union Promised \union Batched,
           ~overlapped /\ r.ip # 0 => FreeBut(r.ip, n)
    PROVE  CustInv'
<1>0. CustType
  BY DEF CustInv
<1>1. subs' \in [Names -> RowRecs] /\ subs'[n] = r /\ \A m \in Names : m # n => subs'[m] = subs[m]
  BY <1>0, RowSet
<1>2. CustType' /\ Ebbs
  BY <1>0, <1>1, EndEbbs
<1>3. \A m \in Names : subs'[m].st # "none" /\ ~subs'[m].guest => m \in Counted \union Promised \union Batched
  BY <1>1 DEF Counted
<1>4. ASSUME ~overlapped PROVE AddressOK' /\ MoneyOK'
  <2>1. OnePending /\ AddressOK /\ MoneyOK
    BY <1>4 DEF CustInv
  <2>2. \A v \in Writers : writers'[v].at = "idle"
    <3>1. writers'[w].at = "idle" /\ \A v \in Writers : v # w => writers'[v] = writers[v]
      BY <1>0, WriterEnds
    <3> QED
      BY <2>1, <3>1 DEF OnePending
  <2>3. bulk'.at # "delete"
    BY <2>1 DEF OnePending
  <2>4. MoneyOK'
    BY <2>1, <2>2, <2>3 DEF MoneyOK
  <2>5. ASSUME NEW a \in Names, NEW b \in Names, subs'[a].st # "none", subs'[b].st # "none",
               subs'[a].ip = subs'[b].ip, subs'[a].ip # 0
        PROVE  a = b
    <3>1. CASE a = n /\ b # n
      BY <1>1, <1>4, <2>5, <3>1 DEF FreeBut
    <3>2. CASE a # n /\ b = n
      BY <1>1, <1>4, <2>5, <3>2 DEF FreeBut
    <3>3. CASE a # n /\ b # n
      BY <1>1, <2>1, <2>5, <3>3 DEF AddressOK
    <3> QED
      BY <3>1, <3>2, <3>3
  <2>6. AddressOK'
    BY <2>2, <2>5 DEF AddressOK
  <2> QED
    BY <2>4, <2>6
<1> QED
  BY <1>2, <1>3, <1>4, CustKept

\* A request that ends and writes nothing.
LEMMA SoleRests ==
    ASSUME CustInv, NEW w \in Writers, End(w), UNCHANGED <<bulk, batch, overlapped, orphans, subs>>
    PROVE  CustInv'
<1>1. CustType' /\ Ebbs
  BY EndEbbs DEF CustInv, CustType
<1> QED
  BY <1>1, CustRests

LEMMA CustCreateInsert ==
    ASSUME CustInv, NEW w \in Writers, CreateInsert(w)
    PROVE  CustInv'
<1>1. PICK n, r : n = writers[w].name /\ r = writers[w].in
  OBVIOUS
<1>2. writers[w].at = "create" /\ End(w) /\ UNCHANGED <<bulk, batch, overlapped, orphans>>
  BY DEF CreateInsert
<1>3. n \in Names /\ r \in RowRecs
  BY <1>1, <1>2 DEF CustInv, CustType, WriterRecs
<1>4. CASE n \in Rows
  <2>1. subs' = subs
    BY <1>1, <1>4 DEF CreateInsert
  <2> QED
    BY <1>2, <2>1, SoleRests
<1>5. CASE n \notin Rows
  <2>1. subs' = [subs EXCEPT ![n] = r]
    BY <1>1, <1>5 DEF CreateInsert
  <2>2. n \in Promised
    BY <1>1, <1>2, <1>3 DEF Promised
  <2>3. ~overlapped /\ r.ip # 0 => FreeBut(r.ip, n)
    BY <1>1, <1>2 DEF CustInv, AddressOK
  <2> QED
    BY <1>1, <1>2, <1>3, <2>1, <2>2, <2>3, SoleWrite
<1> QED
  BY <1>4, <1>5

LEMMA CustUpdateWrite ==
    ASSUME CustInv, NEW w \in Writers, UpdateWrite(w)
    PROVE  CustInv'
<1>1. PICK n, st, ip : n = writers[w].name /\ st = writers[w].in.st /\ ip = writers[w].in.ip
  OBVIOUS
<1>2. writers[w].at = "update" /\ End(w) /\ UNCHANGED <<bulk, batch, overlapped, orphans>>
  BY DEF UpdateWrite
<1>3. n \in Names /\ writers[w].in \in RowRecs /\ subs \in [Names -> RowRecs]
  BY <1>1, <1>2 DEF CustInv, CustType, WriterRecs
<1>4. CASE n \notin Rows
  <2>1. subs' = subs
    BY <1>1, <1>4 DEF UpdateWrite
  <2> QED
    BY <1>2, <2>1, SoleRests
<1>5. CASE n \in Rows
  <2>1. PICK k : k = subs[n]
    OBVIOUS
  <2>2. k \in RowRecs /\ st \in {"none", "active", "disabled"} /\ ip \in {0, 1}
    BY <1>1, <1>3, <2>1 DEF RowRecs
  <2> DEFINE r == [k EXCEPT !.st = st, !.ip = ip]
  <2>3. subs' = [subs EXCEPT ![n] = r]
    BY <1>1, <1>3, <1>5, <2>1 DEF UpdateWrite
  <2>4. r \in RowRecs /\ r.ip = ip /\ r.guest = k.guest
    BY <2>2 DEF RowRecs
  <2> HIDE DEF r
  <2>5. ~r.guest => n \in Counted
    BY <1>3, <1>5, <2>1, <2>4 DEF Counted, Rows
  <2>6. ~overlapped /\ r.ip # 0 => FreeBut(r.ip, n)
    BY <1>1, <1>2, <2>4 DEF CustInv, AddressOK
  <2> QED
    BY <1>1, <1>2, <1>3, <2>3, <2>4, <2>5, <2>6, SoleWrite
<1> QED
  BY <1>4, <1>5

LEMMA CustDeleteByID ==
    ASSUME CustInv, NEW w \in Writers, DeleteByID(w)
    PROVE  CustInv'
<1>1. PICK n : n = writers[w].name
  OBVIOUS
<1>2. writers[w].at = "delete" /\ End(w) /\ UNCHANGED <<bulk, batch, overlapped>>
  BY DEF DeleteByID
<1>3. n \in Names /\ CustType
  BY <1>1, <1>2 DEF CustInv, CustType
<1>4. CASE DropRow(n)
  <2>1. subs' \in [Names -> RowRecs]
    BY <1>3, <1>4, NoRowTyped, RowSet DEF DropRow
  <2>2. ~overlapped => ~subs[n].paid
    BY <1>1, <1>2 DEF CustInv, MoneyOK
  <2> QED
    BY <1>2, <1>3, <1>4, <2>1, <2>2, EndEbbs, CustDrops
<1>5. CASE UNCHANGED <<subs, orphans>>
  BY <1>2, <1>5, SoleRests
<1> QED
  BY <1>1, <1>4, <1>5 DEF DeleteByID

\* Rows of the table and some more names, as subscriberCapStatus counts them.
LEMMA CapChecked ==
    ASSUME CustType, NEW A \in SUBSET Names, NEW k \in Nat, SubscriberCapStatus(k), IsFiniteSet(A), Cardinality(A) = k
    PROVE  Cap > 0 => Cardinality(Rows \union A) <= Cap
<1>1. IsFiniteSet(Rows)
  BY SubscribersAssumption, FS_Subset DEF Rows
<1>2. Cardinality(Rows) \in Nat
  BY <1>1, FS_CardinalityType
<1>3. /\ IsFiniteSet(Rows \union A)
      /\ Cardinality(Rows \union A) = Cardinality(Rows) + k - Cardinality(Rows \cap A)
  BY <1>1, FS_Union
<1>4. Cardinality(Rows \cap A) \in Nat
  BY <1>1, FS_Intersection, FS_CardinalityType
<1>5. Cap > 0 => Cardinality(Rows) + k <= Cap
  BY <1>2, SubscribersAssumption DEF SubscriberCapStatus, EvalSubscriberCap
<1> QED
  BY <1>2, <1>3, <1>4, <1>5, SubscribersAssumption

\* A request begins: no other one is pending, or the check overlapped.
LEMMA CustBegins ==
    ASSUME CustInv, NEW w \in Writers, NEW at \in {"create", "update", "delete"}, NEW n \in Names, NEW in \in RowRecs,
           NEW scoped \in BOOLEAN, Begin(w, at, n, in, scoped), UNCHANGED <<subs, bulk, batch, orphans>>,
           at = "create" => SubscriberCapStatus(1),
           at # "delete" /\ in.ip # 0 => FreeBut(in.ip, n),
           at = "delete" => ~subs[n].paid
    PROVE  CustInv'
<1>0. CustType
  BY DEF CustInv
<1> DEFINE r == [at |-> at, name |-> n, in |-> in, scoped |-> scoped]
<1>1. r \in WriterRecs /\ r.at = at /\ r.name = n /\ r.in = in
  BY DEF WriterRecs
<1>2. writers' = [writers EXCEPT ![w] = r] /\ Looks
  BY DEF Begin
<1> HIDE DEF r
<1>3. /\ writers' \in [Writers -> WriterRecs] /\ writers'[w] = r
      /\ \A v \in Writers : v # w => writers'[v] = writers[v]
      /\ \A v \in Writers : writers'[v].at # "idle" => writers'[v].name \in Names
  BY <1>0, <1>1, <1>2, WriterSet
<1>4. overlapped' \in BOOLEAN /\ (~overlapped' => ~overlapped /\ ~Pending)
  BY <1>0, <1>2, LooksTyped
<1>5. CustType'
  BY <1>0, <1>3, <1>4 DEF CustType
<1> SUFFICES ASSUME ~overlapped' PROVE OnePending' /\ CapOK' /\ AddressOK' /\ MoneyOK'
  BY <1>5 DEF CustInv
<1>6. CapOK /\ AddressOK /\ MoneyOK
  BY <1>4 DEF CustInv
<1>7. bulk.at # "delete" /\ batch.at # "rows" /\ \A v \in Writers : v # w => writers'[v].at = "idle"
  BY <1>3, <1>4 DEF Pending
<1>8. OnePending'
  BY <1>7 DEF OnePending
<1>9. AddressOK'
  <2>1. FreeBut(in.ip, n)' <=> FreeBut(in.ip, n)
    BY DEF FreeBut
  <2>2. ASSUME NEW v \in Writers, writers'[v].at \in {"create", "update"}, writers'[v].in.ip # 0
        PROVE  FreeBut(writers[v].in.ip, writers[v].name)'
    <3>1. writers'[v] = r
      BY <1>3, <1>7, <2>2
    <3>2. writers'[v].in.ip = in.ip /\ writers'[v].name = n
      BY <1>1, <3>1
    <3>3. FreeBut(in.ip, n)
      BY <1>1, <2>2, <3>1
    <3> QED
      BY <3>2, <3>3 DEF FreeBut
  <2> QED
    BY <1>6, <2>2 DEF AddressOK
<1>10. MoneyOK'
  BY <1>1, <1>3, <1>6, <1>7 DEF MoneyOK
<1>11. CapOK'
  <2>1. Counted' = Counted /\ Batched' = {}
    BY <1>7 DEF Counted, Batched
  <2>2. CASE at = "create"
    <3>1. Promised' \subseteq {n}
      BY <1>1, <1>3, <1>7 DEF Promised
    <3>2. IsFiniteSet({n}) /\ Cardinality({n}) = 1
      BY FS_Singleton
    <3> DEFINE S == Rows \union {n}
               T == (Counted \union Promised \union Batched)'
    <3>3. Cap > 0 => Cardinality(S) <= Cap
      BY <1>0, <2>2, <3>2, CapChecked
    <3>4. S \subseteq Names /\ T \subseteq S
      BY <2>1, <3>1 DEF Rows, Counted
    <3> HIDE DEF S, T
    <3>5. Cap > 0 => Cardinality(T) <= Cap
      BY <3>3, <3>4, CapWithin
    <3> QED
      BY <3>5 DEF CapOK, T
  <2>3. CASE at # "create"
    <3>1. Promised' = {}
      BY <1>1, <1>3, <1>7, <2>3 DEF Promised
    <3> DEFINE S == Counted \union Promised \union Batched
               T == S'
    <3>2. T \subseteq S
      BY <2>1, <3>1
    <3>3. S \subseteq Names
      BY <1>0 DEF Counted, Promised, Batched, CustType, BatchRecs
    <3>4. Cap > 0 => Cardinality(S) <= Cap
      BY <1>6 DEF CapOK
    <3> HIDE DEF S, T
    <3>5. Cap > 0 => Cardinality(T) <= Cap
      BY <3>2, <3>3, <3>4, CapWithin
    <3> QED
      BY <3>5 DEF CapOK, S, T
  <2> QED
    BY <2>2, <2>3
<1> QED
  BY <1>8, <1>9, <1>10, <1>11

LEMMA CustCreateHandler ==
    ASSUME CustInv, NEW w \in Writers, NEW n \in Names, CreateHandler(w, n)
    PROVE  CustInv'
<1>1. PICK scoped \in BOOLEAN, st \in {"active", "disabled"}, ip \in {0, 1} :
        LET in == [NoRow EXCEPT !.st = st, !.ip = ip, !.own = IF scoped THEN "agent" ELSE "office"] IN
        /\ NormalizeWrite(in, 0) /\ SubscriberCapStatus(1)
        /\ Begin(w, "create", n, in, scoped) /\ Ask
        /\ UNCHANGED <<subs, parked, bulk, batch, orphans>>
  BY DEF CreateHandler
<1> DEFINE in == [NoRow EXCEPT !.st = st, !.ip = ip, !.own = IF scoped THEN "agent" ELSE "office"]
<1>2. in \in RowRecs
  BY DEF NoRow, RowRecs, Owners
<1>3. NormalizeWrite(in, 0) /\ SubscriberCapStatus(1) /\ Begin(w, "create", n, in, scoped) /\ UNCHANGED <<subs, bulk, batch, orphans>>
  BY <1>1
<1> HIDE DEF in
<1>4. in.ip # 0 => FreeBut(in.ip, n)
  BY <1>3, SubscribersAssumption DEF NormalizeWrite, ExistsStaticIP, FreeBut, Rows
<1> QED
  BY <1>2, <1>3, <1>4, CustBegins

LEMMA CustUpdateHandler ==
    ASSUME CustInv, NEW w \in Writers, NEW n \in Names, UpdateHandler(w, n)
    PROVE  CustInv'
<1>1. PICK scoped \in BOOLEAN, st \in {"active", "disabled"}, ip \in {0, 1} :
        LET in == [subs[n] EXCEPT !.st = st, !.ip = ip] IN
        /\ Visible(n, scoped) /\ in # subs[n] /\ NormalizeWrite(in, n)
        /\ Begin(w, "update", n, in, scoped) /\ Ask
        /\ UNCHANGED <<subs, parked, bulk, batch, orphans>>
  BY DEF UpdateHandler
<1>2. PICK in : in = [subs[n] EXCEPT !.st = st, !.ip = ip]
  OBVIOUS
<1>3. NormalizeWrite(in, n) /\ Begin(w, "update", n, in, scoped) /\ UNCHANGED <<subs, bulk, batch, orphans>>
  BY <1>1, <1>2 DEF NormalizeWrite, ExistsStaticIP, Begin
<1>4. in \in RowRecs
  BY <1>2, RowFields DEF CustInv, CustType
<1>5. in.ip # 0 => FreeBut(in.ip, n)
  BY <1>3 DEF NormalizeWrite, ExistsStaticIP, FreeBut, Rows
<1> QED
  BY <1>3, <1>4, <1>5, CustBegins

LEMMA CustDeletes ==
    ASSUME CustInv, NEW w \in Writers, NEW n \in Names, NEW scoped \in BOOLEAN, ExecuteSubscriberDelete(w, n, scoped)
    PROVE  CustInv'
BY NoRowTyped, CustBegins DEF ExecuteSubscriberDelete, HasFinancialHistory

\* A step that changes only the approvals and what the bound counts.
LEMMA CustParks ==
    ASSUME CustInv, UNCHANGED <<subs, writers, bulk, batch, orphans, overlapped>>
    PROVE  CustInv'
<1>1. CustType' /\ Ebbs
  BY DEF CustInv, CustType, Ebbs
<1> QED
  BY <1>1, CustRests

LEMMA CustDeleteHandlers ==
    ASSUME CustInv, NEW w \in Writers, NEW n \in Names, DeleteHandler(w, n) \/ ApproveDelete(w, n)
    PROVE  CustInv'
<1>1. \/ UNCHANGED <<subs, writers, bulk, batch, orphans, overlapped>>
      \/ \E scoped \in BOOLEAN : ExecuteSubscriberDelete(w, n, scoped)
  BY DEF DeleteHandler, ApproveDelete
<1> QED
  BY <1>1, CustParks, CustDeletes

LEMMA CustGuest ==
    ASSUME CustInv, NEW n \in Names, CreateGuestAccount(n)
    PROVE  CustInv'
<1> DEFINE r == [NoRow EXCEPT !.st = "active", !.guest = TRUE]
<1>1. r \in RowRecs /\ r.guest = TRUE /\ r.ip = 0 /\ r.paid = FALSE
  BY DEF NoRow, RowRecs, Owners
<1>2. subs' = [subs EXCEPT ![n] = r] /\ UNCHANGED <<writers, bulk, batch, orphans, overlapped>>
  BY DEF CreateGuestAccount
<1> HIDE DEF r
<1>3. subs' \in [Names -> RowRecs]
  BY <1>1, <1>2, RowSet DEF CustInv
<1>4. CustType'
  BY <1>2, <1>3 DEF CustInv, CustType
<1>5. Ebbs
  BY <1>2 DEF Ebbs
<1> QED
  BY <1>1, <1>2, <1>4, <1>5, CustWrites

\* A row gets its money while nobody is about to delete it.
LEMMA CustPays ==
    ASSUME CustInv, CustType', overlapped' = overlapped, Ebbs, orphans' = orphans,
           NEW n \in Names, n \in Rows, subs' = [subs EXCEPT ![n].paid = TRUE, ![n].st = "active"],
           ~overlapped => bulk.at # "delete" /\ \A w \in Writers : writers[w].at # "delete"
    PROVE  CustInv'
<1>0. CustType /\ subs \in [Names -> RowRecs]
  BY DEF CustInv, CustType
<1>1. PICK k : k = subs[n]
  OBVIOUS
<1>2. k \in RowRecs
  BY <1>0, <1>1
<1> DEFINE r == [k EXCEPT !.paid = TRUE, !.st = "active"]
<1>3. r \in RowRecs /\ r.ip = k.ip /\ r.guest = k.guest
  BY <1>2 DEF RowRecs
<1>4. subs' = [subs EXCEPT ![n] = r]
  BY <1>0, <1>1
<1> HIDE DEF r
<1>5. subs'[n] = r /\ \A m \in Names : m # n => subs'[m] = subs[m]
  BY <1>0, <1>3, <1>4, RowSet
<1>6. \A m \in Names : subs'[m].st # "none" /\ ~subs'[m].guest => m \in Counted \union Promised \union Batched
  BY <1>1, <1>3, <1>5 DEF Counted, Rows
<1>7. \A m \in Names : subs'[m].st # "none" /\ subs'[m].ip # 0 => subs[m].st # "none" /\ subs[m].ip = subs'[m].ip
  BY <1>1, <1>3, <1>5 DEF Rows
<1>8. ASSUME ~overlapped PROVE AddressOK' /\ MoneyOK'
  <2>1. AddressOK /\ MoneyOK
    BY <1>8 DEF CustInv
  <2>2. AddressOK'
    BY <1>7, <2>1, AddressKept
  <2>3. bulk'.at # "delete" /\ \A w \in Writers : writers'[w].at # "delete"
    BY <1>8 DEF Ebbs
  <2>4. MoneyOK'
    BY <2>1, <2>3 DEF MoneyOK
  <2> QED
    BY <2>2, <2>4
<1> QED
  BY <1>6, <1>8, CustKept

\* A row that is about to be paid for is still a row.
LEMMA PaidTyped ==
    ASSUME CustType, NEW n \in Names, subs' = [subs EXCEPT ![n].paid = TRUE, ![n].st = "active"]
    PROVE  subs' \in [Names -> RowRecs]
<1>0. subs \in [Names -> RowRecs]
  BY DEF CustType
<1>1. PICK k : k = subs[n]
  OBVIOUS
<1> DEFINE r == [k EXCEPT !.paid = TRUE, !.st = "active"]
<1>2. r \in RowRecs
  BY <1>0, <1>1 DEF RowRecs
<1>3. subs' = [subs EXCEPT ![n] = r]
  BY <1>0, <1>1
<1> HIDE DEF r
<1> QED
  BY <1>2, <1>3, RowSet

LEMMA CustRenewed ==
    ASSUME CustInv, NEW n \in Names, Renewed(n)
    PROVE  CustInv'
<1>1. /\ n \in Rows /\ Looks /\ UNCHANGED <<writers, bulk, batch, orphans>>
      /\ subs' = [subs EXCEPT ![n].paid = TRUE, ![n].st = "active"]
  BY DEF Renewed
<1>2. CustType
  BY DEF CustInv
<1>3. overlapped' \in BOOLEAN /\ (~overlapped' => ~overlapped /\ ~Pending)
  BY <1>1, <1>2, LooksTyped
<1>4. subs' \in [Names -> RowRecs]
  BY <1>1, <1>2, PaidTyped
<1>5. CustType'
  BY <1>1, <1>2, <1>3, <1>4 DEF CustType
<1>6. CASE overlapped'
  BY <1>5, <1>6 DEF CustInv
<1>7. CASE ~overlapped'
  <2>1. overlapped' = overlapped
    BY <1>2, <1>3, <1>7 DEF CustType
  <2>2. bulk.at # "delete" /\ \A w \in Writers : writers[w].at # "delete"
    BY <1>3, <1>7 DEF Pending
  <2>3. Ebbs
    BY <1>1 DEF Ebbs
  <2> QED
    BY <1>1, <1>5, <2>1, <2>2, <2>3, CustPays
<1> QED
  BY <1>6, <1>7

LEMMA CustInvoiced ==
    ASSUME CustInv, InvoiceSubscriber
    PROVE  CustInv'
<1>1. PICK n : n = batch.made
  OBVIOUS
<1>2. /\ batch.at = "rows" /\ n # 0 /\ batch' = [batch EXCEPT !.made = 0] /\ UNCHANGED <<writers, bulk, orphans, overlapped>>
      /\ \/ n \in Rows /\ subs' = [subs EXCEPT ![n].paid = TRUE, ![n].st = "active"]
         \/ UNCHANGED subs
  BY <1>1 DEF InvoiceSubscriber
<1>3. CustType
  BY DEF CustInv
<1>4. n \in Names
  BY <1>1, <1>2, <1>3 DEF CustType, BatchRecs
<1>5. subs' \in [Names -> RowRecs]
  BY <1>2, <1>3, <1>4, PaidTyped DEF CustType
<1>6. batch' \in BatchRecs /\ batch'.at = batch.at /\ batch'.todo = batch.todo /\ batch'.coll = batch.coll
  BY <1>2, <1>3 DEF CustType, BatchRecs
<1>7. CustType'
  BY <1>2, <1>3, <1>5, <1>6 DEF CustType
<1>8. Ebbs
  BY <1>2, <1>6 DEF Ebbs
<1>9. CASE UNCHANGED subs
  BY <1>2, <1>7, <1>8, <1>9, CustRests
<1>10. CASE n \in Rows /\ subs' = [subs EXCEPT ![n].paid = TRUE, ![n].st = "active"]
  <2>1. ~overlapped => bulk.at # "delete" /\ \A w \in Writers : writers[w].at # "delete"
    BY <1>2 DEF CustInv, OnePending
  <2> QED
    BY <1>2, <1>4, <1>7, <1>8, <1>10, <2>1, CustPays
<1> QED
  BY <1>2, <1>9, <1>10

LEMMA CustBulkHandler ==
    ASSUME CustInv, NEW act \in BulkActs, NEW sel \in SUBSET Names, BulkHandler(act, sel)
    PROVE  CustInv'
<1>1. PICK scoped \in BOOLEAN :
        /\ SelectTargets(sel, scoped) # {}
        /\ bulk' = [at |-> "rows", act |-> act, todo |-> SelectTargets(sel, scoped), checked |-> 0]
  BY DEF BulkHandler
<1>2. UNCHANGED <<subs, writers, batch, orphans, overlapped>>
  BY DEF BulkHandler
<1>3. SelectTargets(sel, scoped) \subseteq Names
  BY DEF SelectTargets
<1>4. bulk' \in BulkRecs /\ bulk'.at = "rows" /\ bulk'.todo # {} /\ bulk'.act = act
  BY <1>1, <1>3 DEF BulkRecs
<1>5. CustType'
  BY <1>2, <1>4 DEF CustInv, CustType
<1>6. Ebbs
  BY <1>2, <1>4 DEF Ebbs
<1> QED
  BY <1>2, <1>5, <1>6, CustRests

\* The job goes on to its next row or ends.
LEMMA Advances ==
    ASSUME CustType, bulk.at # "idle", NEW T \in SUBSET Names, bulk' = Advance(T)
    PROVE  /\ bulk' \in BulkRecs /\ bulk'.at # "delete"
           /\ bulk'.at # "idle" => bulk'.todo # {} /\ bulk'.act \in BulkActs
<1>1. CASE T = {}
  <2>1. bulk' = NoBulk
    BY <1>1 DEF Advance
  <2> QED
    BY <2>1, NoBulkTyped
<1>2. CASE T # {}
  <2>1. PICK b : b = bulk
    OBVIOUS
  <2>2. b \in BulkRecs /\ b.act \in BulkActs
    BY <2>1 DEF CustType
  <2> DEFINE u == [b EXCEPT !.at = "rows", !.todo = T, !.checked = 0]
  <2>3. bulk' = u
    BY <1>2, <2>1 DEF Advance
  <2>4. u \in BulkRecs /\ u.at = "rows" /\ u.todo = T /\ u.act = b.act
    BY <2>2 DEF BulkRecs
  <2> QED
    BY <1>2, <2>2, <2>3, <2>4
<1> QED
  BY <1>1, <1>2

LEMMA CustRunBulk ==
    ASSUME CustInv, RunBulk
    PROVE  CustInv'
<1>0. CustType /\ subs \in [Names -> RowRecs]
  BY DEF CustInv, CustType
<1>1. PICK n, act : n = Next1(bulk.todo) /\ act = bulk.act
  OBVIOUS
<1>2. /\ bulk.at = "rows" /\ act # "delete" /\ bulk' = Advance(bulk.todo \ {n})
      /\ subs' = IF n \in Rows THEN [subs EXCEPT ![n] = BuildBulkApply(act, @)] ELSE subs
      /\ UNCHANGED <<writers, batch, orphans, overlapped>>
  BY <1>1 DEF RunBulk
<1>3. bulk.todo \subseteq Names /\ bulk.todo # {} /\ act \in BulkActs
  BY <1>0, <1>1, <1>2 DEF CustType, BulkRecs
<1>4. n \in Names
  BY <1>1, <1>3, NextName
<1>5. /\ bulk' \in BulkRecs /\ bulk'.at # "delete"
      /\ bulk'.at # "idle" => bulk'.todo # {} /\ bulk'.act \in BulkActs
  <2>1. PICK T : T = bulk.todo \ {n}
    OBVIOUS
  <2> QED
    BY <1>0, <1>2, <1>3, <2>1, Advances
<1>6. Ebbs
  BY <1>2, <1>5 DEF Ebbs
<1>7. CASE n \notin Rows
  <2>1. subs' = subs
    BY <1>2, <1>7
  <2>2. CustType'
    BY <1>0, <1>2, <1>5, <2>1 DEF CustType
  <2> QED
    BY <1>2, <1>6, <2>1, <2>2, CustRests
<1>8. CASE n \in Rows
  <2>1. PICK k : k = subs[n]
    OBVIOUS
  <2>2. k \in RowRecs
    BY <1>0, <1>4, <2>1
  <2> DEFINE r == BuildBulkApply(act, k)
  <2>3. r \in RowRecs /\ r.ip = k.ip /\ r.paid = k.paid /\ r.guest = k.guest
    BY <1>2, <1>3, <2>2, BulkRow
  <2>4. subs' = [subs EXCEPT ![n] = r]
    BY <1>2, <1>8, <1>0, <1>4, <2>1
  <2> HIDE DEF r
  <2>5. subs' \in [Names -> RowRecs]
    BY <1>0, <1>4, <2>3, <2>4, RowSet
  <2>6. CustType'
    BY <1>0, <1>2, <1>5, <2>5 DEF CustType
  <2>7. ~r.guest => n \in Counted
    BY <1>8, <2>1, <2>3 DEF Counted, Rows
  <2>8. subs[n].st # "none" /\ subs[n].ip = r.ip /\ (r.paid => subs[n].paid)
    BY <1>8, <2>1, <2>3 DEF Rows
  <2> QED
    BY <1>2, <1>4, <1>6, <2>3, <2>4, <2>6, <2>7, <2>8, CustWrites
<1> QED
  BY <1>7, <1>8

LEMMA CustRunBulkCheck ==
    ASSUME CustInv, RunBulkCheck
    PROVE  CustInv'
<1>0. CustType
  BY DEF CustInv
<1>1. PICK n : n = Next1(bulk.todo)
  OBVIOUS
<1>2. /\ bulk.at = "rows" /\ Looks /\ UNCHANGED <<subs, writers, batch, orphans>>
      /\ bulk' = IF subs[n].paid THEN Advance(bulk.todo \ {n}) ELSE [bulk EXCEPT !.at = "delete", !.checked = n]
  BY <1>1 DEF RunBulkCheck, HasFinancialHistory
<1>3. bulk.todo \subseteq Names /\ bulk.todo # {} /\ bulk.act \in BulkActs
  BY <1>0, <1>2 DEF CustType, BulkRecs
<1>4. n \in Names
  BY <1>1, <1>3, NextName
<1>5. overlapped' \in BOOLEAN /\ (~overlapped' => ~overlapped /\ ~Pending)
  BY <1>0, <1>2, LooksTyped
<1>6. CASE subs[n].paid
  <2>1. PICK T : T = bulk.todo \ {n}
    OBVIOUS
  <2>2. bulk' = Advance(T)
    BY <1>2, <1>6, <2>1
  <2>3. /\ bulk' \in BulkRecs /\ bulk'.at # "delete"
        /\ bulk'.at # "idle" => bulk'.todo # {} /\ bulk'.act \in BulkActs
    BY <1>0, <1>2, <1>3, <2>1, <2>2, Advances
  <2>4. CustType'
    BY <1>0, <1>2, <1>5, <2>3 DEF CustType
  <2>5. Ebbs
    BY <1>2, <2>3 DEF Ebbs
  <2>6. CASE overlapped'
    BY <2>4, <2>6 DEF CustInv
  <2>7. CASE ~overlapped'
    <3>1. overlapped' = overlapped
      BY <1>0, <1>5, <2>7 DEF CustType
    <3> QED
      BY <1>2, <2>4, <2>5, <3>1, CustRests
  <2> QED
    BY <2>6, <2>7
<1>7. CASE ~subs[n].paid
  <2>1. PICK b : b = bulk
    OBVIOUS
  <2>2. b \in BulkRecs
    BY <1>0, <2>1 DEF CustType
  <2> DEFINE u == [b EXCEPT !.at = "delete", !.checked = n]
  <2>3. u \in BulkRecs /\ u.at = "delete" /\ u.checked = n /\ u.todo = b.todo /\ u.act = b.act
    BY <1>4, <2>2 DEF BulkRecs
  <2>4. bulk' = u
    BY <1>2, <1>7, <2>1
  <2> HIDE DEF u
  <2>5. CustType'
    BY <1>0, <1>2, <1>3, <1>4, <1>5, <2>1, <2>3, <2>4 DEF CustType
  <2> SUFFICES ASSUME ~overlapped' PROVE OnePending' /\ CapOK' /\ AddressOK' /\ MoneyOK'
    BY <2>5 DEF CustInv
  <2>6. CapOK /\ AddressOK /\ MoneyOK /\ ~Pending
    BY <1>5 DEF CustInv
  <2>7. batch'.at # "rows" /\ \A w \in Writers : writers'[w].at = "idle"
    BY <1>2, <2>6 DEF Pending
  <2>8. OnePending'
    BY <2>7 DEF OnePending
  <2>9. CapOK'
    BY <1>2, <2>6 DEF CapOK, Counted, Promised, Batched
  <2>10. AddressOK'
    BY <1>2, <2>6 DEF AddressOK, FreeBut
  <2>11. MoneyOK'
    BY <1>2, <1>7, <2>3, <2>4, <2>6, <2>7 DEF MoneyOK
  <2> QED
    BY <2>8, <2>9, <2>10, <2>11
<1> QED
  BY <1>6, <1>7

LEMMA CustRunBulkDelete ==
    ASSUME CustInv, RunBulkDelete
    PROVE  CustInv'
<1>0. CustType
  BY DEF CustInv
<1>1. PICK n, T : n = bulk.checked /\ T = bulk.todo \ {n}
  OBVIOUS
<1>2. bulk.at = "delete" /\ bulk' = Advance(T) /\ DropRow(n) /\ UNCHANGED <<writers, batch, overlapped>>
  BY <1>1 DEF RunBulkDelete, DropRow
<1>3. n \in Names /\ T \in SUBSET Names
  BY <1>0, <1>1, <1>2 DEF CustType, BulkRecs
<1>4. /\ bulk' \in BulkRecs /\ bulk'.at # "delete"
      /\ bulk'.at # "idle" => bulk'.todo # {} /\ bulk'.act \in BulkActs
  BY <1>0, <1>2, <1>3, Advances
<1>5. subs' \in [Names -> RowRecs]
  BY <1>0, <1>2, <1>3, NoRowTyped, RowSet DEF DropRow
<1>6. CustType'
  BY <1>0, <1>2, <1>4, <1>5 DEF CustType
<1>7. Ebbs
  BY <1>2, <1>4 DEF Ebbs
<1>8. ~overlapped => ~subs[n].paid
  BY <1>1, <1>2 DEF CustInv, MoneyOK
<1> QED
  BY <1>2, <1>3, <1>6, <1>7, <1>8, CustDrops

LEMMA CustBatchHandler ==
    ASSUME CustInv, NEW mode \in {"each", "batch"}, NEW wanted \in SUBSET Names, BatchHandler(mode, wanted)
    PROVE  CustInv'
<1>0. CustType
  BY DEF CustInv
<1>1. PICK coll : coll = FindCollisions(wanted)
  OBVIOUS
<1>2. /\ Looks /\ UNCHANGED <<subs, writers, bulk, orphans>>
      /\ SubscriberCapStatus(Cardinality(wanted) - Cardinality(coll))
      /\ batch' = [at |-> "rows", mode |-> mode, todo |-> wanted, coll |-> coll, made |-> 0]
  BY <1>1 DEF BatchHandler, SubscriberCapStatus
<1>3. coll \subseteq wanted /\ wanted \subseteq Names
  BY <1>1 DEF FindCollisions
<1>4. batch' \in BatchRecs /\ batch'.at = "rows" /\ batch'.todo = wanted /\ batch'.coll = coll
  BY <1>2, <1>3 DEF BatchRecs
<1>5. overlapped' \in BOOLEAN /\ (~overlapped' => ~overlapped /\ ~Pending)
  BY <1>0, <1>2, LooksTyped
<1>6. CustType'
  BY <1>0, <1>2, <1>4, <1>5 DEF CustType
<1> SUFFICES ASSUME ~overlapped' PROVE OnePending' /\ CapOK' /\ AddressOK' /\ MoneyOK'
  BY <1>6 DEF CustInv
<1>7. AddressOK /\ MoneyOK /\ ~Pending
  BY <1>5 DEF CustInv
<1>8. bulk'.at # "delete" /\ \A w \in Writers : writers'[w].at = "idle"
  BY <1>2, <1>7 DEF Pending
<1>9. OnePending'
  BY <1>8 DEF OnePending
<1>10. AddressOK'
  BY <1>2, <1>7 DEF AddressOK, FreeBut
<1>11. MoneyOK'
  BY <1>2, <1>7 DEF MoneyOK
<1>12. CapOK'
  <2> DEFINE A == wanted \ coll
             k == Cardinality(wanted) - Cardinality(coll)
             T == (Counted \union Promised \union Batched)'
             S == Rows \union A
  <2>1. IsFiniteSet(wanted) /\ IsFiniteSet(coll) /\ IsFiniteSet(A)
    BY <1>3, SubscribersAssumption, FS_Subset
  <2>2. Cardinality(A) = Cardinality(wanted) - Cardinality(wanted \cap coll)
    BY <2>1, FS_Difference
  <2>3. wanted \cap coll = coll
    BY <1>3
  <2>4. Cardinality(A) = k /\ k \in Nat
    BY <2>1, <2>2, <2>3, FS_CardinalityType
  <2>5. SubscriberCapStatus(k) /\ A \subseteq Names
    BY <1>2, <1>3
  <2> HIDE DEF A, k
  <2>6. Cap > 0 => Cardinality(S) <= Cap
    BY <1>0, <2>1, <2>4, <2>5, CapChecked
  <2>7. Counted' \subseteq Rows
    BY <1>2 DEF Counted, Rows
  <2>8. Promised' = {}
    BY <1>8 DEF Promised
  <2>9. Batched' = A
    BY <1>4 DEF Batched, A
  <2>10. S \subseteq Names /\ T \subseteq S
    BY <2>5, <2>7, <2>8, <2>9 DEF Rows
  <2> HIDE DEF S, T
  <2>11. Cap > 0 => Cardinality(T) <= Cap
    BY <2>6, <2>10, CapWithin
  <2> QED
    BY <2>11 DEF CapOK, T
<1> QED
  BY <1>9, <1>10, <1>11, <1>12

LEMMA CustRunBatch ==
    ASSUME CustInv, RunBatch
    PROVE  CustInv'
<1>0. CustType
  BY DEF CustInv
<1>1. PICK n, b : n = Next1(batch.todo) /\ b = batch
  OBVIOUS
<1> DEFINE left == [b EXCEPT !.todo = @ \ {n}]
           row == CreateBatchRow(b.mode)
<1>2. /\ b.at = "rows" /\ b.todo # {} /\ UNCHANGED <<writers, bulk, orphans, overlapped>>
      /\ \/ batch' = left /\ UNCHANGED subs
         \/ /\ n \notin b.coll /\ n \notin Rows /\ subs' = [subs EXCEPT ![n] = row]
            /\ batch' = [left EXCEPT !.made = n] \/ batch' = left
  BY <1>1 DEF RunBatch
<1>3. b \in BatchRecs
  BY <1>0, <1>1 DEF CustType
<1>4. b.todo \in SUBSET Names
  BY <1>3 DEF BatchRecs
<1>5. n \in b.todo /\ n \in Names
  BY <1>1, <1>2, <1>4, NextName
<1>6. left \in BatchRecs /\ left.at = b.at /\ left.todo = b.todo \ {n} /\ left.coll = b.coll
  BY <1>3, <1>5 DEF BatchRecs
<1> HIDE DEF left
<1>7. /\ [left EXCEPT !.made = n] \in BatchRecs /\ [left EXCEPT !.made = n].at = b.at
      /\ [left EXCEPT !.made = n].todo = b.todo \ {n} /\ [left EXCEPT !.made = n].coll = b.coll
  BY <1>5, <1>6 DEF BatchRecs
<1>8. batch' \in BatchRecs /\ batch'.at = b.at /\ batch'.todo = b.todo \ {n} /\ batch'.coll = b.coll
  BY <1>2, <1>6, <1>7
<1>9. Ebbs
  BY <1>1, <1>2, <1>8 DEF Ebbs
<1>10. CASE UNCHANGED subs
  <2>1. CustType'
    BY <1>0, <1>2, <1>8, <1>10 DEF CustType
  <2> QED
    BY <1>2, <1>9, <1>10, <2>1, CustRests
<1>11. CASE n \notin b.coll /\ n \notin Rows /\ subs' = [subs EXCEPT ![n] = row]
  <2>1. row \in RowRecs /\ row.ip = 0 /\ row.paid = FALSE
    BY DEF CreateBatchRow, NoRow, RowRecs, Owners
  <2> HIDE DEF row
  <2>2. subs' \in [Names -> RowRecs]
    BY <1>0, <1>5, <1>11, <2>1, RowSet
  <2>3. CustType'
    BY <1>0, <1>2, <1>8, <2>2 DEF CustType
  <2>4. n \in Batched
    BY <1>1, <1>2, <1>5, <1>11 DEF Batched
  <2> QED
    BY <1>2, <1>5, <1>9, <1>11, <2>1, <2>3, <2>4, CustWrites
<1> QED
  BY <1>2, <1>10, <1>11

\* A batch that ends, and a restart that forgets what was under way.
LEMMA CustEnds ==
    ASSUME CustInv, BatchDone \/ JobsForgotten
    PROVE  CustInv'
<1>1. /\ UNCHANGED <<subs, orphans, overlapped>> /\ batch' = NoBatch
      /\ bulk' = bulk \/ bulk' = NoBulk
      /\ writers' = writers \/ writers' = [w \in Writers |-> NoWriter]
  BY DEF BatchDone, JobsForgotten
<1>2. CustType
  BY DEF CustInv
<1>3. /\ writers' \in [Writers -> WriterRecs]
      /\ \A w \in Writers : writers'[w] = writers[w] \/ writers'[w].at = "idle"
  BY <1>1, <1>2, NoWriterTyped DEF CustType
<1>4. batch' \in BatchRecs /\ batch'.at = "idle"
  BY <1>1, NoBatchTyped
<1>5. bulk' = bulk \/ (bulk' \in BulkRecs /\ bulk'.at = "idle")
  BY <1>1, NoBulkTyped
<1>6. CustType'
  BY <1>1, <1>2, <1>3, <1>4, <1>5 DEF CustType
<1>7. Ebbs
  BY <1>3, <1>4, <1>5 DEF Ebbs
<1> QED
  BY <1>1, <1>6, <1>7, CustRests

LEMMA CustStep == CustInv /\ [SubsNext]_subVars => CustInv'
<1> SUFFICES ASSUME CustInv, [SubsNext]_subVars PROVE CustInv'
  OBVIOUS
<1>1. ASSUME NEW w \in Writers, NEW n \in Names,
             CreateHandler(w, n) \/ UpdateHandler(w, n) \/ DeleteHandler(w, n) \/ ApproveDelete(w, n)
      PROVE  CustInv'
  BY <1>1, CustCreateHandler, CustUpdateHandler, CustDeleteHandlers
<1>2. ASSUME NEW w \in Writers, CreateInsert(w) \/ UpdateWrite(w) \/ DeleteByID(w) PROVE CustInv'
  BY <1>2, CustCreateInsert, CustUpdateWrite, CustDeleteByID
<1>3. ASSUME NEW n \in Names, CreateGuestAccount(n) \/ Renewed(n) PROVE CustInv'
  BY <1>3, CustGuest, CustRenewed
<1>4. ASSUME NEW act \in BulkActs, NEW sel \in SUBSET Names, BulkHandler(act, sel) PROVE CustInv'
  BY <1>4, CustBulkHandler
<1>5. ASSUME NEW mode \in {"each", "batch"}, NEW wanted \in SUBSET Names \ {{}}, BatchHandler(mode, wanted)
      PROVE  CustInv'
  BY <1>5, CustBatchHandler
<1>6. CASE UNCHANGED subVars
  BY <1>6, CustParks DEF subVars
<1> QED
  BY <1>1, <1>2, <1>3, <1>4, <1>5, <1>6, CustRunBulk, CustRunBulkCheck, CustRunBulkDelete,
     CustRunBatch, CustInvoiced, CustEnds DEF SubsNext, BulkActs

LEMMA CustHolds == CustInv => SerialChecksHold
<1> SUFFICES ASSUME CustInv, ~overlapped PROVE SerialChecksHold
  BY DEF SerialChecksHold
<1>1. CapOK /\ AddressOK /\ MoneyOK /\ CustType
  BY DEF CustInv
<1> DEFINE S == Counted \union Promised \union Batched
           T == {n \in Rows : ~subs[n].guest}
<1>2. S \subseteq Names /\ T \subseteq S
  BY <1>1 DEF Counted, Promised, Batched, CustType, BatchRecs, Rows
<1>3. Cap > 0 => Cardinality(S) <= Cap
  BY <1>1 DEF CapOK
<1> HIDE DEF S, T
<1>4. Cap > 0 => Cardinality(T) <= Cap
  BY <1>2, <1>3, CapWithin
<1>5. Cardinality(T) \in Nat
  BY <1>2, SubscribersAssumption, FS_Subset, FS_CardinalityType
<1>6. ~EvalSubscriberCap(Cardinality(T))
  BY <1>4, <1>5, SubscribersAssumption DEF EvalSubscriberCap
<1>7. \A m, n \in Rows : subs[m].ip = subs[n].ip /\ subs[m].ip # 0 => m = n
  BY <1>1 DEF AddressOK, Rows
<1>8. orphans = {}
  BY <1>1 DEF MoneyOK
<1> QED
  BY <1>6, <1>7, <1>8 DEF SerialChecksHold, T

\* As long as no check is made while another request stands between its check
\* and its write, the registry keeps to the licence's cap, gives an address to
\* one row and deletes no customer with money rows, through single writes,
\* approvals, bulk and batch jobs and restarts (api.go:203-460, batch.go:127-299,
\* bulk.go:293-336, delete_approval.go:44-71).
THEOREM SerialCorrect == SubsSpec => []SerialChecksHold
BY CustInvInit, CustStep, CustHolds, PTL DEF SubsSpec
=============================================================================
