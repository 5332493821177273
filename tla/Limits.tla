------------------------------- MODULE Limits --------------------------------
(***************************************************************************)
(* The limits engine of backend/internal/radius as operators: what an      *)
(* exhausted expiry, quota, uptime or daily limit does to a login          *)
(* (limits.go, policy.go) and to a session that is already online          *)
(* (enforce.go, limitsworker.go), and the time windows (tod.go).           *)
(*                                                                         *)
(* Rates and pools are names; "" is not configured.  A view holds          *)
(*   expired, exhausted, upOver, dayOver   what is exhausted               *)
(*   lim     by limit: [action, rate, pool, swRate, swPool]                *)
(*   stype, rate, hsRate, throttle, pool, garden, static                   *)
(***************************************************************************)
EXTENDS Integers, FiniteSets

Actions == {"block", "throttle", "expired_pool", "switch_plan"}
FallbackRate == "1M"

\* resolveExhaustTarget: the one target column means what the action says; a
\* profile to switch to that is missing gives no override.
ResolveExhaustTarget(action, target, plan) ==
    [action |-> action,
     rate   |-> IF action = "throttle" THEN target ELSE "",
     pool   |-> IF action = "expired_pool" THEN target ELSE "",
     swRate |-> IF action = "switch_plan" THEN plan.rate ELSE "",
     swPool |-> IF action = "switch_plan" THEN plan.pool ELSE ""]

\* resolveAction: anything unknown is a block.
ResolveAction(l) ==
    CASE l.action = "throttle"     -> [reject |-> FALSE, mode |-> "throttled", rate |-> l.rate, pool |-> ""]
      [] l.action = "expired_pool" -> [reject |-> FALSE, mode |-> "expired_pool", rate |-> "", pool |-> l.pool]
      [] l.action = "switch_plan"  -> [reject |-> FALSE, mode |-> "switch_plan", rate |-> l.swRate, pool |-> l.swPool]
      [] OTHER                     -> [reject |-> TRUE, mode |-> "normal", rate |-> "", pool |-> ""]

Normal == [reject |-> FALSE, mode |-> "normal", rate |-> "", pool |-> ""]

\* quotaExempt: only the hotspot leg of a dual account.
QuotaExempt(stype, hotspot) == hotspot /\ stype = "dual"

\* The frozen order; the first exhausted limit decides.
ExhaustedKind(v, hotspot) ==
    CASE v.expired                                        -> "expiry"
      [] v.exhausted /\ ~QuotaExempt(v.stype, hotspot)    -> "quota"
      [] v.upOver                                         -> "uptime"
      [] v.dayOver                                        -> "daily"
      [] OTHER                                            -> "none"

\* evaluateLimits
EvaluateLimits(v, hotspot) ==
    LET k == ExhaustedKind(v, hotspot) IN
    IF k = "none" THEN Normal ELSE ResolveAction(v.lim[k])

Or(a, b) == IF a # "" THEN a ELSE b

\* normalRate
NormalRate(v, hotspot, windowRate) ==
    Or(windowRate, IF hotspot /\ v.hsRate # "" THEN v.hsRate ELSE v.rate)

\* throttleOrSwitchRate
ThrottleOrSwitchRate(v, oc) == Or(oc.rate, v.rate)

\* expiredPoolRateAndPool
ExpiredPoolRate(v, oc) == Or(Or(oc.rate, v.throttle), FallbackRate)
ExpiredPoolName(v, oc) == Or(oc.pool, v.garden)

-----------------------------------------------------------------------------
(* windows                                                                 *)

\* windowActive: half open, wrapping at midnight.
WindowActive(w, minute) ==
    IF w.from < w.to THEN w.from <= minute /\ minute < w.to
    ELSE w.to < w.from /\ (w.from <= minute \/ minute < w.to)

\* speedWindowActive: no day at all means every day.
SpeedWindowActive(w, day, minute) ==
    (w.days = {} \/ day \in w.days) /\ WindowActive(w, minute)

\* selectSpeedWindow: the fastest of the active ones; mag is rateMagnitude of
\* the window's rate.
SelectSpeedWindow(ws, day, minute) ==
    LET active == {w \in ws : SpeedWindowActive(w, day, minute)} IN
    IF active = {} THEN ""
    ELSE (CHOOSE w \in active : \A u \in active : u.mag <= w.mag).rate

-----------------------------------------------------------------------------
(* what a login is told, and what an online session is told                *)

Attrs(rate, pool) == [do |-> "update", rate |-> rate, pool |-> pool]
Disconnect == [do |-> "disconnect", rate |-> "", pool |-> ""]
Noop == [do |-> "none", rate |-> "", pool |-> ""]

\* replyIntents, rate and pool of the answer to a login.
ReplyIntents(v, instPool, hotspot, oc, windowRate) ==
    IF oc.mode = "expired_pool" THEN Attrs(ExpiredPoolRate(v, oc), ExpiredPoolName(v, oc))
    ELSE Attrs(IF oc.mode = "normal" THEN NormalRate(v, hotspot, windowRate)
                                     ELSE ThrottleOrSwitchRate(v, oc),
               IF v.static THEN "static"
               ELSE Or(IF oc.mode = "switch_plan" THEN oc.pool ELSE "",
                       Or(instPool, IF hotspot THEN "" ELSE v.pool)))

\* Mutant: every throttle uses the rate of the quota.
PlanSharedRate(v, oc) ==
    IF oc.mode = "throttled" THEN Attrs(v.throttle, "") ELSE Attrs(ThrottleOrSwitchRate(v, oc), oc.pool)

\* planForOutcome (limits worker)
PlanForOutcome(v, oc) ==
    CASE oc.reject                            -> Disconnect
      [] oc.mode = "expired_pool"             -> Attrs(ExpiredPoolRate(v, oc), ExpiredPoolName(v, oc))
      [] oc.mode \in {"throttled", "switch_plan"} -> Attrs(ThrottleOrSwitchRate(v, oc), oc.pool)
      [] OTHER                                -> Noop

\* planSteps (enforcement worker), which knows less than the limits engine.
PlanSteps(kind, v) ==
    LET a == v.lim[kind].action IN
    IF kind = "quota"
    THEN CASE a = "block"        -> Disconnect
           [] a = "throttle"     -> IF v.throttle = "" THEN Disconnect ELSE Attrs(v.throttle, "")
           [] a = "expired_pool" -> IF v.garden = "" THEN Disconnect ELSE Attrs("", v.garden)
           [] OTHER              -> Noop
    ELSE IF a = "expired_pool" /\ v.garden # ""
         THEN Attrs(Or(v.throttle, FallbackRate), v.garden)
         ELSE Disconnect

=============================================================================
