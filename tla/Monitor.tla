------------------------------ MODULE Monitor ------------------------------
(***************************************************************************)
(* hikrad-monitor: the probe engine with its per-target reachability state *)
(* machine, the alert engine with rules, cooldown and quiet hours, the     *)
(* periodic conditions, and the device and rule operations of the API      *)
(* process that write the tables they read.                                *)
(*                                                                         *)
(* A sweep probes all targets concurrently and waits for them; a probe     *)
(* writes its row, folds the outcome into the state machine and fires on   *)
(* an edge. Rows and feed entries are kept whole, so that the downtime log *)
(* the API recomputes from the rows can be compared with the alerts.       *)
(***************************************************************************)
EXTENDS Naturals, Sequences, FiniteSets, SequencesExt

CONSTANTS Nases, Devices, \* the probe targets of both kinds
          Estates,        \* the registrations the engine may find when it starts
          Conds,          \* the conditions read every tick: "disk_low", "acct_backlog", ...
          RuleIds, RuleForms, \* alert rules, and the forms an operator gives them
          DownThreshold,  \* 4 in state.go
          MaxReading, MaxRows, MaxSNMP, MaxFeed, MaxMonFaults, MaxMonEdits  \* bounds of the instance

Targets == Nases \union Devices

ASSUME MonitorAssumption ==
    /\ Nases \intersect Devices = {} /\ "system" \notin Targets
    /\ IsFiniteSet(RuleIds)
    /\ Estates \subseteq [Targets -> {"new", "on", "off", "gone"}]
    /\ DownThreshold \in Nat \ {0}
    /\ {MaxReading, MaxRows, MaxSNMP, MaxFeed, MaxMonFaults, MaxMonEdits} \subseteq Nat

VARIABLES registry, targets, states, work,   \* rows of nas/devices; the engine
          probes, feed,                      \* health_probes, alert_events
          rules, cooling, quiet,             \* alert_rules, Redis cooldowns, the hour
          claimed,                           \* the daily claim of the digest
          sess, live,                        \* open session row / live entry per NAS
          born, clean,                       \* where the engine's present memory began
          monFaults, monEdits

engine == <<targets, states, work>>
alerts == <<rules, cooling, quiet>>
views  == <<sess, live>>
marks  == <<born, clean>>
monVars == <<registry, engine, probes, feed, alerts, claimed, views, marks,
             monFaults, monEdits>>

Fresh == [status |-> "unknown", miss |-> 0]
Idle  == [pc |-> "idle", edge |-> "none", loaded |-> <<>>]
NoRule == [type |-> "none"]
NewLife(t) == [row |-> Len(probes[t]), event |-> Len(feed[t])]

MonInit ==
    /\ registry \in Estates
    /\ targets = {} /\ states = [t \in Targets |-> Fresh]
    /\ work = [t \in Targets |-> Idle]
    /\ probes = [t \in Targets |-> <<>>]
    /\ feed = [s \in Targets \union {"system"} |-> <<>>]
    /\ rules = [r \in RuleIds |-> NoRule] /\ cooling = {} /\ quiet = FALSE
    /\ claimed = FALSE
    /\ sess = [n \in Nases |-> "open"] /\ live = [n \in Nases |-> "live"]
    /\ born = [t \in Targets |-> [row |-> 0, event |-> 0]]
    /\ clean = [t \in Targets |-> TRUE]
    /\ monFaults = 0 /\ monEdits = 0

----------------------------------------------------------------------------
\* The state machine: an edge is reported by the probe that crosses it only.

Observe(st, ok) ==
    IF ok THEN [to |-> [status |-> "up", miss |-> 0],
                edge |-> IF st.status = "down" THEN "resolved" ELSE "none"]
    ELSE LET miss == IF st.miss < DownThreshold THEN st.miss + 1 ELSE st.miss
             falls == miss >= DownThreshold /\ st.status # "down"
         IN  [to |-> [status |-> IF falls THEN "down" ELSE st.status, miss |-> miss],
              edge |-> IF falls THEN "firing" ELSE "none"]

\* The downtime log: the same machine folded over the stored ICMP samples.
NoLog == [st |-> Fresh, log |-> <<>>]
LogSample(acc, s) ==
    IF s.kind # "icmp" THEN acc
    ELSE LET o == Observe(acc.st, s.ok)
         IN  [st |-> o.to, log |-> IF o.edge = "none" THEN acc.log ELSE Append(acc.log, o.edge)]
DowntimeFromSeries(series) == FoldLeft(LogSample, NoLog, series).log

\* The rows a query for kind = 'icmp' returns.
KeepICMP(acc, s) == IF s.kind = "icmp" THEN Append(acc, s) ELSE acc
SamplesICMP(series) == FoldLeft(KeepICMP, <<>>, series)

\* The status the API answers, from the last DownThreshold ICMP samples.
StatusFromProbes(series) ==
    LET icmp == SamplesICMP(series)
        last == SubSeq(icmp, IF Len(icmp) < DownThreshold THEN 1
                             ELSE Len(icmp) - DownThreshold + 1, Len(icmp))
    IN  CASE icmp = <<>> -> "unknown"
          [] icmp # <<>> /\ Last(icmp).ok -> "up"
          [] Len(icmp) >= DownThreshold /\ \A i \in DOMAIN last : ~last[i].ok -> "down"
          [] OTHER -> "unknown"

----------------------------------------------------------------------------
\* The alert engine.

\* Rules are loaded with their contents: id -> form.
LoadRules(type) ==
    LET ids == {r \in RuleIds : rules[r] # NoRule /\ rules[r].enabled /\ rules[r].type = type}
    IN  [r \in ids |-> rules[r]]

InQuietHours(f) == quiet /\ f.quiet

EffectiveChannels(f) ==
    IF InQuietHours(f) THEN f.channels \intersect {"in_app"} ELSE f.channels

Claim(r, f) == ~f.cooldown \/ r \notin cooling

\* What one Fire writes: the claims it takes (also for a rule whose channels are
\* all silent), and one feed row per answering rule or, for a reachability edge
\* nobody answered, one row of its own.
Answering(loaded) == {r \in DOMAIN loaded : Claim(r, loaded[r]) /\ EffectiveChannels(loaded[r]) # {}}
Claims(loaded) == {r \in DOMAIN loaded : loaded[r].cooldown}
RowsOfMatched(loaded, always) ==
    IF DOMAIN loaded = {} /\ always THEN 1 ELSE Cardinality(Answering(loaded))
RowsWritten(loaded, always) ==
    IF Answering(loaded) = {} /\ always THEN 1 ELSE Cardinality(Answering(loaded))
Record(state, n) == [i \in 1..n |-> state]

Fire(src, state, loaded, always) ==
    /\ cooling' = cooling \union Claims(loaded)
    /\ feed' = [feed EXCEPT ![src] = @ \o Record(state, RowsWritten(loaded, always))]
    /\ Len(feed'[src]) <= MaxFeed

CooldownExpires == \E r \in cooling :
    /\ cooling' = cooling \ {r}
    /\ UNCHANGED <<registry, engine, probes, feed, rules, quiet, claimed, views, marks,
                   monFaults, monEdits>>

HourTurns ==
    /\ quiet' = ~quiet
    /\ claimed' \in {claimed, FALSE}    \* the digest's key is per day
    /\ UNCHANGED <<registry, engine, probes, feed, rules, cooling, views, marks,
                   monFaults, monEdits>>

----------------------------------------------------------------------------
\* The probe engine. The loop waits for a sweep, so a reload never meets one.

Resting == \A t \in Targets : work[t] = Idle

LoadTargets == {t \in Targets : registry[t] = "on"}

ReloadTargets ==
    /\ Resting /\ targets' = LoadTargets
    /\ states' = [t \in Targets |-> IF t \in targets' THEN states[t] ELSE Fresh]
    /\ born' = [t \in Targets |-> IF t \in targets' /\ t \in targets THEN born[t] ELSE NewLife(t)]
    /\ clean' = [t \in Targets |-> IF t \in targets' /\ t \in targets THEN clean[t] ELSE TRUE]
    /\ UNCHANGED <<registry, work, probes, feed, alerts, claimed, views, monFaults, monEdits>>

SweepICMP ==
    /\ Resting /\ targets # {}
    /\ \A t \in targets : Len(probes[t]) < MaxRows
    /\ work' = [t \in Targets |-> IF t \in targets THEN [Idle EXCEPT !.pc = "ping"] ELSE work[t]]
    /\ UNCHANGED <<registry, targets, states, probes, feed, alerts, claimed, views, marks,
                   monFaults, monEdits>>

Fault(t) == /\ monFaults < MaxMonFaults /\ monFaults' = monFaults + 1
            /\ clean' = [clean EXCEPT ![t] = FALSE]

\* The row of a target deleted meanwhile is refused; the outcome still counts.
WriteProbe(t, row) ==
    IF registry[t] = "gone" THEN /\ clean' = [clean EXCEPT ![t] = FALSE]
                                 /\ UNCHANGED <<probes, monFaults>>
    ELSE \/ probes' = [probes EXCEPT ![t] = Append(@, row)] /\ UNCHANGED <<clean, monFaults>>
         \/ Fault(t) /\ UNCHANGED probes

ProbeICMP(t) == \E ok \in BOOLEAN :
    LET o == Observe(states[t], ok) IN
    /\ work[t].pc = "ping"
    /\ WriteProbe(t, [kind |-> "icmp", ok |-> ok])
    /\ states' = [states EXCEPT ![t] = o.to]
    /\ work' = [work EXCEPT ![t] = IF o.edge = "none" THEN Idle
                                   ELSE [Idle EXCEPT !.pc = "load", !.edge = o.edge]]
    /\ UNCHANGED <<registry, targets, feed, alerts, claimed, views, born, monEdits>>

ProbeSNMP(t) ==
    /\ t \in targets /\ Len(probes[t]) < MaxRows
    /\ Len(SelectSeq(probes[t], LAMBDA s : s.kind = "snmp")) < MaxSNMP
    /\ WriteProbe(t, [kind |-> "snmp", ok |-> TRUE])
    /\ UNCHANGED <<registry, engine, feed, alerts, claimed, views, born, monEdits>>

RuleType(t, edge) == IF t \in Nases THEN (IF edge = "firing" THEN "nas_down" ELSE "nas_up")
                     ELSE (IF edge = "firing" THEN "device_down" ELSE "device_up")

\* Fire loads the rules first; a failure there drops the event, the rest follows.
AfterFire(t) == IF work[t].edge = "resolved" /\ t \in Nases
                THEN [Idle EXCEPT !.pc = "reconcile"] ELSE Idle

OnEdge(t) ==
    /\ work[t].pc = "load"
    /\ \/ /\ work' = [work EXCEPT ![t].pc = "fire",
                                  ![t].loaded = LoadRules(RuleType(t, work[t].edge))]
          /\ UNCHANGED <<clean, monFaults>>
       \/ Fault(t) /\ work' = [work EXCEPT ![t] = AfterFire(t)]
    /\ UNCHANGED <<registry, targets, states, probes, feed, alerts, claimed, views, born, monEdits>>

FireEdge(t) ==
    /\ work[t].pc = "fire"
    /\ Fire(t, work[t].edge, work[t].loaded, TRUE)
    /\ work' = [work EXCEPT ![t] = AfterFire(t)]
    /\ UNCHANGED <<registry, targets, states, probes, rules, quiet, claimed, views, marks,
                   monFaults, monEdits>>

\* On recovery the open sessions are flagged in the table, then in the live hash:
\* read, set stale, write back, while the accounting consumer may remove the entry.
ReconcileMissingStops(n) ==
    /\ work[n].pc = "reconcile"
    /\ sess' = [sess EXCEPT ![n] = IF @ = "open" THEN "stale" ELSE @]
    /\ work' = [work EXCEPT ![n] = IF sess[n] = "open" THEN [Idle EXCEPT !.pc = "hget"] ELSE Idle]
    /\ UNCHANGED <<registry, targets, states, probes, feed, alerts, claimed, live, marks,
                   monFaults, monEdits>>

ReadLive(n) ==
    /\ work[n].pc = "hget"
    /\ work' = [work EXCEPT ![n] = IF live[n] = "none" THEN Idle ELSE [Idle EXCEPT !.pc = "upsert"]]
    /\ UNCHANGED <<registry, targets, states, probes, feed, alerts, claimed, views, marks,
                   monFaults, monEdits>>

UpsertLive(n) ==
    /\ work[n].pc = "upsert" /\ live' = [live EXCEPT ![n] = "stale"]
    /\ work' = [work EXCEPT ![n] = Idle]
    /\ UNCHANGED <<registry, targets, states, probes, feed, alerts, claimed, sess, marks,
                   monFaults, monEdits>>

\* external: hikrad-acct closes the session row and removes the live entry
ConsumerStop(n) ==
    /\ sess[n] # "closed" /\ sess' = [sess EXCEPT ![n] = "closed"]
    /\ live' = [live EXCEPT ![n] = "none"]
    /\ UNCHANGED <<registry, engine, probes, feed, alerts, claimed, marks, monFaults, monEdits>>

\* A restart forgets every state, probe and edge not yet fired; Redis keeps cooldowns.
MonRestart ==
    /\ monFaults < MaxMonFaults /\ monFaults' = monFaults + 1
    /\ targets' = LoadTargets
    /\ states' = [t \in Targets |-> Fresh] /\ work' = [t \in Targets |-> Idle]
    /\ born' = [t \in Targets |-> NewLife(t)] /\ clean' = [t \in Targets |-> TRUE]
    /\ UNCHANGED <<registry, probes, feed, alerts, claimed, views, monEdits>>

----------------------------------------------------------------------------
\* The polled conditions: level triggered, damped by the cooldown alone.

\* Each condition compares the reading v of this tick with the rule's threshold;
\* an accounting rule of the other sort asks whether the counters still add up.
DiskLow(v, f)         == v >= f.threshold
AcctBacklog(v, ok, f) == IF f.invariant THEN ~ok ELSE v >= f.threshold
RejectSpike(v, f)     == v # 0 /\ v >= f.threshold
AgentBalanceLow(v, f) == v <= f.threshold
ClaimDaily            == ~claimed

Matching(c, v, ok, f) == CASE c = "disk_low" -> DiskLow(v, f)
                           [] c = "acct_backlog" -> AcctBacklog(v, ok, f)
                           [] c = "radius_reject_spike" -> RejectSpike(v, f)
                           [] c = "agent_balance_low" -> AgentBalanceLow(v, f)

MatchedRules(c, v, ok) == LET all == LoadRules(c)
                          IN  Restrict(all, {r \in DOMAIN all : Matching(c, v, ok, all[r])})

Evaluate(c) == \E v \in 0..MaxReading, ok \in BOOLEAN :
    /\ DOMAIN MatchedRules(c, v, ok) # {}
    /\ Fire("system", "firing", MatchedRules(c, v, ok), FALSE)
    /\ UNCHANGED <<registry, engine, probes, rules, quiet, claimed, views, marks,
                   monFaults, monEdits>>

Digests ==
    /\ DOMAIN LoadRules("expiring_digest") # {} /\ ClaimDaily /\ claimed' = TRUE
    /\ Fire("system", "firing", LoadRules("expiring_digest"), FALSE)
    /\ UNCHANGED <<registry, engine, probes, rules, quiet, views, marks,
                   monFaults, monEdits>>

----------------------------------------------------------------------------
\* The API's operations on devices and rules.

Edit == monEdits < MaxMonEdits /\ monEdits' = monEdits + 1

SetRegistry(t, v) ==
    /\ Edit /\ registry' = [registry EXCEPT ![t] = v]
    /\ UNCHANGED <<engine, probes, feed, alerts, claimed, views, marks, monFaults>>

CreateDevice(t) == registry[t] = "new" /\ \E v \in {"on", "off"} : SetRegistry(t, v)
UpdateDevice(t) == registry[t] \in {"on", "off"} /\ \E v \in {"on", "off"} \ {registry[t]} : SetRegistry(t, v)
DeleteDevice(t) == registry[t] \in {"on", "off"} /\ SetRegistry(t, "gone")

PutRule(r, form) ==
    /\ Edit /\ rules' = [rules EXCEPT ![r] = form]
    /\ UNCHANGED <<registry, engine, probes, feed, cooling, quiet, claimed, views, marks, monFaults>>

CreateAlertRule(r) == rules[r] = NoRule /\ \E f \in RuleForms : PutRule(r, f)
UpdateAlertRule(r) == rules[r] # NoRule /\ \E f \in RuleForms \ {rules[r]} : PutRule(r, f)

MonNext ==
    \/ ReloadTargets \/ SweepICMP \/ MonRestart \/ CooldownExpires \/ HourTurns \/ Digests
    \/ \E t \in Targets : ProbeICMP(t) \/ ProbeSNMP(t) \/ OnEdge(t) \/ FireEdge(t)
    \/ \E n \in Nases : ReconcileMissingStops(n) \/ ReadLive(n) \/ UpsertLive(n) \/ ConsumerStop(n)
    \/ \E c \in Conds : Evaluate(c)
    \/ \E t \in Devices : CreateDevice(t) \/ UpdateDevice(t) \/ DeleteDevice(t)
    \/ \E r \in RuleIds : CreateAlertRule(r) \/ UpdateAlertRule(r)

MonSpec == MonInit /\ [][MonNext]_monVars

----------------------------------------------------------------------------
\* Repeats of one edge (one feed row per answering rule) count once.
Squash(acc, e) == IF acc # <<>> /\ Last(acc) = e THEN acc ELSE Append(acc, e)
Squashed(s) == FoldLeft(Squash, <<>>, s)
Told(t)    == Squashed(SubSeq(feed[t], born[t].event + 1, Len(feed[t])))
Sampled(t) == SubSeq(probes[t], born[t].row + 1, Len(probes[t]))

(* While the engine remembers a target and no write of it failed, the alert  *)
(* feed holds exactly the transitions of the downtime log the API computes   *)
(* from the stored samples ("so the log matches exactly when alerts fired",  *)
(* history_api.go), whatever rules, cooldowns and quiet hours did to the     *)
(* notifications, and the status page says "down" exactly when the engine    *)
(* does ("the same downThreshold rule as the live state machine").           *)
FeedMatchesLog ==
    \A t \in Targets : clean[t] =>
        /\ work[t].pc \notin {"load", "fire"} => Told(t) = DowntimeFromSeries(Sampled(t))
        /\ states[t].status = "down" <=> StatusFromProbes(Sampled(t)) = "down"

(* Not true: the same over the whole history. A restart, or a device         *)
(* disabled while it is down, forgets the outage and never resolves it.      *)
FeedMatchesLogAlways ==
    \A t \in Targets : clean[t] /\ work[t].pc \notin {"load", "fire"} =>
        Squashed(feed[t]) = DowntimeFromSeries(probes[t])

(* Not true: a live entry belongs to an open session ("flag, don't           *)
(* synthesize", probe.go); the write back can restore a removed entry.       *)
NoGhostEntry == \A n \in Nases : live[n] # "none" => sess[n] # "closed"
=============================================================================
