------------------------------ MODULE Routers ------------------------------
(***************************************************************************)
(* What the panel writes to one router: auto-setup, service, pool, WAN,    *)
(* wizard and firewall changes (internal/radius and its MikroTik adapter). *)
(* Every kind follows the same protocol.  A preview reads the router,      *)
(* plans items and conflicts and answers a hash of them; an apply plans    *)
(* again from a fresh read, refuses when the hash differs or a conflict is *)
(* left, writes the items one by one until one fails, and records the      *)
(* result in the database only when all of them went through.  A firewall  *)
(* edit also snapshots the rule, and a worker writes the snapshot back     *)
(* when nobody confirms the change within the window.                      *)
(*                                                                         *)
(* An object of the router is a record: ours (it carries the hikrad        *)
(* comment), act (the setting the plan's summary shows; 0 is unset and -1  *)
(* that the object does not exist) and src (a field the summary does not   *)
(* show).                                                                  *)
(***************************************************************************)
EXTENDS Integers, Sequences, FiniteSets

CONSTANTS Desk,         \* operators at the panel
          Asks,         \* the requests they may send
          Routers0,     \* initial contents of the router
          Provisioned,  \* service kinds enabled on the NAS (nas_services)
          MaxAsks,      \* bound on previews
          MaxSnaps,     \* bound on firewall snapshots
          MaxHand,      \* bound on edits made on the router by hand
          MaxRtrFaults  \* bound on failed calls and on process restarts

VARIABLES router,   \* object -> contents
          rdb,      \* nas_services, ip_pools, nas_wan_uplinks, wizard state
          ops,      \* operator -> the request under way
          snaps,    \* nas_firewall_snapshots, in insertion order
          sweep,    \* snapshots the revert worker has listed and not handled
          adopted,  \* an operator confirmed the adoption of the service
          rcount    \* what the bounds count

rtrVars == <<router, rdb, ops, snaps, sweep, adopted, rcount>>

Objects == {"radius", "incoming", "aaa", "prof", "garden", "server", "zone", "zprof",
            "uprof", "pool", "wan", "bridge", "dns", "ntp", "nat", "v6pool", "rule"}

Absent == [ours |-> FALSE, act |-> -1, src |-> 0]
There(r, o) == r[o].act # -1

Contents == [ours : BOOLEAN, act : Int, src : Int]

ASSUME RoutersAssumption ==
    /\ MaxAsks \in Nat /\ MaxSnaps \in Nat /\ MaxHand \in Nat /\ MaxRtrFaults \in Nat
    /\ Routers0 \subseteq [Objects -> Contents]
    /\ Asks \subseteq [kind : {"autosetup", "pppoe", "hotspot", "pool", "wan", "wizard", "firewall"},
                       v : Nat, w : Nat, res : {"update", "keep", "abort"}, edit : BOOLEAN]

NoRequest == [kind |-> "none", v |-> 0, w |-> 0, res |-> "abort", edit |-> FALSE]
NoPreview == [ask |-> NoRequest, items |-> <<>>, conf |-> {}]
NoOp == [step |-> "idle", ask |-> NoRequest, hash |-> NoPreview, todo |-> <<>>,
         before |-> Absent, was |-> Absent, alone |-> TRUE]

RtrInit ==
    /\ router \in Routers0
    /\ rdb = [svc |-> [pppoe |-> "router", hotspot |-> "none"], uplink |-> "none",
              pool |-> "system", ranges |-> 1, v6 |-> FALSE, wizard |-> FALSE]
    /\ ops = [o \in Desk |-> NoOp]
    /\ snaps = <<>> /\ sweep = {} /\ adopted = FALSE
    /\ rcount = [asks |-> 0, hand |-> 0, faults |-> 0]

-----------------------------------------------------------------------------
(* The adapter's plans.  shown is the item's CurrentState.                 *)

Add(o, v) == [obj |-> o, do |-> "add", act |-> v, src |-> 0, tag |-> TRUE, shown |-> -1]
Set(r, o, v) == [obj |-> o, do |-> "set", act |-> v, src |-> 0, tag |-> FALSE, shown |-> r[o].act]
Nothing == [items |-> <<>>, conf |-> {}]
Item(i) == [items |-> <<i>>, conf |-> {}]
Clash(r, o) == [items |-> <<>>, conf |-> {[obj |-> o, shown |-> r[o].act]}]
Both(p, q) == [items |-> p.items \o q.items, conf |-> p.conf \union q.conf]

\* A conflict with a known update: written, kept as it is, or left to abort.
resolveConflict(r, res, fix) ==
    CASE res = "update" -> Item(fix)
      [] res = "keep"   -> Nothing
      [] OTHER          -> Clash(r, fix.obj)

\* The summary of a /radius entry shows whose it is, not the secret; a secret
\* the API withholds (0) counts as equal.
planRadiusEntry(r, a) ==
    IF ~There(r, "radius") THEN Item(Add("radius", a.v))
    ELSE IF r["radius"].ours /\ r["radius"].act \in {0, a.v} THEN Nothing
    ELSE resolveConflict(r, a.res, [Set(r, "radius", a.v) EXCEPT
             !.tag = TRUE, !.shown = IF r["radius"].ours THEN 1 ELSE 0])

\* A router-wide setting: off is turned on, equal is left, else a conflict.
Toggle(r, o, v, res) ==
    CASE r[o].act \in {-1, 0} -> Item(Set(r, o, v))
      [] r[o].act = v         -> Nothing
      [] OTHER                -> resolveConflict(r, res, Set(r, o, v))

planRadiusIncoming(r, a) == Toggle(r, "incoming", a.v, a.res)
planPPPAAA(r, a) == Toggle(r, "aaa", a.v, a.res)

\* Only the default profile is set up; without one the conflict has no update.
planHotspotProfile(r, a) ==
    CASE ~There(r, "prof")      -> Clash(r, "prof")
      [] r["prof"].act = 0      -> Item(Set(r, "prof", a.v))
      [] OTHER                  -> Nothing

planWalledGarden(r, a) == IF There(r, "garden") THEN Nothing ELSE Item(Add("garden", a.v))

PlanAutoSetup(r, a) ==
    Both(Both(planRadiusEntry(r, a), planRadiusIncoming(r, a)),
         Both(IF "pppoe" \in Provisioned THEN planPPPAAA(r, a) ELSE Nothing,
              IF "hotspot" \in Provisioned
              THEN Both(planHotspotProfile(r, a), planWalledGarden(r, a)) ELSE Nothing))

\* Create needs the name free and edit needs it taken; then the AAA wiring,
\* which has no resolutions here.
planPPPoEServer(r, a) ==
    IF There(r, "server") # a.edit THEN Clash(r, "server")
    ELSE Both(IF ~a.edit THEN Item(Add("server", a.v))
              ELSE IF r["server"].act # a.v THEN Item(Set(r, "server", a.v)) ELSE Nothing,
              planPPPAAA(r, [a EXCEPT !.res = "abort"]))

planHotspotServer(r, a) ==
    IF There(r, "zone") # a.edit THEN Clash(r, "zone")
    ELSE Both(IF There(r, "zprof") THEN Nothing
              ELSE Both(Item(Add("zprof", a.v)), Item(Set(r, "uprof", 0))),
         Both(IF ~a.edit THEN Item(Add("zone", a.v))
              ELSE IF r["zone"].act # a.v THEN Item(Set(r, "zone", a.v)) ELSE Nothing,
              planWalledGarden(r, a)))

PlanService(r, a) ==
    IF a.kind = "hotspot" THEN planHotspotServer(r, a) ELSE planPPPoEServer(r, a)

\* Ranges of the HikRAD pool, whoever made the router's pool of that name.
PlanPool(r, ranges) ==
    CASE ~There(r, "pool")       -> Item(Add("pool", ranges))
      [] r["pool"].act = ranges  -> Nothing
      [] OTHER                   -> Item(Set(r, "pool", ranges))

\* An interface that has an uplink of the mode is left alone.
PlanWANUplink(r, a) == IF There(r, "wan") THEN Nothing ELSE Item(Add("wan", a.v))

planBridgeSetup(r, a) ==
    CASE ~There(r, "bridge")       -> Item(Add("bridge", a.v))
      [] r["bridge"].act = a.v     -> Nothing
      [] a.res = "keep"            -> Nothing
      [] OTHER                     -> Clash(r, "bridge")

planDNSSetup(r, a) == Toggle(r, "dns", a.v, a.res)
planNTPSetup(r, a) == IF r["ntp"].act = 0 THEN Item(Set(r, "ntp", a.v)) ELSE Nothing

planFirewallWizard(r, a) ==
    Both(IF There(r, "nat") THEN Nothing ELSE Item(Add("nat", a.v)), PlanPool(r, a.v))

PlanIPv6(r, a) ==
    CASE ~There(r, "v6pool")       -> Item(Add("v6pool", a.v))
      [] r["v6pool"].act = a.v     -> Nothing
      [] OTHER                     -> Clash(r, "v6pool")

PlanWizard(r, a) ==
    Both(Both(Both(planBridgeSetup(r, a), planDNSSetup(r, a)),
              Both(planNTPSetup(r, a), PlanWANUplink(r, a))),
         Both(Both(PlanAutoSetup(r, a), planPPPoEServer(r, a)),
              Both(planFirewallWizard(r, a), PlanIPv6(r, a))))

\* A rule that is gone or is not HikRAD's is refused; an edit sets two fields,
\* of which the summary shows one.
PlanFirewallChange(r, a) ==
    CASE ~a.edit                                -> Item([Add("rule", a.v) EXCEPT !.src = a.w])
      [] There(r, "rule") /\ r["rule"].ours     -> Item([Set(r, "rule", a.v) EXCEPT !.src = a.w])
      [] OTHER                                  -> Clash(r, "rule")

-----------------------------------------------------------------------------
(* Preview and the check an apply makes of it.                             *)

buildAutoSetupPlan(a) == PlanAutoSetup(router, a)
buildServicePlan(a) == PlanService(router, a)
buildWANPlan(a) == PlanWANUplink(router, a)
buildWizardPlan(a) == PlanWizard(router, a)
buildFirewallPlan(a) == PlanFirewallChange(router, a)

PlanOf(a) ==
    CASE a.kind = "autosetup"             -> buildAutoSetupPlan(a)
      [] a.kind \in {"pppoe", "hotspot"}  -> buildServicePlan(a)
      [] a.kind = "pool"                  -> PlanPool(router, rdb.ranges)
      [] a.kind = "wan"                   -> buildWANPlan(a)
      [] a.kind = "wizard"                -> buildWizardPlan(a)
      [] OTHER                            -> buildFirewallPlan(a)

\* What a preview hash binds: the request and the plan with its CurrentStates.
planHash(a) == [ask |-> a, items |-> PlanOf(a).items, conf |-> PlanOf(a).conf]

\* Editing a service needs an adopted row; pushing a pool an owned one.
loadPushablePool == rdb.pool = "system"
Allowed(a) ==
    /\ a.kind \in {"pppoe", "hotspot"} /\ a.edit => rdb.svc[a.kind] = "system"
    /\ a.kind = "pool" => loadPushablePool

Put(o, op) == ops' = [ops EXCEPT ![o] = op]
RtrFault == rcount.faults < MaxRtrFaults /\ rcount' = [rcount EXCEPT !.faults = @ + 1]

Preview(o, kinds) ==
    /\ ops[o].step = "idle" /\ rcount.asks < MaxAsks
    /\ \E a \in Asks : /\ a.kind \in kinds /\ Allowed(a)
                       /\ Put(o, [NoOp EXCEPT !.step = "previewed", !.ask = a, !.hash = planHash(a)])
    /\ rcount' = [rcount EXCEPT !.asks = @ + 1]
    /\ UNCHANGED <<router, rdb, snaps, sweep, adopted>>

autoSetupPreviewHandler(o) == Preview(o, {"autosetup"})
servicePlanHandler(o) == Preview(o, {"pppoe", "hotspot"})
poolPushPlanHandler(o) == Preview(o, {"pool"})
wanPlanHandler(o) == Preview(o, {"wan"})
wizardPlanHandler(o) == Preview(o, {"wizard"})
firewallPlanHandler(o) == Preview(o, {"firewall"})

\* The apply plans again; a changed hash, a conflict or a refusal ends it
\* before any write, a plan with nothing to do goes on to be recorded.
Apply(o, kinds, next) ==
    LET a == ops[o].ask IN
    /\ ops[o].step = "previewed" /\ a.kind \in kinds
    /\ IF Allowed(a) /\ planHash(a) = ops[o].hash /\ PlanOf(a).conf = {}
       THEN Put(o, [ops[o] EXCEPT !.step = next, !.todo = PlanOf(a).items])
       ELSE Put(o, NoOp)
    /\ UNCHANGED <<router, rdb, snaps, sweep, adopted, rcount>>

autoSetupApplyHandler(o) == Apply(o, {"autosetup"}, "write")
serviceApplyHandler(o) == Apply(o, {"pppoe", "hotspot"}, "write")
poolPushApplyHandler(o) == Apply(o, {"pool"}, "write")
wanApplyHandler(o) == Apply(o, {"wan"}, "write")
wizardApplyHandler(o) == Apply(o, {"wizard"}, "write")
firewallApplyHandler(o) == Apply(o, {"firewall"}, "snapshot")

\* A snapshot taken after the write captures the new state.
SnapshotLate(o) ==
    /\ ops[o].step = "snapshot"
    /\ Put(o, [ops[o] EXCEPT !.step = "write", !.alone = TRUE,
               !.before = IF ops[o].ask.edit
                          THEN [router["rule"] EXCEPT !.act = ops[o].ask.v, !.src = ops[o].ask.w]
                          ELSE Absent])
    /\ UNCHANGED <<router, rdb, snaps, sweep, adopted, rcount>>

\* The snapshot is a read of its own, before the write.
SnapshotFirewallRules(o) ==
    /\ ops[o].step = "snapshot"
    /\ Put(o, [ops[o] EXCEPT !.step = "write", !.alone = TRUE,
               !.before = IF ops[o].ask.edit THEN router["rule"] ELSE Absent])
    /\ UNCHANGED <<router, rdb, snaps, sweep, adopted, rcount>>

-----------------------------------------------------------------------------
(* Writing.                                                                *)

\* RouterOS takes an add of a new name and a set of an existing object.
RouterTakes(i) == (i.do = "add") # There(router, i.obj)

\* The contents after an item; a field the sentence leaves out (0) stays.
Written(i, x) ==
    [ours |-> x.ours \/ i.tag,
     act  |-> IF i.act = 0 /\ i.obj = "rule" THEN x.act ELSE i.act,
     src  |-> IF i.src = 0 THEN x.src ELSE i.src]

\* After a write to the rule by one party no other change is alone on it.
Disturb(obj, others) ==
    IF obj = "rule" THEN [o \in Desk |-> [ops[o] EXCEPT !.alone = @ /\ o \notin others]] ELSE ops
Shared(obj, keep) ==
    IF obj = "rule" THEN [n \in DOMAIN snaps |-> [snaps[n] EXCEPT !.alone = @ /\ n = keep]] ELSE snaps

\* One item of the plan: written, refused, or written with the answer lost.
\* A failure stops the apply: the rest is not written and nothing recorded.
\* was remembers what the write replaced; the code keeps no such thing.
ApplyAutoSetup(o) ==
    LET i == Head(ops[o].todo)
        rest == [Disturb(i.obj, Desk \ {o}) EXCEPT ![o].todo = Tail(@),
                     ![o].was = IF i.obj = "rule" THEN router["rule"] ELSE @]
    IN
    /\ ops[o].step = "write" /\ ops[o].todo # <<>>
    /\ UNCHANGED <<rdb, sweep, adopted>>
    /\ \/ /\ RouterTakes(i)
          /\ router' = [router EXCEPT ![i.obj] = Written(i, @)]
          /\ snaps' = Shared(i.obj, 0)
          /\ \/ ops' = rest /\ UNCHANGED rcount
             \/ ops' = [rest EXCEPT ![o] = NoOp] /\ RtrFault
       \/ /\ (~RouterTakes(i) /\ UNCHANGED rcount) \/ RtrFault
          /\ Put(o, NoOp)
          /\ UNCHANGED <<router, snaps>>

upsertSystemService(k) == [rdb EXCEPT !.svc[k] = "system"]
upsertSystemWANUplink == [rdb EXCEPT !.uplink = "system"]

\* The wizard writes the service, the expired pool where HikRAD owns the name,
\* the service's IPv6 settings, and marks itself completed.
persistWizardApply(a) ==
    [rdb EXCEPT !.svc = upsertSystemService("pppoe").svc, !.v6 = TRUE, !.wizard = TRUE,
                !.pool = IF @ = "none" THEN "system" ELSE @,
                !.ranges = IF rdb.pool = "router" THEN @ ELSE a.v]

\* One row for an edit of an existing rule; an addition has nothing to revert.
insertFirewallSnapshot(o) ==
    Append(snaps, [before |-> ops[o].before, was |-> ops[o].was, after |-> ops[o].ask,
                   due |-> FALSE, confirmed |-> FALSE, reverted |-> FALSE, failed |-> FALSE,
                   late |-> FALSE, alone |-> ops[o].alone])

RecordApplied(o) ==
    LET a == ops[o].ask IN
    /\ ops[o].step = "write" /\ ops[o].todo = <<>>
    /\ a.kind = "firewall" => Len(snaps) < MaxSnaps
    /\ rdb' = CASE a.kind \in {"pppoe", "hotspot"} -> upsertSystemService(a.kind)
                [] a.kind = "wan"                  -> upsertSystemWANUplink
                [] a.kind = "wizard"               -> persistWizardApply(a)
                [] OTHER                           -> rdb
    /\ snaps' = IF a.kind = "firewall" /\ a.edit THEN insertFirewallSnapshot(o) ELSE snaps
    /\ Put(o, NoOp)
    /\ UNCHANGED <<router, sweep, adopted, rcount>>

-----------------------------------------------------------------------------
(* The confirm window and the revert worker.                               *)

\* The deadline of a snapshot passes.
Lapse == \E n \in DOMAIN snaps :
    /\ ~snaps[n].due
    /\ snaps' = [snaps EXCEPT ![n].due = TRUE]
    /\ UNCHANGED <<router, rdb, ops, sweep, adopted, rcount>>

\* late: the worker had listed the row when the operator confirmed it.
confirmFirewallSnapshot(n) ==
    /\ ~snaps[n].confirmed /\ ~snaps[n].reverted
    /\ snaps' = [snaps EXCEPT ![n].confirmed = TRUE, ![n].late = n \in sweep]

firewallConfirmHandler ==
    /\ \E n \in DOMAIN snaps : confirmFirewallSnapshot(n)
    /\ UNCHANGED <<router, rdb, ops, sweep, adopted, rcount>>

duePendingSnapshots ==
    {n \in DOMAIN snaps : ~snaps[n].confirmed /\ ~snaps[n].reverted /\ snaps[n].due}

sweepDueFirewallReverts ==
    /\ sweep = {} /\ duePendingSnapshots # {}
    /\ sweep' = duePendingSnapshots
    /\ UNCHANGED <<router, rdb, ops, snaps, adopted, rcount>>

markSnapshotReverted(n, ok) == [reverted |-> TRUE, failed |-> ~ok]

\* The revert sentence names the fields that had a value.
Restored(n) == LET b == snaps[n].before IN
    [router["rule"] EXCEPT !.ours = @ \/ b.ours, !.act = IF b.act = 0 THEN @ ELSE b.act,
                           !.src = IF b.src = 0 THEN @ ELSE b.src]

\* Writes the rule back and marks the row, by its id alone; an unreachable
\* router leaves the row for the next tick, a refused write marks it failed.
revertOneFirewallSnapshot == \E n \in sweep :
    /\ sweep' = sweep \ {n}
    /\ UNCHANGED <<rdb, adopted>>
    /\ \/ /\ There(router, "rule") /\ UNCHANGED rcount
          /\ router' = [router EXCEPT !["rule"] = Restored(n)]
          /\ ops' = Disturb("rule", Desk)
          /\ snaps' = [Shared("rule", n) EXCEPT
                 ![n].reverted = markSnapshotReverted(n, TRUE).reverted]
       \/ /\ (~There(router, "rule") /\ UNCHANGED rcount) \/ RtrFault
          /\ snaps' = [snaps EXCEPT ![n].reverted = TRUE,
                 ![n].failed = markSnapshotReverted(n, FALSE).failed]
          /\ UNCHANGED <<router, ops>>
       \/ RtrFault /\ UNCHANGED <<router, ops, snaps>>

-----------------------------------------------------------------------------
(* Adoption and the pool records.                                          *)

adoptServiceHandler ==
    /\ rdb.svc["pppoe"] = "router"
    /\ rdb' = [rdb EXCEPT !.svc["pppoe"] = "system"] /\ adopted' = TRUE
    /\ UNCHANGED <<router, ops, snaps, sweep, rcount>>

\* A router's pool or uplink becomes a read-only row, unless HikRAD owns one.
adoptPool == IF rdb.pool = "system" THEN rdb.pool ELSE "router"
poolAdoptHandler ==
    /\ There(router, "pool") /\ adoptPool # rdb.pool
    /\ rdb' = [rdb EXCEPT !.pool = adoptPool]
    /\ UNCHANGED <<router, ops, snaps, sweep, adopted, rcount>>

adoptWANUplink == IF rdb.uplink = "system" THEN rdb.uplink ELSE "router"
wanAdoptHandler ==
    /\ There(router, "wan") /\ adoptWANUplink # rdb.uplink
    /\ rdb' = [rdb EXCEPT !.uplink = adoptWANUplink]
    /\ UNCHANGED <<router, ops, snaps, sweep, adopted, rcount>>

\* A router-managed pool is read-only.
refuseIfRouterManaged == rdb.pool = "router"
createPoolHandler ==
    /\ rdb.pool = "none"
    /\ rdb' = [rdb EXCEPT !.pool = "system"]
    /\ UNCHANGED <<router, ops, snaps, sweep, adopted, rcount>>
updatePoolHandler ==
    /\ rdb.pool # "none" /\ ~refuseIfRouterManaged /\ rcount.hand < MaxHand
    /\ rdb' = [rdb EXCEPT !.ranges = 3 - @]
    /\ rcount' = [rcount EXCEPT !.hand = @ + 1]
    /\ UNCHANGED <<router, ops, snaps, sweep, adopted>>
deletePoolHandler ==
    /\ rdb.pool # "none" /\ ~refuseIfRouterManaged /\ rcount.hand < MaxHand
    /\ rdb' = [rdb EXCEPT !.pool = "none"]
    /\ rcount' = [rcount EXCEPT !.hand = @ + 1]
    /\ UNCHANGED <<router, ops, snaps, sweep, adopted>>

\* Somebody changes, makes or removes an object on the router itself.
ByHand == \E o \in {"rule", "radius", "server"}, x \in
             {Absent, [ours |-> FALSE, act |-> 2, src |-> 0], [ours |-> TRUE, act |-> 2, src |-> 2]} :
    /\ rcount.hand < MaxHand /\ router[o] # x
    /\ router' = [router EXCEPT ![o] = x]
    /\ ops' = Disturb(o, Desk) /\ snaps' = Shared(o, 0)
    /\ rcount' = [rcount EXCEPT !.hand = @ + 1]
    /\ UNCHANGED <<rdb, sweep, adopted>>

\* hikrad-api dies: requests and the worker's list are gone.
Restarts ==
    /\ RtrFault
    /\ ops' = [o \in Desk |-> NoOp] /\ sweep' = {}
    /\ UNCHANGED <<router, rdb, snaps, adopted>>

Panel(o) ==
    \/ autoSetupPreviewHandler(o) \/ autoSetupApplyHandler(o)
    \/ servicePlanHandler(o) \/ serviceApplyHandler(o)
    \/ poolPushPlanHandler(o) \/ poolPushApplyHandler(o)
    \/ wanPlanHandler(o) \/ wanApplyHandler(o)
    \/ wizardPlanHandler(o) \/ wizardApplyHandler(o)
    \/ firewallPlanHandler(o) \/ firewallApplyHandler(o) \/ SnapshotFirewallRules(o)
    \/ ApplyAutoSetup(o) \/ RecordApplied(o)

RtrNext ==
    \/ \E o \in Desk : Panel(o)
    \/ Lapse \/ firewallConfirmHandler \/ sweepDueFirewallReverts \/ revertOneFirewallSnapshot
    \/ adoptServiceHandler \/ poolAdoptHandler \/ wanAdoptHandler
    \/ createPoolHandler \/ updatePoolHandler \/ deletePoolHandler
    \/ ByHand \/ Restarts

RtrSpec == RtrInit /\ [][RtrNext]_rtrVars

-----------------------------------------------------------------------------

\* A field after an edit that may leave it out (0).
Edited(new, old) == IF new = 0 THEN old ELSE new

\* A firewall edit nobody else interferes with ends in one of two ways.
\* Reverted, every field that had a value before has it again; confirmed
\* before the revert worker listed it, the rule is what it was with the fields
\* of the edit set, whatever the worker, restarts and lost answers did in
\* between (firewall_api.go:143-146, 225-227, firewall_store.go:65-68).
RevertRestores == \A n \in DOMAIN snaps : snaps[n].alone =>
    /\ snaps[n].reverted /\ ~snaps[n].failed =>
           \A f \in {"act", "src"} :
               snaps[n].was[f] # 0 => router["rule"][f] = snaps[n].was[f]
    /\ snaps[n].confirmed /\ ~snaps[n].late =>
           /\ ~snaps[n].reverted
           /\ router["rule"].act = Edited(snaps[n].after.v, snaps[n].was.act)
           /\ router["rule"].src = Edited(snaps[n].after.w, snaps[n].was.src)

\* Fails: "put each one back exactly as it is right now"
\* (vendor/mikrotik_firewall.go:138-144); an empty field is left out of the
\* revert sentence, so a field the edit added stays.
RevertExact == \A n \in DOMAIN snaps :
    snaps[n].alone /\ snaps[n].reverted /\ ~snaps[n].failed => router["rule"] = snaps[n].was

\* Fails: "the auto-revert worker skips any row with confirmed=true"
\* (firewall_store.go:65-68); the worker works from its list.
ConfirmWins == \A n \in DOMAIN snaps : ~(snaps[n].confirmed /\ snaps[n].reverted)

\* Fails: "adopt it before editing" (nas_services_provision_api.go:150); the
\* wizard takes a router-managed service over without asking
\* (wizard_api.go:168-180, nas_services_store.go:276-279).
AdoptedFirst == rdb.svc["pppoe"] = "system" => adopted
=============================================================================
