------------------------------ MODULE MCNetwork ------------------------------
(***************************************************************************)
(* Who is let on the network, side by side: the enforcement worker, the    *)
(* authorization of a login, subscriber rows, plans and the registry of    *)
(* routers. In a behaviour one of the parts moves; the others rest in      *)
(* their first initial state.                                              *)
(***************************************************************************)
EXTENDS Enforcement, Authorize, Subscribers, Profiles, NasRegistry

-----------------------------------------------------------------------------
(* The plans, the logins and the people of the instance.                   *)

\* Two of each kind whose members are alike: writers of subscriber rows
\* and requests that look a router up.
CONSTANTS u1, u2
Symmetry == Permutations({u1, u2})

Plan == [rate |-> "plan", pool |-> "planpool"]
Lim(action) == ResolveExhaustTarget(action, "slow", Plan)

Profile(has, timed, daily) ==
    [has |-> has, timed |-> timed, throttle |-> "thr", garden |-> "garden",
     lim |-> [expiry |-> Lim("expired_pool"), quota |-> Lim("throttle"),
              uptime |-> Lim("block"), daily |-> Lim(daily)]]
MCConfigs == {Profile({"expiry", "daily"}, FALSE, "throttle"),
              Profile({"quota", "daily"}, FALSE, "switch_plan"),
              Profile({"uptime", "daily"}, TRUE, "expired_pool")}

CONSTANTS r1, r2
Account(expired, lock, pwd) ==
    [status |-> "active", expired |-> expired, lock |-> lock, pwd |-> pwd, stype |-> "dual",
     upOver |-> FALSE, dayOver |-> FALSE, limit |-> 1, scopes |-> {[nas |-> "n1", service |-> ""]},
     lim |-> [k \in {"expiry", "quota", "uptime", "daily"} |-> Lim("block")],
     windows |-> {[from |-> 0, to |-> 1, days |-> {}, rate |-> "boost", mag |-> 2]},
     rate |-> "full", hsRate |-> "", throttle |-> "", pool |-> "", garden |-> "", static |-> FALSE]
MCAccounts == {Account(FALSE, "learn", "p1"), Account(TRUE, "off", "p2")}
Login(service, station, mac, chap, pwd) ==
    [nas |-> "n1", service |-> service, station |-> station, mac |-> mac, chap |-> chap, pwd |-> pwd]
MCInput == (r1 :> Login("pppoe", "mac", "aa-1", "p1", "")) @@ (r2 :> Login("hotspot", "hs1", "BB2", "", "p1"))
Service(id, service, name) == [id |-> id, service |-> service, name |-> name, pool |-> ""]
MCInstances == {Service("i1", "pppoe", "ppp"), Service("i2", "hotspot", "hs1"), Service("i3", "hotspot", "hs2")}

-----------------------------------------------------------------------------
VARIABLE part

Parts == {"enforcement", "authorize", "subscribers", "profiles", "nas"}

MCInit ==
    /\ EnfInit /\ AuthInit /\ SubsInit /\ PlansInit /\ NasInit
    /\ part \in Parts
    /\ part # "enforcement" => cfg = CHOOSE c \in Configs : TRUE
    /\ part # "authorize" => hist[1].acct = (CHOOSE a \in Accounts : TRUE) /\ hist[1].mac = ""

MCNext ==
    \/ /\ part = "enforcement" /\ EnfNext
       /\ UNCHANGED <<part, authVars, subVars, planVars, nasVars>>
    \/ /\ part = "authorize" /\ AuthNext
       /\ UNCHANGED <<part, enfVars, subVars, planVars, nasVars>>
    \/ /\ part = "subscribers" /\ SubsNext
       /\ UNCHANGED <<part, enfVars, authVars, planVars, nasVars>>
    \/ /\ part = "profiles" /\ PlansNext
       /\ UNCHANGED <<part, enfVars, authVars, subVars, nasVars>>
    \/ /\ part = "nas" /\ NasNext
       /\ UNCHANGED <<part, enfVars, authVars, subVars, planVars>>

MCSpec == MCInit /\ [][MCNext]_<<part, enfVars, authVars, subVars, planVars, nasVars>>

\* The enforcement worker alone, which runs for the life of the process.
MCFairSpec == MCSpec /\ part = "enforcement" /\ EnfFairness

=============================================================================
