---------------------------- MODULE NasRegistry ----------------------------
(***************************************************************************)
(* The NAS table and the three copies of it that decide whether a router   *)
(* may talk RADIUS: the in-memory registry of hikrad-api (10 s snapshot    *)
(* with invalidation), the clients file regenerated by a detached          *)
(* goroutine after every mutation, and the entries FreeRADIUS learns       *)
(* through the dynamic-client endpoint                                     *)
(* (internal/radius nas_api.go, nas_store.go, clients.go).                 *)
(***************************************************************************)
EXTENDS Integers, FiniteSets

CONSTANTS NasIds, Addrs,      \* registered routers and their addresses
          Secrets,            \* numbers other than 0, which is none
          NoNas,              \* not a router
          Lookups,            \* authorize requests looking a router up
          CacheTTL,           \* nasCacheTTL
          LoadLife,           \* longest time between a reload's read and its store
          MaxNasEdits, MaxDbFaults   \* bounds

VARIABLES nas,        \* router -> row; NoRouter when it does not exist
          registry,   \* [byIP, loaded, age]: the snapshot and its age
          finds,      \* lookup -> its progress
          regens,     \* regenerations under way: [id, conf]
          file,       \* the clients file: address -> secret (0: none)
          dynamic,    \* what FreeRADIUS learnt: address -> secret
          changed,    \* address -> time since its registration last changed
          ncount      \* what the bounds count

nasVars == <<nas, registry, finds, regens, file, dynamic, changed, ncount>>

ASSUME NasAssumption ==
    /\ CacheTTL \in Nat \ {0} /\ LoadLife \in 0..CacheTTL
    /\ MaxNasEdits \in Nat /\ MaxDbFaults \in Nat
    /\ Secrets \subseteq Nat \ {0} /\ NoNas \notin NasIds

NoRouter == [ip |-> NoNas, secret |-> 0, enabled |-> FALSE, services |-> 0]
Bound == CacheTTL + LoadLife + 1

\* The enabled router at an address, read from the table.
EnabledAt(a) ==
    IF \E n \in NasIds : nas[n].ip = a /\ nas[n].enabled
    THEN CHOOSE n \in NasIds : nas[n].ip = a /\ nas[n].enabled ELSE NoNas

NoLookup == [step |-> "idle", ip |-> NoNas, read |-> [a \in Addrs |-> NoNas], old |-> NoNas,
             had |-> FALSE, age |-> 0, wrong |-> 0, sick |-> FALSE]

\* An answer, with the time for which the table has said otherwise.
Answer(ip, n) ==
    [NoLookup EXCEPT !.step = "answered", !.wrong = IF n = EnabledAt(ip) THEN 0 ELSE changed[ip]]

NasInit ==
    /\ nas = [n \in NasIds |-> NoRouter]
    /\ registry = [byIP |-> [a \in Addrs |-> NoNas], loaded |-> FALSE, age |-> 0]
    /\ finds = [l \in Lookups |-> NoLookup]
    /\ regens = {} /\ file = [a \in Addrs |-> 0] /\ dynamic = [a \in Addrs |-> 0]
    /\ changed = [a \in Addrs |-> Bound]
    /\ ncount = [edits |-> 0, faults |-> 0]

-----------------------------------------------------------------------------
(* Mutations.                                                              *)

\* Drops the snapshot; the next lookup reloads.
invalidate == registry' = [registry EXCEPT !.loaded = FALSE]

\* Invalidate, then a detached goroutine that regenerates the clients file.
afterNASChange ==
    /\ invalidate
    /\ regens' = regens \union {[id |-> ncount.edits + 1, step |-> "list", conf |-> file]}
    /\ ncount' = [ncount EXCEPT !.edits = @ + 1]
    /\ changed' = [a \in Addrs |->
           IF \E n \in NasIds : nas[n] # nas'[n] /\ a \in {nas[n].ip, nas'[n].ip} THEN 0 ELSE changed[a]]

\* Address unique among the rows, at least one service.
insertNAS(n, ip, secret) == [ip |-> ip, secret |-> secret, enabled |-> TRUE, services |-> 0]
updateNAS(n, ip, secret, on) ==
    [nas[n] EXCEPT !.ip = ip, !.enabled = on, !.secret = IF secret = 0 THEN @ ELSE secret]
replaceServices(row, k) == [row EXCEPT !.services = k]
Unique(n, ip) == \A m \in NasIds \ {n} : nas[m].ip # ip

Mutable == ncount.edits < MaxNasEdits
Rest == UNCHANGED <<finds, file, dynamic>>

createNASHandler == \E n \in NasIds, ip \in Addrs, secret \in Secrets :
    /\ Mutable /\ nas[n] = NoRouter /\ Unique(n, ip)
    /\ nas' = [nas EXCEPT ![n] = replaceServices(insertNAS(n, ip, secret), 1)]
    /\ afterNASChange /\ Rest

\* An empty secret leaves the stored one.
updateNASHandler == \E n \in NasIds, ip \in Addrs, secret \in {0} \union Secrets, on \in BOOLEAN :
    /\ Mutable /\ nas[n] # NoRouter /\ Unique(n, ip)
    /\ nas' = [nas EXCEPT ![n] = replaceServices(updateNAS(n, ip, secret, on), 1)]
    /\ nas' # nas
    /\ afterNASChange /\ Rest

deleteNAS(n) == [nas EXCEPT ![n] = NoRouter]
deleteNASHandler == \E n \in NasIds :
    /\ Mutable /\ nas[n] # NoRouter
    /\ nas' = deleteNAS(n)
    /\ afterNASChange /\ Rest

-----------------------------------------------------------------------------
(* The registry.                                                           *)

\* A snapshot that is used for as long as it is there.
FreshWhileLoaded == registry.loaded

\* The snapshot is good for CacheTTL.
Fresh == registry.loaded /\ registry.age < CacheTTL
SetFind(l, f) == finds' = [finds EXCEPT ![l] = f]
DbFault == ncount.faults < MaxDbFaults /\ ncount' = [ncount EXCEPT !.faults = @ + 1]

\* Answers from a fresh snapshot; otherwise remembers what the stale one had
\* and goes on to reload.
lookup(l) == \E ip \in Addrs :
    /\ finds[l].step \in {"idle", "answered"}
    /\ SetFind(l, IF Fresh
                  THEN Answer(ip, registry.byIP[ip])
                  ELSE [NoLookup EXCEPT !.step = "reload", !.ip = ip, !.old = registry.byIP[ip],
                                    !.had = registry.loaded])
    /\ UNCHANGED <<nas, registry, regens, file, dynamic, changed, ncount>>

\* The query; a database error answers from the stale snapshot, if any.
reloadQuery(l) ==
    /\ finds[l].step = "reload"
    /\ \/ /\ SetFind(l, [finds[l] EXCEPT !.step = "store", !.age = 0,
                                         !.read = [a \in Addrs |-> EnabledAt(a)]])
          /\ UNCHANGED ncount
       \/ /\ DbFault
          /\ SetFind(l, IF finds[l].had
                        THEN [Answer(finds[l].ip, finds[l].old) EXCEPT !.sick = TRUE]
                        ELSE NoLookup)
    /\ UNCHANGED <<nas, registry, regens, file, dynamic, changed>>

\* Stores what it read, whatever happened meanwhile.
reloadStore(l) ==
    /\ finds[l].step = "store"
    /\ registry' = [byIP |-> finds[l].read, loaded |-> TRUE, age |-> 0]
    /\ SetFind(l, [NoLookup EXCEPT !.step = "loaded", !.ip = finds[l].ip, !.age = finds[l].age])
    /\ UNCHANGED <<nas, regens, file, dynamic, changed, ncount>>

\* The second look takes the snapshot that is there now, however it got there.
reloadAnswer(l) ==
    /\ finds[l].step = "loaded"
    /\ SetFind(l, Answer(finds[l].ip, registry.byIP[finds[l].ip]))
    /\ UNCHANGED <<nas, registry, regens, file, dynamic, changed, ncount>>

-----------------------------------------------------------------------------
(* The clients file and the dynamic clients.                               *)

\* The secrets of the enabled routers.
generateClientsConf == [a \in Addrs |-> IF EnabledAt(a) = NoNas THEN 0 ELSE nas[EnabledAt(a)].secret]

\* Lists the table, then writes the file: two steps of one goroutine.
regenerateList == \E g \in regens :
    /\ g.step = "list"
    /\ regens' = (regens \ {g}) \union {[g EXCEPT !.step = "write", !.conf = generateClientsConf]}
    /\ UNCHANGED <<nas, registry, finds, file, dynamic, changed, ncount>>
regenerateWrite == \E g \in regens :
    /\ g.step = "write" /\ file' = g.conf /\ regens' = regens \ {g}
    /\ UNCHANGED <<nas, registry, finds, dynamic, changed, ncount>>

\* FreeRADIUS asks about an address and keeps the answer.
getEnabledNASByIP(a) == generateClientsConf[a]
dynamicClientHandler == \E a \in Addrs :
    /\ dynamic[a] = 0 /\ getEnabledNASByIP(a) # 0
    /\ dynamic' = [dynamic EXCEPT ![a] = getEnabledNASByIP(a)]
    /\ UNCHANGED <<nas, registry, finds, regens, file, changed, ncount>>

\* Time passes; a reload takes at most LoadLife from its read to its answer.
NasTick ==
    /\ \A l \in Lookups : finds[l].step \in {"store", "loaded"} => finds[l].age < LoadLife
    /\ registry' = [registry EXCEPT !.age = IF @ < CacheTTL THEN @ + 1 ELSE @]
    /\ finds' = [l \in Lookups |-> IF finds[l].step \in {"store", "loaded"}
                                   THEN [finds[l] EXCEPT !.age = @ + 1] ELSE finds[l]]
    /\ changed' = [a \in Addrs |-> IF changed[a] < Bound THEN changed[a] + 1 ELSE changed[a]]
    /\ UNCHANGED <<nas, regens, file, dynamic, ncount>>

NasNext ==
    \/ createNASHandler \/ updateNASHandler \/ deleteNASHandler
    \/ \E l \in Lookups : lookup(l) \/ reloadQuery(l) \/ reloadStore(l) \/ reloadAnswer(l)
    \/ regenerateList \/ regenerateWrite \/ dynamicClientHandler \/ NasTick

NasSpec == NasInit /\ [][NasNext]_nasVars

-----------------------------------------------------------------------------

\* A router whose registration was left alone for longer than the snapshot's
\* life and one slow reload is answered as the table has it, however reloads,
\* invalidations and edits interleave; only a database error may serve older
\* news (nas_store.go:240-307, AC-13a).
RegistryCurrent == \A l \in Lookups :
    finds[l].step = "answered" /\ ~finds[l].sick => finds[l].wrong < Bound

\* Fails: "invalidate forces the next known() call to reload"
\* (nas_store.go:301-302); a reload that read before the change stores after it.
InvalidateForces == \A a \in Addrs :
    registry.loaded /\ (\A l \in Lookups : finds[l].step \in {"idle", "answered"}) =>
        registry.byIP[a] = EnabledAt(a)

\* Fails: "the regenerated file on disk is already correct" (clients.go:111);
\* two regenerations may write in the opposite order of their reads.
FileCurrent == regens = {} => file = generateClientsConf
=============================================================================
