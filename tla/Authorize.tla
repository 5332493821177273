------------------------------ MODULE Authorize ------------------------------
(***************************************************************************)
(* The Access-Request path of hikrad-api (radius/policy.go) for one        *)
(* account, with the read-model cache in front of it (radius/authview.go)  *)
(* and the handlers of subscribers and billing that change the account and *)
(* drop the cached view afterwards.  A request takes several round trips,  *)
(* so requests, edits and invalidations interleave.                        *)
(*                                                                         *)
(* hist holds every version the account went through, the last one being   *)
(* the row; a view is a version number and the quota bit it was given.     *)
(***************************************************************************)
EXTENDS Limits, Sequences, TLC

CONSTANTS
    Reqs,       \* requests that can be under way together
    Input,      \* by request: [nas, service, station, mac, chap, pwd]
    Instances,  \* enabled services of the NAS: [id, service, name, pool]
    Accounts,   \* what an edit may write: the fields of a view it can change
    ViewTTL,    \* viewCacheTTL, in ticks
    ReqLife,    \* the FreeRADIUS exec timeout, in ticks
    MaxEdits, MaxMisses   \* bounds: versions, failed Redis calls

ASSUME AuthAssumption == ViewTTL \in Nat /\ ReqLife \in Nat

VARIABLES
    hist,     \* versions: [acct, mac, gone]; gone: ticks since it was replaced
    qkey,     \* quota:exhausted:<id>
    cache,    \* auth:view: a set with at most one [ver, exh, ttl]
    edit,     \* a handler behind its commit: "none", "inv" or "inv+key"
    reqs,     \* [at, ver, exh, age]
    tainted,  \* an invalidation failed, or a load overlapped an edit
    misses

authVars == <<hist, qkey, cache, edit, reqs, tainted, misses>>

Stale == ViewTTL + 2 * ReqLife
Idle == [at |-> "idle", ver |-> 0, exh |-> FALSE, age |-> 0]
Row == hist[Len(hist)]
RowVer == Len(hist)

AuthInit ==
    /\ \E a \in Accounts, m \in {"", "BB2"} :
         hist = <<[acct |-> a, mac |-> m, gone |-> 0]>>
    /\ qkey = FALSE /\ cache = {} /\ edit = "none" /\ tainted = FALSE
    /\ reqs = [r \in Reqs |-> Idle]
    /\ misses = 0

Miss == misses < MaxMisses /\ misses' = misses + 1

-----------------------------------------------------------------------------
(* the checks of decide                                                    *)

\* normalizeMAC: separators and case do not count.
NormalizeMAC(m) == IF m = "aa-1" THEN "AA1" ELSE m

\* mikrotikStationName: a bare MAC is not a server name.
StationName(station) == IF station = "mac" THEN "" ELSE station

\* ResolveService: a name decides, then a sole instance of the kind.
ResolveService(service, station, candidates) ==
    LET kind   == IF service = "hotspot" THEN "hotspot" ELSE "pppoe"
        ofKind == {c \in candidates : c.service = kind}
        named  == {c \in ofKind : StationName(station) # "" /\ c.name = StationName(station)} IN
    IF named # {} THEN named ELSE IF Cardinality(ofKind) = 1 THEN ofKind ELSE {}

\* resolveInstance: at most one.
ResolveInstance(in) == ResolveService(in.service, in.station, Instances)

\* serviceTypeAllows
ServiceTypeAllows(stype, hotspot) ==
    CASE stype = "dual" -> TRUE [] stype = "hotspot" -> hotspot [] OTHER -> ~hotspot

\* scopeAllows: no scope at all allows any NAS.
ScopeAllows(scopes, nas, id) ==
    scopes = {} \/ \E s \in scopes : s.nas = nas /\ s.service \in {"", id}

\* verifyCHAP: the digest is a function of the password.
VerifyCHAP(pwd, response) == response = pwd

\* credentialsOK
CredentialsOK(pwd, in) == IF in.chap # "" THEN VerifyCHAP(pwd, in.chap) ELSE in.pwd = pwd

\* sessionLimitReject: the session that asks is not counted yet; 0 is no limit.
SessionLimitReject(v, hotspot, online) ==
    IF hotspot /\ v.stype # "hotspot" THEN online >= 1 ELSE v.limit > 0 /\ online >= v.limit

\* macLock, the answer
MacMismatch(v, mac) ==
    v.lock # "off" /\ v.mac # "" /\ NormalizeMAC(mac) # "" /\ NormalizeMAC(mac) # v.mac

\* macLock, the side effect
MacToLearn(v, mac) == v.lock = "learn" /\ v.mac = "" /\ NormalizeMAC(mac) # ""

\* The view of a version (GetAuthView).
ViewOf(ver, exh) ==
    hist[ver].acct @@ [mac |-> hist[ver].mac, exhausted |-> exh]

\* decide, from the service-type matrix on, for an account that was found;
\* online is the live count of its sessions of the kind, now the minute.
DecideView(v, in, online, now) ==
    LET inst    == CHOOSE i \in ResolveInstance(in) : TRUE
        hotspot == inst.service = "hotspot"
        oc      == EvaluateLimits(v, hotspot)
        wRate   == IF oc.mode = "normal" THEN SelectSpeedWindow(v.windows, 0, now) ELSE "" IN
    CASE ~ServiceTypeAllows(v.stype, hotspot)       -> "service_not_allowed"
      [] ~ScopeAllows(v.scopes, in.nas, inst.id)    -> "nas_not_allowed"
      [] ~CredentialsOK(v.pwd, in)                  -> "bad_password"
      [] v.status = "disabled"                      -> "disabled"
      [] oc.reject                                  -> ExhaustedKind(v, hotspot)
      [] SessionLimitReject(v, hotspot, online)           -> "session_limit"
      [] ~hotspot /\ MacMismatch(v, in.mac)         -> "mac_mismatch"
      [] ReplyIntents(v, inst.pool, hotspot, oc, wRate).do = "update" -> "ok"

-----------------------------------------------------------------------------
(* a request                                                               *)

\* authorizeHandler and the checks that need no account; a NAS that is not
\* registered and an instance that is not clear are refused here.
Arrive(r) ==
    /\ reqs[r].at = "idle" /\ Input[r].nas # "unknown" /\ ResolveInstance(Input[r]) # {}
    /\ reqs' = [reqs EXCEPT ![r].at = "get"]
    /\ UNCHANGED <<hist, qkey, cache, edit, tainted, misses>>

\* overlayQuota only ever adds the bit.
OverlayQuota(exh) == exh \/ qkey

\* resolveView, the cache; an error of Redis is a miss.
ResolveView(r) ==
    /\ reqs[r].at = "get"
    /\ \/ \E c \in cache :
            reqs' = [reqs EXCEPT ![r].at = "decide", ![r].ver = c.ver, ![r].exh = OverlayQuota(c.exh)]
       \/ cache = {} /\ reqs' = [reqs EXCEPT ![r].at = "load"]
    /\ UNCHANGED <<hist, qkey, cache, edit, tainted, misses>>

\* GetAuthView; a deleted account is unknown_user.
LoadView(r) ==
    /\ reqs[r].at = "load"
    /\ reqs' = IF Row.acct.status = "deleted" THEN [reqs EXCEPT ![r] = Idle]
               ELSE [reqs EXCEPT ![r].at = "fill", ![r].ver = RowVer, ![r].exh = qkey]
    /\ UNCHANGED <<hist, qkey, cache, edit, tainted, misses>>

\* Mutant: the cached view has no expiry.
CacheForever(r) == cache' = {[ver |-> reqs[r].ver, exh |-> reqs[r].exh, ttl |-> Stale + 1]}

\* cacheView: the view that was loaded, however long ago.
CacheView(r) == cache' = {[ver |-> reqs[r].ver, exh |-> reqs[r].exh, ttl |-> ViewTTL]}

\* resolveView, behind the load
FillView(r) ==
    /\ reqs[r].at = "fill"
    /\ \/ CacheView(r) /\ tainted' = (reqs[r].ver # RowVer) /\ UNCHANGED misses
       \/ Miss /\ UNCHANGED <<cache, tainted>>
    /\ reqs' = [reqs EXCEPT ![r].at = "decide", ![r].exh = OverlayQuota(@)]
    /\ UNCHANGED <<hist, qkey, edit>>

\* A new version of the row.
Write(acct, mac) ==
    hist' = Append(hist, [acct |-> acct, mac |-> mac, gone |-> 0])

\* Mutant: the view that has just changed stays cached.
LearnMacOnly(r) ==
    IF Row.acct.lock = "learn" /\ Row.mac = "" /\ Row.acct.status # "deleted"
    THEN /\ RowVer < MaxEdits
         /\ Write(Row.acct, NormalizeMAC(Input[r].mac))
         /\ reqs' = [reqs EXCEPT ![r] = Idle]
    ELSE reqs' = [reqs EXCEPT ![r] = Idle] /\ UNCHANGED hist

\* LearnMac: the row takes the first MAC that arrives; the view is dropped in
\* a step of its own.
LearnMac(r) ==
    IF Row.acct.lock = "learn" /\ Row.mac = "" /\ Row.acct.status # "deleted"
    THEN /\ RowVer < MaxEdits
         /\ Write(Row.acct, NormalizeMAC(Input[r].mac))
         /\ reqs' = [reqs EXCEPT ![r].at = "learned"]
    ELSE reqs' = [reqs EXCEPT ![r] = Idle] /\ UNCHANGED hist

\* decide, from the view to the answer
Decide(r) ==
    LET v      == ViewOf(reqs[r].ver, reqs[r].exh)
        learns == Input[r].service # "hotspot" /\ MacToLearn(v, Input[r].mac) IN
    /\ reqs[r].at = "decide"
    /\ \E online \in 0..1, now \in 0..1 :
         IF DecideView(v, Input[r], online, now) = "ok" /\ learns THEN LearnMac(r)
         ELSE reqs' = [reqs EXCEPT ![r] = Idle] /\ UNCHANGED hist
    /\ UNCHANGED <<qkey, cache, edit, tainted, misses>>

\* InvalidatePolicy: the index and the view go together; an error leaves both.
InvalidatePolicy ==
    \/ cache' = {} /\ tainted' = FALSE /\ UNCHANGED misses
    \/ Miss /\ tainted' = TRUE /\ UNCHANGED cache

LearnedInvalidate(r) ==
    /\ reqs[r].at = "learned"
    /\ InvalidatePolicy
    /\ reqs' = [reqs EXCEPT ![r] = Idle]
    /\ UNCHANGED <<hist, qkey, edit>>

-----------------------------------------------------------------------------
(* the handlers that change the account: commit, then invalidate           *)

Edits(acct, mac, then) ==
    /\ edit = "none" /\ RowVer < MaxEdits /\ Row.acct.status # "deleted"
    /\ Write(acct, mac)
    /\ edit' = then
    /\ UNCHANGED <<qkey, cache, reqs, tainted, misses>>

\* updateHandler, disable and a new password (SetPassword)
Update(a) == a # Row.acct /\ Edits(a, Row.mac, "inv")

\* resetMacHandler
ResetMac == Row.mac # "" /\ Edits(Row.acct, "", "inv")

\* deleteByID
Delete == Edits([Row.acct EXCEPT !.status = "deleted"], Row.mac, "inv")

\* renew: the commit; the view goes before the quota key.
RenewAuth == (Row.acct.expired \/ qkey) /\ Edits([Row.acct EXCEPT !.expired = FALSE], Row.mac, "inv+key")

\* The handler's invalidation.
EditInvalidate ==
    /\ edit \in {"inv", "inv+key"}
    /\ InvalidatePolicy
    /\ edit' = IF edit = "inv+key" THEN "key" ELSE "none"
    /\ UNCHANGED <<hist, qkey, reqs>>

\* resetQuota, behind the invalidation
EditQuotaKey ==
    /\ edit = "key" /\ edit' = "none" /\ qkey' = FALSE
    /\ UNCHANGED <<hist, cache, reqs, tainted, misses>>

-----------------------------------------------------------------------------
(* the rest of the system                                                  *)

\* applyQuota sets the key.
QuotaRunsOut ==
    /\ ~qkey /\ qkey' = TRUE
    /\ UNCHANGED <<hist, cache, edit, reqs, tainted, misses>>

\* Time: no request outlives its timeout, a view its TTL.
AuthTick ==
    /\ \A r \in Reqs : reqs[r].at # "idle" => reqs[r].age < ReqLife
    /\ reqs' = [r \in Reqs |-> IF reqs[r].at = "idle" THEN Idle ELSE [reqs[r] EXCEPT !.age = @ + 1]]
    /\ hist' = [v \in 1..RowVer |-> IF v = RowVer \/ hist[v].gone > Stale THEN hist[v]
                                    ELSE [hist[v] EXCEPT !.gone = @ + 1]]
    /\ cache' = {[c EXCEPT !.ttl = @ - 1] : c \in {d \in cache : d.ttl > 0}}
    /\ tainted' = (tainted /\ cache' # {})
    /\ UNCHANGED <<qkey, edit, misses>>

AuthNext ==
    \/ \E r \in Reqs :
         \/ Arrive(r) \/ ResolveView(r) \/ LoadView(r) \/ FillView(r) \/ Decide(r) \/ LearnedInvalidate(r)
    \/ \E a \in Accounts : Update(a)
    \/ ResetMac \/ Delete \/ RenewAuth \/ EditInvalidate \/ EditQuotaKey
    \/ QuotaRunsOut \/ AuthTick

AuthSpec == AuthInit /\ [][AuthNext]_authVars

-----------------------------------------------------------------------------
\* "a best-effort miss self-heals at the TTL" (authview.go:383): whatever is
\* lost, delayed or interleaved, a login is accepted on what the account was
\* at most a cache life and two request lives ago.
SelfHeals ==
    \A r \in Reqs :
        reqs[r].at = "decide" /\ DecideView(ViewOf(reqs[r].ver, reqs[r].exh), Input[r], 0, 0) = "ok"
            => hist[reqs[r].ver].gone <= Stale

\* Every writer drops the view: a cached view that is not the row's is seen
\* only while a writer is between its commit and its invalidation, after an
\* invalidation failed, or when a load overlapped the change.
CacheCoherent ==
    \A c \in cache : c.ver # RowVer =>
        tainted \/ edit \in {"inv", "inv+key"} \/ \E r \in Reqs : reqs[r].at = "learned"

=============================================================================
