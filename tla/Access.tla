-------------------------------- MODULE Access --------------------------------
(***************************************************************************)
(* Managers, panel sessions and access tokens (backend/internal/auth).  A  *)
(* token carries what its manager was allowed when it was issued and is    *)
(* never looked up again until it expires; login and refresh read account, *)
(* role, overrides and allowlist in separate statements, and so does every *)
(* administrative request.  Permissions are reduced to the one this        *)
(* package is about, managers.edit, and the role that holds the wildcard.  *)
(***************************************************************************)
EXTENDS Integers, FiniteSets

CONSTANTS
    Managers, Panels,   \* accounts; ids of panel sessions
    Calls, Desks,       \* logins and refreshes, administrative requests under way together
    TokenLife,          \* accessTTL, in ticks
    CallLife,           \* the longest a request takes, in ticks
    FailLimit,          \* accountFailLimit
    Must2FA,            \* the roles with require_2fa
    MaxAdminCalls       \* bound: wrong passwords and edits (what undoes one is not counted)

ASSUME AccessAssumption == TokenLife \in Nat /\ CallLife \in Nat /\ FailLimit \in Nat \ {0}

VARIABLES
    mgrs,     \* [Managers -> [st, role, over, pwd, totp, near]]; totp: "off", "pending", "on"
    roles,    \* [Roles -> what role_permissions hold: "all", "edit", "view", "none"]
    panels,   \* [Panels -> [st, who, pwd, turned]]; st: "none", "live", "revoked"
    toks,     \* access tokens: [who, panel, adm, near, age]
    grants,   \* enrolment grants: managers
    calls,    \* [Slots -> [at, who, panel, pwd, role, base, keep, want, age]]
    fails, locked,   \* the limiter: [Managers -> 0..FailLimit], SUBSET Managers
    since,    \* [Managers -> [Facts -> ticks since the fact last held]]
    cut,      \* [Panels -> ticks since the session was revoked]
    adminCalls

accVars == <<mgrs, roles, panels, toks, grants, calls, fails, locked, since, cut, adminCalls>>

Roles == {"admin", "staff"}
Slots == Calls \union Desks
Facts == {"enabled", "granted", "allowed", "near"}
SLA == TokenLife + CallLife
NoMgr == [st |-> "gone", role |-> "staff", over |-> "none", pwd |-> 0, totp |-> "off", near |-> TRUE]
NoPanel == [st |-> "none", who |-> "none", pwd |-> 0, turned |-> FALSE]
NoCall == [at |-> "idle", who |-> "none", panel |-> "none", pwd |-> 0, role |-> "none", base |-> "none",
           keep |-> "none", want |-> "none", age |-> 0]

AccInit ==
    /\ mgrs = [m \in Managers |-> NoMgr]
    /\ roles = [r \in Roles |-> IF r = "admin" THEN "all" ELSE "view"]
    /\ panels = [p \in Panels |-> NoPanel]
    /\ toks = {} /\ grants = {}
    /\ calls = [q \in Slots |-> NoCall]
    /\ fails = [m \in Managers |-> 0] /\ locked = {}
    /\ since = [m \in Managers |-> [f \in Facts |-> SLA + 1]]
    /\ cut = [p \in Panels |-> 0]
    /\ adminCalls = 0

Known(m) == mgrs[m].st # "gone"
AdminCall == adminCalls < MaxAdminCalls /\ adminCalls' = adminCalls + 1
Done(q) == calls' = [calls EXCEPT ![q] = NoCall]
Goto(q, at) == calls' = [calls EXCEPT ![q].at = at]

-----------------------------------------------------------------------------
(* tokens and permissions                                                  *)

\* resolvePermissions, the role: an empty set of a legacy or emptied role is
\* filled from the role's name.
RoleBase(m) ==
    LET held == roles[mgrs[m].role]
    IN  IF held # "none" THEN held ELSE IF mgrs[m].role = "admin" THEN "all" ELSE "view"

\* resolvePermissions, the overrides on top, then Manager.Can("managers.edit").
CanEdit(base, over) == base = "all" \/ (over # "deny" /\ (base = "edit" \/ over = "grant"))

\* (the facts RevocationSLA is about)
Holds(m) == [f \in Facts |->
    CASE f = "enabled" -> mgrs[m].st = "on"
      [] f = "granted" -> Known(m) /\ (RoleBase(m) \in {"all", "edit"} \/ mgrs[m].over = "grant")
      [] f = "allowed" -> Known(m) /\ (mgrs[m].over # "deny" \/ RoleBase(m) = "all")
      [] f = "near" -> Known(m) /\ mgrs[m].near]

\* After a step: a fact that holds now held a moment ago.
NoteFacts == since' = [m \in Managers |-> [f \in Facts |-> IF Holds(m)[f]' THEN 0 ELSE since[m][f]]]

\* issueAccess
IssueAccess(m, p, adm, near) == toks' = toks \union {[who |-> m, panel |-> p, adm |-> adm, near |-> near, age |-> 0]}

\* parseAccess and managerFromRequest: a token that has not expired.
ManagerFromRequest(t) == t \in toks

\* ipAllowed
IpAllowed(t) == t.near

\* Require: presented from an address the token admits, for what the token
\* says its manager may do; no row is read.
Require(t, adm) == ManagerFromRequest(t) /\ IpAllowed(t) /\ (adm => t.adm)

\* createSession
CreateSession(p, m, pwd) ==
    /\ panels[p].st = "none"
    /\ panels' = [panels EXCEPT ![p] = [st |-> "live", who |-> m, pwd |-> pwd, turned |-> FALSE]]

\* revokeOtherSessions, the statement
RevokeSessionsOf(m, keep) ==
    panels' = [p \in Panels |-> IF panels[p].who = m /\ panels[p].st = "live" /\ p # keep
                                THEN [panels[p] EXCEPT !.st = "revoked"] ELSE panels[p]]

\* revokeSession, the statement
RevokeSession(p) == panels' = [panels EXCEPT ![p].st = IF @ = "live" THEN "revoked" ELSE @]

-----------------------------------------------------------------------------
(* login                                                                   *)

\* recordFailure, the account's counter and lock
RecordFailure(m) ==
    /\ fails' = [fails EXCEPT ![m] = IF @ < FailLimit THEN @ + 1 ELSE @]
    /\ locked' = IF fails[m] + 1 >= FailLimit THEN locked \union {m} ELSE locked

\* reset and unlockAccount
ResetLimiter(m) == fails' = [fails EXCEPT ![m] = 0] /\ locked' = locked \ {m}

\* twoFactorRequired
TwoFactorRequired(m) == mgrs[m].role \in Must2FA

\* loginHandler up to the session: a locked or disabled account, a foreign
\* address and a wrong second factor are refused; what is read here is used
\* to the end.
LoginHandler(q, m) ==
    /\ calls[q].at = "idle" /\ m \notin locked
    /\ mgrs[m].st = "on" /\ mgrs[m].near
    /\ mgrs[m].totp = "on" \/ ~TwoFactorRequired(m)
    /\ calls' = [calls EXCEPT ![q] = [NoCall EXCEPT !.at = "signed", !.who = m, !.pwd = mgrs[m].pwd]]
    /\ UNCHANGED <<mgrs, roles, panels, toks, grants, fails, locked, since, cut, adminCalls>>

\* loginHandler with a wrong password or a wrong code
\* (verifyManagerSecondFactor)
LoginFails(m) ==
    /\ AdminCall /\ m \notin locked /\ Known(m)
    /\ RecordFailure(m)
    /\ UNCHANGED <<mgrs, roles, panels, toks, grants, calls, since, cut>>

\* loginHandler of an account that must enrol first: the enrolment grant.
EnrolmentGrant(m) ==
    /\ m \notin locked /\ mgrs[m].st = "on" /\ mgrs[m].near
    /\ mgrs[m].totp # "on" /\ TwoFactorRequired(m) /\ m \notin grants
    /\ grants' = grants \union {m}
    /\ ResetLimiter(m)
    /\ UNCHANGED <<mgrs, roles, panels, toks, calls, since, cut, adminCalls>>

\* issueSession begins: the limiter is reset, a legacy hash is written anew
\* (of the password that was checked), the role's permissions are read.
BeginSession(q, upgrade) ==
    LET m == calls[q].who
    IN  /\ calls[q].at = "signed"
        /\ mgrs' = IF upgrade /\ Known(m) THEN [mgrs EXCEPT ![m].pwd = calls[q].pwd] ELSE mgrs
        /\ ResetLimiter(m)
        /\ calls' = [calls EXCEPT ![q].at = "issue", ![q].base = IF Known(m) THEN RoleBase(m) ELSE "none"]
        /\ UNCHANGED <<roles, panels, toks, grants, cut, adminCalls>>
        /\ NoteFacts

\* issueSession: overrides, allowlist, the session's row and the token.
IssueSession(q, p) ==
    LET m == calls[q].who
    IN  /\ calls[q].at = "issue" /\ Known(m)
        /\ CreateSession(p, m, calls[q].pwd)
        /\ IssueAccess(m, p, CanEdit(calls[q].base, mgrs[m].over), mgrs[m].near)
        /\ Done(q)
        /\ UNCHANGED <<mgrs, roles, grants, fails, locked, since, cut, adminCalls>>

\* issueSession fails: the manager was deleted meanwhile.
IssueFails(q) ==
    /\ calls[q].at \in {"issue", "token"} /\ ~Known(calls[q].who)
    /\ Done(q)
    /\ UNCHANGED <<mgrs, roles, panels, toks, grants, fails, locked, since, cut, adminCalls>>

-----------------------------------------------------------------------------
(* refresh                                                                 *)

\* rotateSession: whatever the hash is by now, if the session is not revoked.
RotateSession(p) == panels[p].st = "live" /\ panels' = [panels EXCEPT ![p].turned = TRUE]

\* refreshHandler: the session is read (getSessionForRefresh) and rotated.
RefreshHandler(q, p) ==
    /\ calls[q].at = "idle" /\ RotateSession(p)
    /\ calls' = [calls EXCEPT ![q] = [NoCall EXCEPT !.at = "lookup", !.who = panels[p].who, !.panel = p]]
    /\ UNCHANGED <<mgrs, roles, toks, grants, fails, locked, since, cut, adminCalls>>

\* refreshHandler with a secret that was rotated away ends the session.
RefreshReuse(p) ==
    /\ panels[p].st = "live" /\ panels[p].turned
    /\ RevokeSession(p)
    /\ UNCHANGED <<mgrs, roles, toks, grants, calls, fails, locked, since, cut, adminCalls>>

\* Mutant: the session that was rotated speaks for the account.
TrustSession(q) ==
    LET m == calls[q].who
    IN  /\ calls[q].at = "lookup"
        /\ IF Known(m) THEN calls' = [calls EXCEPT ![q].at = "token", ![q].base = RoleBase(m)] ELSE Done(q)
        /\ UNCHANGED <<mgrs, roles, panels, toks, grants, fails, locked, since, cut, adminCalls>>

\* refreshHandler: the account is read again (a disabled one is refused) and
\* the role's permissions are.
RefreshLookup(q) ==
    LET m == calls[q].who
    IN  /\ calls[q].at = "lookup"
        /\ IF mgrs[m].st = "on" THEN calls' = [calls EXCEPT ![q].at = "token", ![q].base = RoleBase(m)] ELSE Done(q)
        /\ UNCHANGED <<mgrs, roles, panels, toks, grants, fails, locked, since, cut, adminCalls>>

\* refreshHandler ends: overrides, allowlist, token.
RefreshIssue(q) ==
    LET m == calls[q].who
    IN  /\ calls[q].at = "token" /\ Known(m)
        /\ IssueAccess(m, calls[q].panel, CanEdit(calls[q].base, mgrs[m].over), mgrs[m].near)
        /\ Done(q)
        /\ UNCHANGED <<mgrs, roles, panels, grants, fails, locked, since, cut, adminCalls>>

\* logoutHandler
LogoutHandler(t) ==
    /\ Require(t, FALSE) /\ panels[t.panel].st = "live" /\ RevokeSession(t.panel)
    /\ UNCHANGED <<mgrs, roles, toks, grants, calls, fails, locked, since, cut, adminCalls>>

\* deletePanelSessionHandler: one's own, or anyone's with managers.edit.
DeletePanelSessionHandler(t, p) ==
    /\ Require(t, FALSE) /\ panels[p].st = "live" /\ (panels[p].who = t.who \/ t.adm)
    /\ RevokeSession(p)
    /\ UNCHANGED <<mgrs, roles, toks, grants, calls, fails, locked, since, cut, adminCalls>>

-----------------------------------------------------------------------------
(* managers                                                                *)

\* insertManager
InsertManager(m, r) == mgrs' = [mgrs EXCEPT ![m] = [NoMgr EXCEPT !.st = "on", !.role = r, !.pwd = @ + 1]]

\* CreateFirstAdmin: the setup wizard, while nobody exists.
CreateFirstAdmin(m) ==
    /\ \A n \in Managers : ~Known(n)
    /\ InsertManager(m, "admin")
    /\ UNCHANGED <<roles, panels, toks, grants, calls, fails, locked, cut, adminCalls>>
    /\ NoteFacts

\* createManagerHandler
CreateManagerHandler(t, m, r) ==
    /\ Require(t, TRUE) /\ ~Known(m)
    /\ InsertManager(m, r)
    /\ UNCHANGED <<roles, panels, toks, grants, calls, fails, locked, cut, adminCalls>>
    /\ NoteFacts

\* otherActiveManagerAdminExists: a denial does not count against anyone.
OtherActiveManagerAdminExists(m) ==
    \E n \in Managers \ {m} : mgrs[n].st = "on"
        /\ (mgrs[n].role = "admin" \/ roles[mgrs[n].role] \in {"all", "edit"} \/ mgrs[n].over = "grant")

\* updateManagerHandler begins: the row, the guards, and what is asked for.
UpdateManagerHandler(q, t, m, want) ==
    /\ Require(t, TRUE) /\ calls[q].at = "idle" /\ Known(m)
    /\ IF want = "enable" THEN UNCHANGED adminCalls ELSE AdminCall
    /\ want = "disable" => t.who # m /\ mgrs[m].st = "on" /\ OtherActiveManagerAdminExists(m)
    /\ want = "enable" => mgrs[m].st = "off"
    /\ calls' = [calls EXCEPT ![q] = [NoCall EXCEPT !.at = "rolescope", !.who = m, !.role = mgrs[m].role, !.want = want,
                                          !.keep = IF t.who = m THEN t.panel ELSE "none"]]
    /\ UNCHANGED <<mgrs, roles, panels, toks, grants, fails, locked, since, cut>>

\* updateManagerRoleScope: the role asked for, or the one that was read.
UpdateManagerRoleScope(q) ==
    LET c == calls[q]
    IN  /\ c.at = "rolescope"
        /\ IF ~Known(c.who) THEN Done(q) /\ UNCHANGED mgrs
           ELSE /\ mgrs' = [mgrs EXCEPT ![c.who].role = IF c.want \in Roles THEN c.want ELSE c.role]
                /\ IF c.want \in Roles THEN Done(q) ELSE Goto(q, IF c.want = "password" THEN "hash" ELSE "flag")
        /\ UNCHANGED <<roles, panels, toks, grants, fails, locked, cut, adminCalls>>
        /\ NoteFacts

\* setManagerDisabled
SetManagerDisabled(q) ==
    LET c == calls[q]
    IN  /\ c.at = "flag"
        /\ mgrs' = IF Known(c.who) THEN [mgrs EXCEPT ![c.who].st = IF c.want = "disable" THEN "off" ELSE "on"] ELSE mgrs
        /\ IF Known(c.who) /\ c.want = "disable"
           THEN calls' = [calls EXCEPT ![q].at = "revoke", ![q].keep = "none"] ELSE Done(q)
        /\ UNCHANGED <<roles, panels, toks, grants, fails, locked, cut, adminCalls>>
        /\ NoteFacts

\* updatePasswordHash
UpdatePasswordHash(q) ==
    LET c == calls[q]
    IN  /\ c.at = "hash"
        /\ mgrs' = IF Known(c.who) THEN [mgrs EXCEPT ![c.who].pwd = @ + 1] ELSE mgrs
        /\ Goto(q, "revoke")
        /\ UNCHANGED <<roles, panels, toks, grants, fails, locked, cut, adminCalls>>
        /\ NoteFacts

\* revokeOtherSessions, after a disable, a password or a 2FA reset
RevokeOtherSessions(q) ==
    /\ calls[q].at = "revoke"
    /\ RevokeSessionsOf(calls[q].who, calls[q].keep) /\ Done(q)
    /\ UNCHANGED <<mgrs, roles, toks, grants, fails, locked, since, cut, adminCalls>>

\* deleteManagerHandler: never oneself, never the last administrator.
DeleteManagerHandler(q, t, m) ==
    /\ AdminCall /\ Require(t, TRUE) /\ calls[q].at = "idle"
    /\ Known(m) /\ t.who # m /\ OtherActiveManagerAdminExists(m)
    /\ calls' = [calls EXCEPT ![q] = [NoCall EXCEPT !.at = "delete", !.who = m]]
    /\ UNCHANGED <<mgrs, roles, panels, toks, grants, fails, locked, since, cut>>

\* deleteManager: the sessions go with the row; one with ledger history stays.
DeleteManager(q, history) ==
    LET m == calls[q].who
    IN  /\ calls[q].at = "delete"
        /\ IF history \/ ~Known(m) THEN UNCHANGED <<mgrs, panels>>
           ELSE /\ mgrs' = [mgrs EXCEPT ![m] = [NoMgr EXCEPT !.pwd = mgrs[m].pwd]]
                /\ panels' = [p \in Panels |-> IF panels[p].who = m THEN [panels[p] EXCEPT !.st = "revoked"] ELSE panels[p]]
        /\ Done(q)
        /\ UNCHANGED <<roles, toks, grants, fails, locked, cut, adminCalls>>
        /\ NoteFacts

\* unlockManagerHandler
UnlockManagerHandler(t, m) ==
    /\ Require(t, TRUE) /\ m \in locked /\ ResetLimiter(m)
    /\ UNCHANGED <<mgrs, roles, panels, toks, grants, calls, since, cut, adminCalls>>

\* ResetPasswordByUsername, the command line: no session is revoked.
ResetPasswordByUsername(m) ==
    /\ AdminCall /\ Known(m)
    /\ mgrs' = [mgrs EXCEPT ![m].pwd = @ + 1]
    /\ UNCHANGED <<roles, panels, toks, grants, calls, fails, locked, cut>>
    /\ NoteFacts

-----------------------------------------------------------------------------
(* roles, overrides, allowlists                                            *)

\* escalationCheck: what is newly granted, the actor's token must hold.
EscalationCheck(t, added) == added = {} \/ t.adm

\* invalidPermissions: the wildcard is not in the catalogue.
InCatalogue(held) == held \in {"edit", "view", "none"}

\* diffAdded
DiffAdded(prev, next) == {next} \ {prev, "view", "none"}

\* updateRole
UpdateRole(r, held) == roles' = [roles EXCEPT ![r] = held]

\* updateRoleHandler
UpdateRoleHandler(t, r, held) ==
    /\ AdminCall /\ Require(t, TRUE) /\ InCatalogue(held) /\ held # roles[r]
    /\ EscalationCheck(t, DiffAdded(roles[r], held))
    /\ UpdateRole(r, held)
    /\ UNCHANGED <<mgrs, panels, toks, grants, calls, fails, locked, cut>>
    /\ NoteFacts

\* replaceOverrides
ReplaceOverrides(m, over) == mgrs' = [mgrs EXCEPT ![m].over = over]

\* putManagerOverridesHandler
PutManagerOverridesHandler(t, m, over) ==
    /\ AdminCall /\ Require(t, TRUE) /\ Known(m) /\ over # mgrs[m].over
    /\ EscalationCheck(t, {over} \ {"deny", "none"})
    /\ ReplaceOverrides(m, over)
    /\ UNCHANGED <<roles, panels, toks, grants, calls, fails, locked, cut>>
    /\ NoteFacts

\* replaceAllowlist, seen from one address
ReplaceAllowlist(m) == mgrs' = [mgrs EXCEPT ![m].near = ~@]

\* putManagerAllowlistHandler
PutManagerAllowlistHandler(t, m) ==
    /\ AdminCall /\ Require(t, TRUE) /\ Known(m)
    /\ ReplaceAllowlist(m)
    /\ UNCHANGED <<roles, panels, toks, grants, calls, fails, locked, cut>>
    /\ NoteFacts

-----------------------------------------------------------------------------
(* the second factor                                                       *)

\* enrollOrAccess: a token or an enrolment grant.
EnrollOrAccess(m) == m \in grants \/ \E t \in toks : t.who = m /\ t.near

\* storePendingSecret
StorePendingSecret(m) == mgrs' = [mgrs EXCEPT ![m].totp = "pending"]

\* enrollTOTPHandler
EnrollTOTPHandler(m) ==
    /\ AdminCall /\ EnrollOrAccess(m) /\ Known(m) /\ mgrs[m].totp = "off"
    /\ StorePendingSecret(m)
    /\ UNCHANGED <<roles, panels, toks, grants, calls, fails, locked, cut>>
    /\ NoteFacts

\* verifyTOTPHandler: the code is checked against the secret pending now.
VerifyTOTPHandler(q, m, p) ==
    /\ calls[q].at = "idle" /\ EnrollOrAccess(m) /\ mgrs[m].totp = "pending"
    /\ p = "none" \/ \E t \in toks : t.who = m /\ t.near /\ t.panel = p
    /\ calls' = [calls EXCEPT ![q] = [NoCall EXCEPT !.at = "activate", !.who = m, !.keep = p]]
    /\ UNCHANGED <<mgrs, roles, panels, toks, grants, fails, locked, since, cut, adminCalls>>

\* activatePendingSecret: whatever is pending by then, and the other sessions.
ActivatePendingSecret(q) ==
    LET m == calls[q].who
    IN  /\ calls[q].at = "activate"
        /\ IF mgrs[m].totp = "pending"
           THEN mgrs' = [mgrs EXCEPT ![m].totp = "on"] /\ RevokeSessionsOf(m, calls[q].keep)
           ELSE UNCHANGED <<mgrs, panels>>
        /\ Done(q)
        /\ UNCHANGED <<roles, toks, grants, fails, locked, cut, adminCalls>>
        /\ NoteFacts

\* disableTOTP, then the sessions (keep: of the caller)
DisableTOTP(q, m, keep) ==
    /\ mgrs' = [mgrs EXCEPT ![m].totp = "off"]
    /\ calls' = [calls EXCEPT ![q] = [NoCall EXCEPT !.at = "revoke", !.who = m, !.keep = keep]]

\* disableTOTPHandler: with password and code, by the manager.
DisableTOTPHandler(q, t) ==
    /\ calls[q].at = "idle" /\ Require(t, FALSE) /\ mgrs[t.who].totp = "on"
    /\ DisableTOTP(q, t.who, t.panel)
    /\ UNCHANGED <<roles, panels, toks, grants, fails, locked, cut, adminCalls>>
    /\ NoteFacts

\* resetManagerTOTPHandler: by an administrator.
ResetManagerTOTPHandler(q, t, m) ==
    /\ AdminCall /\ calls[q].at = "idle" /\ Require(t, TRUE) /\ Known(m)
    /\ DisableTOTP(q, m, "none")
    /\ UNCHANGED <<roles, panels, toks, grants, fails, locked, cut>>
    /\ NoteFacts

-----------------------------------------------------------------------------
(* time                                                                    *)

Later(n) == IF n <= SLA THEN n + 1 ELSE n

\* A tick: every call is answered within CallLife; a token expires after
\* TokenLife and an enrolment grant or a lock at some tick.
AccTick ==
    /\ \A q \in Slots : calls[q].at # "idle" => calls[q].age < CallLife
    /\ calls' = [q \in Slots |-> IF calls[q].at = "idle" THEN NoCall ELSE [calls[q] EXCEPT !.age = @ + 1]]
    /\ toks' = {[t EXCEPT !.age = @ + 1] : t \in {u \in toks : u.age < TokenLife}}
    /\ since' = [m \in Managers |-> [f \in Facts |-> IF Holds(m)[f] THEN 0 ELSE Later(since[m][f])]]
    /\ cut' = [p \in Panels |-> IF panels[p].st = "revoked" THEN Later(cut[p]) ELSE 0]
    /\ \E gone \in {{}, grants} : grants' = grants \ gone
    /\ \/ UNCHANGED <<fails, locked>>
       \/ fails' = [m \in Managers |-> 0] /\ locked' = {}
    /\ UNCHANGED <<mgrs, roles, panels, adminCalls>>

Wants == Roles \union {"disable", "enable", "password"}

AccStep ==
    \/ \E m \in Managers :
          LoginFails(m) \/ CreateFirstAdmin(m) \/ ResetPasswordByUsername(m) \/ EnrollTOTPHandler(m) \/ EnrolmentGrant(m)
    \/ \E p \in Panels : RefreshReuse(p)
    \/ \E q \in Calls :
          \/ \E m \in Managers : LoginHandler(q, m)
          \/ \E up \in BOOLEAN : BeginSession(q, up)
          \/ \E p \in Panels : IssueSession(q, p) \/ RefreshHandler(q, p)
          \/ IssueFails(q) \/ RefreshLookup(q) \/ RefreshIssue(q)
    \/ \E t \in toks : LogoutHandler(t)
    \/ \E t \in toks, p \in Panels : DeletePanelSessionHandler(t, p)
    \/ \E t \in toks, m \in Managers :
          \/ \E r \in Roles : CreateManagerHandler(t, m, r)
          \/ \E o \in {"none", "grant", "deny"} : PutManagerOverridesHandler(t, m, o)
          \/ PutManagerAllowlistHandler(t, m) \/ UnlockManagerHandler(t, m)
    \/ \E t \in toks, r \in Roles, h \in {"edit", "view", "none"} : UpdateRoleHandler(t, r, h)
    \/ \E q \in Desks :
          \/ \E m \in Managers, p \in Panels \union {"none"} : VerifyTOTPHandler(q, m, p)
          \/ \E h \in BOOLEAN : DeleteManager(q, h)
          \/ \E t \in toks : DisableTOTPHandler(q, t)
          \/ \E t \in toks, m \in Managers :
                \/ \E w \in Wants : UpdateManagerHandler(q, t, m, w)
                \/ DeleteManagerHandler(q, t, m) \/ ResetManagerTOTPHandler(q, t, m)
          \/ UpdateManagerRoleScope(q) \/ SetManagerDisabled(q) \/ UpdatePasswordHash(q) \/ RevokeOtherSessions(q)
          \/ ActivatePendingSecret(q)

AccNext == AccTick \/ AccStep

AccSpec == AccInit /\ [][AccNext]_accVars

-----------------------------------------------------------------------------
(* properties                                                              *)

\* What is taken from a manager is gone from every token within one token's
\* life and the time of one request (tokens.go: "revocation SLA <= one access
\* lifetime"): a disabled or deleted account has no token, a permission that
\* neither role nor override grants, or that an override denies, is in none,
\* nor is an address the allowlist no longer admits, and a revoked session
\* has no token, however login, refresh and administration interleave.
RevocationSLA ==
    \A t \in toks :
        /\ since[t.who]["enabled"] <= SLA
        /\ t.adm => since[t.who]["granted"] <= SLA /\ since[t.who]["allowed"] <= SLA
        /\ t.near => since[t.who]["near"] <= SLA
        /\ cut[t.panel] <= SLA

\* "the guard must never leave zero": somebody can administer managers once
\* the first administrator exists.  It fails: two administrators disable each
\* other at the same time, the last one changes his own role, the role is
\* edited or an override denies it.
SomeoneAdministers ==
    (\E m \in Managers : mgrs[m].pwd > 0) => \E m \in Managers : mgrs[m].st = "on" /\ CanEdit(RoleBase(m), mgrs[m].over)

\* "a reset actually logs them out": when a password reset is over, every live
\* session was opened with the password of now.  It fails: a login that had
\* checked the old password opens its session after the others were revoked.
ResetLogsOut ==
    (\A q \in Slots : calls[q].at = "idle") =>
        \A p \in Panels : panels[p].st = "live" => panels[p].pwd = mgrs[panels[p].who].pwd
==============================================================================
