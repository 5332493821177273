------------------------------- MODULE Profiles -------------------------------
(***************************************************************************)
(* Service plans (backend/internal/profiles) and the authorization views   *)
(* derived from them.  An edit commits the plan first and then deletes the *)
(* cached view of every subscriber on it, one by one, on a list it reads   *)
(* in between; bulk jobs do the same row by row after the request ended.   *)
(* A plan may name another plan its subscribers are switched to.           *)
(***************************************************************************)
EXTENDS Integers, FiniteSets

CONSTANTS
    Plans, Members,   \* plan ids, subscribers
    Editors,          \* edits that can be under way; one of them is BulkEditor
    BulkEditor,
    MaxVer, MaxEdit   \* bounds: versions of a plan, requests

ASSUME ProfilesAssumption == BulkEditor \in Editors /\ MaxVer \in Nat

VARIABLES
    plans,    \* [Plans -> [st, ver, to, scope]]; st: "none", "live", "archived"
    on,       \* [Members -> Plans \union {NoPlan}]
    cached,   \* [Members -> [ver, lazy]]; ver = 0: no cached view
    editors,  \* [Editors -> [at, plan, ids]]
    pbulk,    \* the bulk job: [act, todo]
    edits

planVars == <<plans, on, cached, editors, pbulk, edits>>

NoPlan == "none"
NoView == [ver |-> 0, lazy |-> FALSE]
NoEdit == [at |-> "idle", plan |-> NoPlan, ids |-> {}]
NoJob == [act |-> "none", todo |-> {}]

PlansInit ==
    /\ plans = [p \in Plans |-> [st |-> "none", ver |-> 0, to |-> NoPlan, scope |-> 0]]
    /\ on = [s \in Members |-> NoPlan]
    /\ cached = [s \in Members |-> NoView]
    /\ editors = [e \in Editors |-> NoEdit]
    /\ pbulk = NoJob /\ edits = 0

Exists(p) == plans[p].st # "none"
AskEdit == edits < MaxEdit /\ edits' = edits + 1

\* subscribersOnProfile
SubscribersOnProfile(p) == {s \in Members : on[s] = p}

\* Views nobody will delete any more: they stay until their time is up.
Lazy(ids) == [s \in Members |-> IF s \in ids /\ cached[s].ver > 0 THEN [cached[s] EXCEPT !.lazy = TRUE] ELSE cached[s]]

-----------------------------------------------------------------------------
(* one plan                                                                *)

\* insertProfile: the row and its scopes in one transaction.
InsertProfile(p, to, scope) ==
    /\ ~Exists(p) /\ plans[p].ver = 0
    /\ plans' = [plans EXCEPT ![p] = [st |-> "live", ver |-> 1, to |-> to, scope |-> scope]]
    /\ UNCHANGED <<on, cached, editors, pbulk>>

\* validateLimit: a switch_plan needs a target; nobody looks it up.
ValidateLimit(act, to) == act = "switch_plan" => to # NoPlan

\* validate: what the exhaustion of a limit leads to.
Validate(act, to) == act \in {"block", "switch_plan"} /\ ValidateLimit(act, to) /\ (act = "block" => to = NoPlan)

Targets == {to \in Plans \union {NoPlan} : \E act \in {"block", "switch_plan"} : Validate(act, to)}

\* createHandler
CreatePlanHandler(p) == \E to \in Targets : AskEdit /\ InsertProfile(p, to, 0)

\* duplicateHandler, with the speed windows
DuplicateHandler(src, p) == Exists(src) /\ AskEdit /\ InsertProfile(p, plans[src].to, plans[src].scope)

\* updateProfile, ReplaceScopes and the commit: what a view of it would say changes.
WritePlan(p, to, scope) ==
    /\ plans[p].ver < MaxVer
    /\ plans' = [plans EXCEPT ![p].ver = @ + 1, ![p].to = to, ![p].scope = scope]

\* invalidateProfileViews begins.
ApplyNow(e, p) ==
    /\ editors[e].at = "idle"
    /\ editors' = [editors EXCEPT ![e] = [at |-> "load", plan |-> p, ids |-> {}]]

\* nasScopeChanged
NasScopeChanged(p, scope) == plans[p].scope # scope

\* updateHandler: next_renewal leaves the views alone, unless the scope moved.
UpdatePlanHandler(e, p, now) ==
    \E to \in Targets, scope \in {0, 1} :
        /\ Exists(p) /\ WritePlan(p, to, scope) /\ AskEdit
        /\ IF now \/ NasScopeChanged(p, scope) THEN ApplyNow(e, p) /\ UNCHANGED cached
           ELSE cached' = Lazy(SubscribersOnProfile(p)) /\ UNCHANGED editors
        /\ UNCHANGED <<on, pbulk>>

\* createSpeedWindowHandler and deleteSpeedWindowHandler: part of the view.
SpeedWindowHandler(e, p) ==
    /\ Exists(p) /\ WritePlan(p, plans[p].to, plans[p].scope) /\ ApplyNow(e, p) /\ AskEdit
    /\ UNCHANGED <<on, cached, pbulk>>

\* archiveHandler: nothing a view holds.
ArchiveHandler(p) ==
    /\ plans[p].st = "live" /\ AskEdit
    /\ plans' = [plans EXCEPT ![p].st = "archived"]
    /\ UNCHANGED <<on, cached, editors, pbulk>>

\* profileInUse: subscribers, and plans that switch to this one.
ProfileInUse(p) == SubscribersOnProfile(p) # {} \/ \E q \in Plans : Exists(q) /\ plans[q].to = p

\* deleteHandler, up to the check.
DeletePlanHandler(e, p) ==
    /\ Exists(p) /\ ~ProfileInUse(p) /\ AskEdit /\ editors[e].at = "idle"
    /\ editors' = [editors EXCEPT ![e] = [at |-> "delete", plan |-> p, ids |-> {}]]
    /\ UNCHANGED <<plans, on, cached, pbulk>>

\* deleteProfile: the foreign key stops it for subscribers, not for targets.
DeleteProfile(e) ==
    LET p == editors[e].plan IN
    /\ editors[e].at = "delete"
    /\ editors' = [editors EXCEPT ![e] = NoEdit]
    /\ plans' = IF SubscribersOnProfile(p) = {} THEN [plans EXCEPT ![p].st = "none"] ELSE plans
    /\ UNCHANGED <<on, cached, pbulk, edits>>

-----------------------------------------------------------------------------
(* the views that follow                                                   *)

\* invalidateProfileViews reads the list of subscribers, or logs and gives up.
InvalidateProfileViews(e) ==
    LET p == editors[e].plan
        ids == SubscribersOnProfile(p) IN
    /\ editors[e].at = "load"
    /\ \/ editors' = [editors EXCEPT ![e].at = "drop", ![e].ids = ids] /\ UNCHANGED cached
       \/ editors' = [editors EXCEPT ![e] = NoEdit] /\ cached' = Lazy(ids)
    /\ UNCHANGED <<plans, on, pbulk, edits>>

\* InvalidatePolicyByProfile: a failure is kept for later and the loop goes on.
InvalidatePolicyByProfile(e) ==
    LET s == CHOOSE x \in editors[e].ids : TRUE IN
    /\ editors[e].at = "drop"
    /\ IF editors[e].ids = {} THEN editors' = [editors EXCEPT ![e] = NoEdit] /\ UNCHANGED cached
       ELSE /\ editors' = [editors EXCEPT ![e].ids = @ \ {s}]
            /\ cached' \in {[cached EXCEPT ![s] = NoView], Lazy({s})}
    /\ UNCHANGED <<plans, on, pbulk, edits>>

\* GetAuthView on a cold cache, and the view's expiry.
ColdLoad(s) ==
    /\ on[s] # NoPlan /\ cached[s].ver = 0
    /\ cached' = [cached EXCEPT ![s] = [ver |-> plans[on[s]].ver, lazy |-> FALSE]]
    /\ UNCHANGED <<plans, on, editors, pbulk, edits>>

ViewExpires(s) ==
    /\ cached[s].ver > 0 /\ cached' = [cached EXCEPT ![s] = NoView]
    /\ UNCHANGED <<plans, on, editors, pbulk, edits>>

\* A subscriber is put on a plan; its own view is deleted right after.
AssignPlan(s, p) ==
    /\ Exists(p) /\ on[s] # p /\ AskEdit
    /\ on' = [on EXCEPT ![s] = p]
    /\ cached' = [cached EXCEPT ![s] = NoView]
    /\ UNCHANGED <<plans, editors, pbulk>>

-----------------------------------------------------------------------------
(* bulk jobs                                                               *)

\* bulkHandler and selectTargets: plans belong to nobody, there is no scope.
PlanBulkHandler(act, sel) ==
    /\ pbulk = NoJob /\ editors[BulkEditor].at = "idle" /\ AskEdit
    /\ pbulk' = [act |-> act, todo |-> {p \in sel : Exists(p)}] /\ pbulk'.todo # {}
    /\ UNCHANGED <<plans, on, cached, editors>>

NextRow(p) == pbulk' = IF pbulk.todo = {p} THEN NoJob ELSE [pbulk EXCEPT !.todo = @ \ {p}]

\* Mutant: the views are left to the cache's lifetime.
RowWithoutViews(p) == NextRow(p) /\ WritePlan(p, plans[p].to, plans[p].scope) /\ UNCHANGED editors

\* runBulk, a row that is updated: the statement of buildBulkApply, then the
\* views of its subscribers.
RunBulkUpdate(p) == NextRow(p) /\ WritePlan(p, plans[p].to, plans[p].scope) /\ ApplyNow(BulkEditor, p)

\* runBulk: a plan in use is reported and skipped; one that is gone counts as done.
RunPlanBulk ==
    LET p == CHOOSE q \in pbulk.todo : TRUE IN
    /\ pbulk # NoJob /\ editors[BulkEditor].at = "idle"
    /\ \/ pbulk.act = "set" /\ Exists(p) /\ RunBulkUpdate(p)
       \/ pbulk.act = "set" /\ ~Exists(p) /\ NextRow(p) /\ UNCHANGED <<plans, editors>>
       \/ /\ pbulk.act = "delete" /\ NextRow(p) /\ UNCHANGED plans
          /\ editors' = IF ProfileInUse(p) THEN editors
                        ELSE [editors EXCEPT ![BulkEditor] = [at |-> "delete", plan |-> p, ids |-> {}]]
    /\ UNCHANGED <<on, cached, edits>>

\* hikrad-api restarts: what it still meant to delete stays in Redis.
PlanRestart ==
    LET late == {s \in Members : \E e \in Editors :
                    \/ editors[e].at = "load" /\ on[s] = editors[e].plan
                    \/ editors[e].at = "drop" /\ s \in editors[e].ids} IN
    /\ pbulk # NoJob \/ \E e \in Editors : editors[e].at # "idle"
    /\ editors' = [e \in Editors |-> NoEdit] /\ pbulk' = NoJob
    /\ cached' = Lazy(late)
    /\ UNCHANGED <<plans, on, edits>>

-----------------------------------------------------------------------------
PlansNext ==
    \/ \E p \in Plans : CreatePlanHandler(p) \/ ArchiveHandler(p)
    \/ \E p, q \in Plans : DuplicateHandler(p, q)
    \/ \E e \in Editors \ {BulkEditor}, p \in Plans :
         \/ \E now \in BOOLEAN : UpdatePlanHandler(e, p, now)
         \/ SpeedWindowHandler(e, p) \/ DeletePlanHandler(e, p)
    \/ \E e \in Editors : DeleteProfile(e) \/ InvalidateProfileViews(e) \/ InvalidatePolicyByProfile(e)
    \/ \E s \in Members : ColdLoad(s) \/ ViewExpires(s) \/ \E p \in Plans : AssignPlan(s, p)
    \/ \E act \in {"set", "delete"}, sel \in SUBSET Plans : PlanBulkHandler(act, sel)
    \/ RunPlanBulk
    \/ PlanRestart

PlansSpec == PlansInit /\ [][PlansNext]_planVars

-----------------------------------------------------------------------------
\* A cached view that is older than its subscriber's plan is about to be
\* deleted by the edit that made it old, or was knowingly left to its lifetime:
\* an edit for the next renewal, a failed deletion, a restart.  No edit, window
\* or bulk row is forgotten, whoever moves between plans meanwhile
\* (api.go:305-401, bulk.go:256-303, speedwindows.go:94-146).
PlanViewsFollow ==
    \A s \in Members : cached[s].ver > 0 /\ cached[s].ver < plans[on[s]].ver =>
        \/ cached[s].lazy
        \/ \E e \in Editors : editors[e].plan = on[s] /\
              (editors[e].at = "load" \/ (editors[e].at = "drop" /\ s \in editors[e].ids))

\* What profileInUse is there for (store.go:310-343): a plan that others switch
\* to is not deleted.  False: the target is never looked up when it is written,
\* and not a foreign key when it is deleted.
TargetsExist == \A p \in Plans : Exists(p) /\ plans[p].to # NoPlan => Exists(plans[p].to)
=============================================================================
