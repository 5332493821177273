------------------------------- MODULE Importer -------------------------------
(***************************************************************************)
(* The import wizard (backend/internal/importer): a file is mapped, run    *)
(* dry, and executed by a goroutine that posts every row to the create     *)
(* endpoint and then marks the row.  Plans have no unique name, so their   *)
(* rows are looked up before they are posted.  A batch can be run dry or   *)
(* executed again at any time, and the process may restart in between.     *)
(***************************************************************************)
EXTENDS Integers, FiniteSets

CONSTANTS
    FileRows,        \* rows of the file
    RowName,         \* [FileRows -> names]: what each of them would create
    Runners,         \* runExecute goroutines that can be alive together
    MaxDry, MaxFail  \* bounds: dry runs, writes that fail

ASSUME ImporterAssumption == MaxDry \in Nat /\ MaxFail \in Nat

VARIABLES
    entity,    \* "subscribers" or "profiles"
    bstatus,   \* import_batches.status
    irows,     \* [FileRows -> [action, warn, status]]
    dry,       \* a dry run under way: [at, rows]
    gen,       \* which dry run the stored rows come from
    progress,  \* the in-memory job of the batch: "none", "running", "completed"
    runners,   \* [Runners -> [at, gen, todo, row]]
    there,     \* names that exist
    made,      \* [names -> how many of them this import created]
    overlap,   \* two goroutines were alive together
    failures

impVars == <<entity, bstatus, irows, dry, gen, progress, runners, there, made, overlap, failures>>

RowNames == {RowName[r] : r \in FileRows}
NoRunner == [at |-> "idle", gen |-> 0, todo |-> {}, row |-> 0]
NoDry == [at |-> "idle", rows |-> {}]
FreshRow == [action |-> "skip", warn |-> FALSE, status |-> "pending"]

ImpInit ==
    /\ entity \in {"subscribers", "profiles"}
    /\ bstatus \in {"uploaded", "mapped"}   \* upload: a preset maps the columns at once
    /\ irows = [r \in FileRows |-> FreshRow] /\ dry = NoDry /\ gen = 0
    /\ progress = "none" /\ runners = [x \in Runners |-> NoRunner]
    /\ there = {} /\ made = [n \in RowNames |-> 0]
    /\ overlap = FALSE /\ failures = 0

\* mapHandler and updateColumnMap: at any time, whatever the status was.
MapHandler ==
    /\ bstatus # "mapped" /\ bstatus' = "mapped"
    /\ UNCHANGED <<entity, irows, dry, gen, progress, runners, there, made, overlap, failures>>

\* seenInFile: the first row of a name wins.
SeenInFile(r) == \E q \in FileRows : q < r /\ RowName[q] = RowName[r]

\* dryRunSubscribers: a username that exists is a skip with a warning.
DryRunSubscribers(r) ==
    LET taken == RowName[r] \in there /\ ~SeenInFile(r) IN
    [action |-> IF SeenInFile(r) \/ taken THEN "skip" ELSE "create", warn |-> taken, status |-> "pending"]

\* dryRunProfiles: a name that exists is a skip.
DryRunProfiles(r) ==
    [action |-> IF SeenInFile(r) \/ RowName[r] \in there THEN "skip" ELSE "create", warn |-> FALSE, status |-> "pending"]

\* dryRunHandler and dryRun: what exists is read now.
DryRunHandler ==
    /\ bstatus # "uploaded" /\ dry = NoDry /\ gen < MaxDry
    /\ dry' = [at |-> "replace", rows |-> {<<r, IF entity = "profiles" THEN DryRunProfiles(r) ELSE DryRunSubscribers(r)>> : r \in FileRows}]
    /\ UNCHANGED <<entity, bstatus, irows, gen, progress, runners, there, made, overlap, failures>>

\* replaceRows: the rows and their marks are replaced, also under a goroutine
\* that is at work on them.
ReplaceRows ==
    /\ dry.at = "replace" /\ dry' = [at |-> "mark", rows |-> {}]
    /\ irows' = [r \in FileRows |-> (CHOOSE x \in dry.rows : x[1] = r)[2]]
    /\ gen' = gen + 1
    /\ UNCHANGED <<entity, bstatus, progress, runners, there, made, overlap, failures>>

\* markDryRun
MarkDryRun ==
    /\ dry.at = "mark" /\ dry' = NoDry /\ bstatus' = "dry_run"
    /\ UNCHANGED <<entity, irows, gen, progress, runners, there, made, overlap, failures>>

\* executeHandler, the checks: the batch is read, then the job registry.
ExecuteHandler(x) ==
    /\ bstatus \in {"dry_run", "completed"} /\ progress # "running" /\ runners[x].at = "idle"
    /\ runners' = [runners EXCEPT ![x].at = "start"]
    /\ overlap' = (overlap \/ \E y \in Runners : runners[y].at # "idle")
    /\ UNCHANGED <<entity, bstatus, irows, dry, gen, progress, there, made, failures>>

\* executeHandler: jobs.start, the status, the goroutine.
ExecuteStart(x) ==
    /\ runners[x].at = "start"
    /\ progress' = "running" /\ bstatus' = "executing"
    /\ runners' = [runners EXCEPT ![x].at = "list"]
    /\ UNCHANGED <<entity, irows, dry, gen, there, made, overlap, failures>>

\* listRows; a row marked imported is counted and left alone, a row not to be
\* created is marked skipped.
ListRows(x) ==
    LET post == {r \in FileRows : irows[r].status # "imported" /\ (irows[r].action = "create" \/ irows[r].warn)} IN
    /\ runners[x].at = "list"
    /\ runners' = [runners EXCEPT ![x].at = "next", ![x].gen = gen, ![x].todo = post]
    /\ irows' = [r \in FileRows |-> IF r \in post \/ irows[r].status = "imported" THEN irows[r]
                                    ELSE [irows[r] EXCEPT !.status = "skipped"]]
    /\ UNCHANGED <<entity, bstatus, dry, gen, progress, there, made, overlap, failures>>

NextOf(todo) == CHOOSE r \in todo : \A q \in todo : r <= q

\* markRowResult, best effort, by the id the row had in its own dry run.
MarkRowResult(x, r, st) ==
    \/ /\ irows' = IF runners[x].gen = gen THEN [irows EXCEPT ![r].status = st] ELSE irows
       /\ UNCHANGED failures
    \/ failures < MaxFail /\ failures' = failures + 1 /\ UNCHANGED irows

\* Mutant: the name is not looked up before the row is posted.
NeverTaken(r) == FALSE

\* runExecute, the lookup of a plan's name.
NameTaken(r) == entity = "profiles" /\ RowName[r] \in there

\* runExecute, the lookup of one row: skipped and marked, or posted next.
RunExecute(x) ==
    LET r == NextOf(runners[x].todo) IN
    /\ runners[x].at = "next" /\ runners[x].todo # {}
    /\ IF NameTaken(r)
       THEN MarkRowResult(x, r, "skipped") /\ runners' = [runners EXCEPT ![x].todo = @ \ {r}]
       ELSE runners' = [runners EXCEPT ![x].at = "post", ![x].row = r] /\ UNCHANGED <<irows, failures>>
    /\ UNCHANGED <<entity, bstatus, dry, gen, progress, there, made, overlap>>

\* The create endpoint, dispatched in process: 409 for a username that exists,
\* 201 otherwise, another refusal, 401 once the manager's token has run out.
Dispatch(x) ==
    LET n == RowName[runners[x].row] IN
    /\ runners[x].at = "post"
    /\ \/ /\ entity = "subscribers" /\ n \in there
          /\ runners' = [runners EXCEPT ![x].at = "conflict"] /\ UNCHANGED <<there, made>>
       \/ /\ entity = "profiles" \/ n \notin there
          /\ there' = there \union {n} /\ made' = [made EXCEPT ![n] = @ + 1]
          /\ runners' = [runners EXCEPT ![x].at = "created"]
       \/ /\ runners' = [runners EXCEPT ![x].at = "refused"] /\ UNCHANGED <<there, made>>
       \/ /\ runners' = [runners EXCEPT ![x].at = "next", ![x].todo = {}] /\ UNCHANGED <<there, made>>
    /\ UNCHANGED <<entity, bstatus, irows, dry, gen, progress, overlap, failures>>

Outcome == [created |-> "imported", conflict |-> "skipped", refused |-> "failed"]

\* runExecute, what it writes down about the answer.
RowDone(x) ==
    /\ runners[x].at \in DOMAIN Outcome
    /\ MarkRowResult(x, runners[x].row, Outcome[runners[x].at])
    /\ runners' = [runners EXCEPT ![x].at = "next", ![x].todo = @ \ {runners[x].row}]
    /\ UNCHANGED <<entity, bstatus, dry, gen, progress, there, made, overlap>>

\* runExecute, the end: markExecuted and the progress.
MarkExecuted(x) ==
    /\ runners[x].at = "next" /\ runners[x].todo = {}
    /\ bstatus' = "completed" /\ progress' = "completed"
    /\ runners' = [runners EXCEPT ![x] = NoRunner]
    /\ UNCHANGED <<entity, irows, dry, gen, there, made, overlap, failures>>

\* hikrad-api restarts: the registry is empty, the status stays "executing".
ImpRestart ==
    /\ dry # NoDry \/ \E x \in Runners : runners[x].at # "idle"
    /\ runners' = [x \in Runners |-> NoRunner] /\ progress' = "none" /\ dry' = NoDry
    /\ failures < MaxFail /\ failures' = failures + 1
    /\ UNCHANGED <<entity, bstatus, irows, gen, there, made, overlap>>

\* Somebody creates the same name by hand.
CreatedByHand(n) ==
    /\ n \notin there /\ there' = there \union {n}
    /\ UNCHANGED <<entity, bstatus, irows, dry, gen, progress, runners, made, overlap, failures>>

ImpNext ==
    \/ MapHandler \/ DryRunHandler \/ ReplaceRows \/ MarkDryRun \/ ImpRestart
    \/ \E x \in Runners :
         \/ ExecuteHandler(x) \/ ExecuteStart(x) \/ ListRows(x) \/ RunExecute(x)
         \/ Dispatch(x) \/ RowDone(x) \/ MarkExecuted(x)
    \/ \E n \in RowNames : CreatedByHand(n)

ImpSpec == ImpInit /\ [][ImpNext]_impVars

-----------------------------------------------------------------------------
\* However often a batch is run dry and executed, with restarts and marks that
\* are lost, a name of the file is created once, unless two goroutines of the
\* batch were alive together ("idempotent by construction", execute.go:8).
ImportedOnce == ~overlap => \A n \in RowNames : made[n] <= 1

\* The same without the exception: false, for executeHandler asks the registry
\* and enters it in two steps (api.go:291-297).
ImportedOnceAlways == \A n \in RowNames : made[n] <= 1
=============================================================================
