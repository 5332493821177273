--------------------------- MODULE OperationsProofs ---------------------------
(***************************************************************************)
(* Proofs about what surrounds the accounts: the import wizard creates a   *)
(* name of its file once, what is taken from a manager is gone from every  *)
(* access token in time, a firewall edit nobody confirms is taken back on  *)
(* the router, the panel's view of an update shows all of it, no row of    *)
(* the notification outbox has two senders, and the alert feed holds what  *)
(* the downtime log is computed to be; for any number of rows, runs,       *)
(* managers, sessions, operators, requests, dispatchers, targets and       *)
(* samples.                                                                *)
(***************************************************************************)
EXTENDS Importer, Access, Routers, Updater, Notify, Monitor, Sums, SequenceTheorems, TLAPS

-----------------------------------------------------------------------------
(* The importer.                                                           *)

RunnerSteps == {"idle", "start", "list", "next", "post", "created", "conflict", "refused"}
RunnerRecs(R) == [at : RunnerSteps, gen : Nat, todo : SUBSET FileRows, row : R]
RunnerType == \E R : runners \in [Runners -> RunnerRecs(R)]

ImpType == RunnerType /\ gen \in Nat /\ made \in [RowNames -> Nat] /\ overlap \in BOOLEAN

\* What the import created exists.
MadeThere == \A n \in RowNames : made[n] > 0 => n \in there

\* Without an overlap one goroutine at most is alive.
AloneInBatch == ~overlap => \A x, y \in Runners : runners[x].at # "idle" /\ runners[y].at # "idle" => x = y

\* Without an overlap a plan whose name was looked up is still to be created.
PostFresh ==
    ~overlap /\ entity = "profiles" =>
        \A x \in Runners : runners[x].at = "post" => \A n \in RowNames : n = RowName[runners[x].row] => made[n] = 0

ImpInv == ImpType /\ MadeThere /\ AloneInBatch /\ PostFresh /\ ImportedOnce

LEMMA ImpInvInit == ImpInit => ImpInv
<1> SUFFICES ASSUME ImpInit PROVE ImpInv
  OBVIOUS
<1>1. NoRunner \in RunnerRecs({0}) /\ NoRunner.at = "idle"
  BY DEF NoRunner, RunnerRecs, RunnerSteps
<1>2. RunnerType
  BY <1>1 DEF ImpInit, RunnerType
<1>3. ImpType
  BY <1>2 DEF ImpInit, ImpType
<1>4. \A x \in Runners : runners[x].at = "idle"
  BY <1>1 DEF ImpInit
<1>5. \A n \in RowNames : made[n] = 0
  BY DEF ImpInit
<1> QED
  BY <1>3, <1>4, <1>5 DEF ImpInv, MadeThere, AloneInBatch, PostFresh, ImportedOnce

\* A step that creates nothing and starts nothing.
LEMMA ImpKept ==
    ASSUME ImpInv, RunnerType', gen' \in Nat, made' = made, there \subseteq there', entity' = entity, overlap' = overlap,
           \A x \in Runners : runners'[x].at # "idle" => runners[x].at # "idle",
           \A x \in Runners : runners'[x].at = "post" => runners[x].at = "post" /\ runners'[x].row = runners[x].row
    PROVE  ImpInv'
<1>1. ImpType'
  BY DEF ImpInv, ImpType
<1>2. MadeThere'
  BY DEF ImpInv, MadeThere
<1>3. AloneInBatch'
  BY DEF ImpInv, AloneInBatch
<1>4. PostFresh'
  BY DEF ImpInv, PostFresh
<1>5. ImportedOnce'
  BY DEF ImpInv, ImportedOnce
<1> QED
  BY <1>1, <1>2, <1>3, <1>4, <1>5 DEF ImpInv

\* One goroutine moves: what it becomes is the record w.
LEMMA RunnerMoves ==
    ASSUME RunnerType, NEW x \in Runners, NEW R, NEW w \in RunnerRecs(R), runners' = [runners EXCEPT ![x] = w]
    PROVE  RunnerType' /\ runners'[x] = w /\ \A y \in Runners \ {x} : runners'[y] = runners[y]
<1>1. PICK Q : runners \in [Runners -> RunnerRecs(Q)]
  BY DEF RunnerType
<1>2. \A k \in RunnerRecs(Q) : k \in RunnerRecs(Q \union R)
  BY DEF RunnerRecs
<1>3. w \in RunnerRecs(Q \union R)
  BY DEF RunnerRecs
<1> DEFINE A == RunnerRecs(Q)
           B == RunnerRecs(Q \union R)
<1>4. runners \in [Runners -> A] /\ (\A k \in A : k \in B) /\ w \in B
  BY <1>1, <1>2, <1>3
<1> HIDE DEF A, B
<1>5. runners' \in [Runners -> B] /\ runners'[x] = w /\ \A y \in Runners \ {x} : runners'[y] = runners[y]
  BY <1>4
<1>6. RunnerType'
  BY <1>5 DEF RunnerType, B
<1> QED
  BY <1>5, <1>6

\* The fields of a goroutine's record after a change of one or two of them.
LEMMA RunnerFields ==
    ASSUME NEW R, NEW k \in RunnerRecs(R)
    PROVE  /\ \A a \in RunnerSteps : /\ [k EXCEPT !.at = a] \in RunnerRecs(R)
                                     /\ [k EXCEPT !.at = a].at = a /\ [k EXCEPT !.at = a].row = k.row
           /\ \A t \in SUBSET FileRows : /\ [k EXCEPT !.todo = t] \in RunnerRecs(R)
                                         /\ [k EXCEPT !.todo = t].at = k.at /\ [k EXCEPT !.todo = t].row = k.row
           /\ \A g \in Nat : /\ [k EXCEPT !.gen = g] \in RunnerRecs(R)
                             /\ [k EXCEPT !.gen = g].at = k.at /\ [k EXCEPT !.gen = g].row = k.row
           /\ \A r : /\ [k EXCEPT !.row = r] \in RunnerRecs(R \union {r})
                     /\ [k EXCEPT !.row = r].at = k.at /\ [k EXCEPT !.row = r].row = r
<1>1. \A a \in RunnerSteps : /\ [k EXCEPT !.at = a] \in RunnerRecs(R)
                             /\ [k EXCEPT !.at = a].at = a /\ [k EXCEPT !.at = a].row = k.row
  BY DEF RunnerRecs
<1>2. \A t \in SUBSET FileRows : /\ [k EXCEPT !.todo = t] \in RunnerRecs(R)
                                 /\ [k EXCEPT !.todo = t].at = k.at /\ [k EXCEPT !.todo = t].row = k.row
  BY DEF RunnerRecs
<1>3. \A g \in Nat : /\ [k EXCEPT !.gen = g] \in RunnerRecs(R)
                     /\ [k EXCEPT !.gen = g].at = k.at /\ [k EXCEPT !.gen = g].row = k.row
  BY DEF RunnerRecs
<1>4. \A r : /\ [k EXCEPT !.row = r] \in RunnerRecs(R \union {r})
             /\ [k EXCEPT !.row = r].at = k.at /\ [k EXCEPT !.row = r].row = r
  BY DEF RunnerRecs
<1> QED
  BY <1>1, <1>2, <1>3, <1>4

\* A step of a goroutine that is alive, and creates nothing.
LEMMA RunnerKept ==
    ASSUME ImpInv, NEW x \in Runners, NEW R, NEW w \in RunnerRecs(R), runners' = [runners EXCEPT ![x] = w],
           runners[x].at # "idle", w.at # "post", UNCHANGED <<entity, gen, there, made, overlap>>
    PROVE  ImpInv'
<1>1. RunnerType /\ gen \in Nat
  BY DEF ImpInv, ImpType
<1>2. RunnerType' /\ runners'[x] = w /\ \A y \in Runners \ {x} : runners'[y] = runners[y]
  BY <1>1, RunnerMoves
<1>3. \A y \in Runners : runners'[y].at # "idle" => runners[y].at # "idle"
  BY <1>2
<1>4. \A y \in Runners : runners'[y].at = "post" => runners[y].at = "post" /\ runners'[y].row = runners[y].row
  BY <1>2
<1> QED
  BY <1>1, <1>2, <1>3, <1>4, ImpKept

LEMMA RunnerIs ==
    ASSUME ImpInv, NEW x \in Runners
    PROVE  \E R : runners[x] \in RunnerRecs(R)
  BY DEF ImpInv, ImpType, RunnerType

LEMMA ExecuteHandlerInv ==
    ASSUME ImpInv, NEW x \in Runners, ExecuteHandler(x)
    PROVE  ImpInv'
<1> DEFINE k == runners[x]
           w == [k EXCEPT !.at = "start"]
<1>1. /\ runners[x].at = "idle" /\ runners' = [runners EXCEPT ![x] = w]
      /\ overlap' = (overlap \/ \E y \in Runners : runners[y].at # "idle")
      /\ UNCHANGED <<entity, gen, there, made>>
  BY DEF ExecuteHandler
<1>2. PICK R : k \in RunnerRecs(R)
  BY RunnerIs
<1> HIDE DEF k
<1>3. w \in RunnerRecs(R) /\ w.at = "start"
  BY <1>2 DEF RunnerRecs, RunnerSteps
<1> HIDE DEF w
<1>4. ImpType /\ MadeThere /\ AloneInBatch /\ PostFresh /\ ImportedOnce
  BY DEF ImpInv
<1>5. RunnerType' /\ runners'[x] = w /\ \A y \in Runners \ {x} : runners'[y] = runners[y]
  BY <1>1, <1>3, <1>4, RunnerMoves DEF ImpType
<1>6. ~overlap' => ~overlap /\ \A y \in Runners : runners[y].at = "idle"
  BY <1>1, <1>4
<1>7. overlap' \in BOOLEAN
  BY <1>1
<1>8. ImpType'
  BY <1>1, <1>4, <1>5, <1>7 DEF ImpType
<1>9. AloneInBatch'
  BY <1>3, <1>5, <1>6 DEF AloneInBatch
<1>10. PostFresh'
  BY <1>1, <1>3, <1>4, <1>5, <1>6 DEF PostFresh
<1>11. MadeThere' /\ ImportedOnce'
  BY <1>1, <1>4, <1>6 DEF MadeThere, ImportedOnce
<1> QED
  BY <1>8, <1>9, <1>10, <1>11 DEF ImpInv

LEMMA ExecuteStartInv ==
    ASSUME ImpInv, NEW x \in Runners, ExecuteStart(x)
    PROVE  ImpInv'
<1> DEFINE k == runners[x]
           w == [k EXCEPT !.at = "list"]
<1>1. runners[x].at # "idle" /\ runners' = [runners EXCEPT ![x] = w] /\ UNCHANGED <<entity, gen, there, made, overlap>>
  BY DEF ExecuteStart
<1>2. PICK R : k \in RunnerRecs(R)
  BY RunnerIs
<1> HIDE DEF k
<1>3. w \in RunnerRecs(R) /\ w.at # "post"
  BY <1>2 DEF RunnerRecs, RunnerSteps
<1> HIDE DEF w
<1> QED
  BY <1>1, <1>3, RunnerKept

LEMMA ListRowsInv ==
    ASSUME ImpInv, NEW x \in Runners, ListRows(x)
    PROVE  ImpInv'
<1> DEFINE post == {r \in FileRows : irows[r].status # "imported" /\ (irows[r].action = "create" \/ irows[r].warn)}
           k == runners[x]
           a == [k EXCEPT !.at = "next"]
           b == [a EXCEPT !.gen = gen]
           w == [b EXCEPT !.todo = post]
<1>1. runners[x].at # "idle" /\ runners' = [runners EXCEPT ![x] = w] /\ UNCHANGED <<entity, gen, there, made, overlap>>
  BY DEF ListRows
<1>2. PICK R : k \in RunnerRecs(R)
  BY RunnerIs
<1>3. post \in SUBSET FileRows /\ gen \in Nat
  BY DEF ImpInv, ImpType
<1> HIDE DEF k, post
<1>4. a \in RunnerRecs(R) /\ a.at = "next"
  BY <1>2 DEF RunnerRecs, RunnerSteps
<1> HIDE DEF a
<1>5. b \in RunnerRecs(R) /\ b.at = "next"
  BY <1>3, <1>4, RunnerFields
<1> HIDE DEF b
<1>6. w \in RunnerRecs(R) /\ w.at # "post"
  BY <1>3, <1>5, RunnerFields, SMTT(30)
<1> HIDE DEF w
<1> QED
  BY <1>1, <1>6, RunnerKept

LEMMA RowDoneInv ==
    ASSUME ImpInv, NEW x \in Runners, RowDone(x)
    PROVE  ImpInv'
<1> DEFINE k == runners[x]
           a == [k EXCEPT !.at = "next"]
           t == k.todo \ {k.row}
           w == [a EXCEPT !.todo = t]
<1>1. /\ runners[x].at \in DOMAIN Outcome /\ runners' = [runners EXCEPT ![x] = w]
      /\ UNCHANGED <<entity, gen, there, made, overlap>>
  BY DEF RowDone
<1>2. runners[x].at # "idle"
  BY <1>1 DEF Outcome
<1>3. PICK R : k \in RunnerRecs(R)
  BY RunnerIs
<1>4. t \in SUBSET FileRows
  BY <1>3 DEF RunnerRecs
<1> HIDE DEF k, t
<1>5. a \in RunnerRecs(R) /\ a.at = "next"
  BY <1>3 DEF RunnerRecs, RunnerSteps
<1> HIDE DEF a
<1>6. w \in RunnerRecs(R) /\ w.at # "post"
  BY <1>4, <1>5, RunnerFields
<1> HIDE DEF w
<1> QED
  BY <1>1, <1>2, <1>6, RunnerKept

LEMMA MarkExecutedInv ==
    ASSUME ImpInv, NEW x \in Runners, MarkExecuted(x)
    PROVE  ImpInv'
<1>1. runners[x].at # "idle" /\ runners' = [runners EXCEPT ![x] = NoRunner] /\ UNCHANGED <<entity, gen, there, made, overlap>>
  BY DEF MarkExecuted
<1>2. NoRunner \in RunnerRecs({0}) /\ NoRunner.at # "post"
  BY DEF NoRunner, RunnerRecs, RunnerSteps
<1> QED
  BY <1>1, <1>2, RunnerKept

\* The lookup: a plan that is posted was not there, so it was not created.
LEMMA RunExecuteInv ==
    ASSUME ImpInv, NEW x \in Runners, RunExecute(x)
    PROVE  ImpInv'
<1> DEFINE k == runners[x]
           r == NextOf(k.todo)
           t == k.todo \ {r}
           s == [k EXCEPT !.todo = t]
           a == [k EXCEPT !.at = "post"]
           w == [a EXCEPT !.row = r]
<1>1. /\ runners[x].at = "next" /\ UNCHANGED <<entity, gen, there, made, overlap>>
      /\ \/ runners' = [runners EXCEPT ![x] = s]
         \/ ~NameTaken(r) /\ runners' = [runners EXCEPT ![x] = w]
  BY DEF RunExecute
<1>2. PICK R : k \in RunnerRecs(R)
  BY RunnerIs
<1>3. t \in SUBSET FileRows /\ k.at = "next"
  BY <1>1, <1>2 DEF RunnerRecs
<1> HIDE DEF k, t, r
<1>4. s \in RunnerRecs(R) /\ s.at # "post"
  BY <1>2, <1>3, RunnerFields
<1>5. a \in RunnerRecs(R)
  BY <1>2 DEF RunnerRecs, RunnerSteps
<1>6. a.at = "post"
  BY <1>2 DEF RunnerRecs
<1> HIDE DEF a, s
<1>7. w \in RunnerRecs(R \union {r}) /\ w.at = "post" /\ w.row = r
  BY <1>5, <1>6 DEF RunnerRecs
<1> HIDE DEF w
<1>8. CASE runners' = [runners EXCEPT ![x] = s]
  BY <1>1, <1>4, <1>8, RunnerKept
<1>9. CASE ~NameTaken(r) /\ runners' = [runners EXCEPT ![x] = w]
  <2>1. ImpType /\ MadeThere /\ AloneInBatch /\ PostFresh /\ ImportedOnce
    BY DEF ImpInv
  <2>2. RunnerType' /\ runners'[x] = w /\ \A y \in Runners \ {x} : runners'[y] = runners[y]
    BY <1>7, <1>9, <2>1, RunnerMoves DEF ImpType
  <2>3. ImpType'
    BY <1>1, <2>1, <2>2 DEF ImpType
  <2>4. AloneInBatch'
    BY <1>1, <2>1, <2>2 DEF AloneInBatch
  <2>5. entity = "profiles" => \A n \in RowNames : n = RowName[r] => made[n] = 0
    <3> SUFFICES ASSUME entity = "profiles", NEW n \in RowNames, n = RowName[r] PROVE made[n] = 0
      OBVIOUS
    <3>1. n \notin there
      BY <1>9 DEF NameTaken
    <3>2. made[n] \in Nat
      BY <2>1 DEF ImpType
    <3> QED
      BY <2>1, <3>1, <3>2 DEF MadeThere
  <2>6. PostFresh'
    BY <1>1, <1>7, <2>1, <2>2, <2>5 DEF PostFresh
  <2>7. MadeThere' /\ ImportedOnce'
    BY <1>1, <2>1 DEF MadeThere, ImportedOnce
  <2> QED
    BY <2>3, <2>4, <2>6, <2>7 DEF ImpInv
<1> QED
  BY <1>1, <1>8, <1>9

\* The create endpoint: a username that exists is refused, a plan is posted by
\* the goroutine that found its name free.
LEMMA DispatchInv ==
    ASSUME ImpInv, NEW x \in Runners, Dispatch(x)
    PROVE  ImpInv'
<1> DEFINE k == runners[x]
           n == RowName[k.row]
           To(a) == [k EXCEPT !.at = a]
           w == [To("next") EXCEPT !.todo = {}]
<1>1. /\ runners[x].at = "post" /\ UNCHANGED <<entity, gen, overlap>>
      /\ \/ \E a \in {"conflict", "refused"} : runners' = [runners EXCEPT ![x] = To(a)] /\ UNCHANGED <<there, made>>
         \/ runners' = [runners EXCEPT ![x] = w] /\ UNCHANGED <<there, made>>
         \/ /\ entity = "profiles" \/ n \notin there
            /\ there' = there \union {n} /\ made' = [made EXCEPT ![n] = made[n] + 1]
            /\ runners' = [runners EXCEPT ![x] = To("created")]
  BY DEF Dispatch
<1>2. PICK R : k \in RunnerRecs(R)
  BY RunnerIs
<1>3. n = RowName[runners[x].row]
  OBVIOUS
<1> HIDE DEF k, n
<1>4. \A a \in RunnerSteps : To(a) \in RunnerRecs(R) /\ To(a).at = a
  BY <1>2, RunnerFields
<1>5. "next" \in RunnerSteps /\ {} \in SUBSET FileRows
  BY DEF RunnerSteps
<1>6. w \in RunnerRecs(R) /\ w.at = "next"
  <2> DEFINE o == To("next")
  <2>1. o \in RunnerRecs(R) /\ o.at = "next"
    BY <1>4, <1>5
  <2> HIDE DEF o
  <2>2. [o EXCEPT !.todo = {}] \in RunnerRecs(R) /\ [o EXCEPT !.todo = {}].at = "next"
    BY <1>5, <2>1, RunnerFields
  <2> QED
    BY <2>2 DEF o
<1> HIDE DEF To, w
<1>7. CASE \E a \in {"conflict", "refused"} : runners' = [runners EXCEPT ![x] = To(a)] /\ UNCHANGED <<there, made>>
  <2>1. PICK a \in {"conflict", "refused"} : runners' = [runners EXCEPT ![x] = To(a)] /\ UNCHANGED <<there, made>>
    BY <1>7
  <2>2. To(a) \in RunnerRecs(R) /\ To(a).at # "post"
    BY <1>4 DEF RunnerSteps
  <2> QED
    BY <1>1, <2>1, <2>2, RunnerKept
<1>8. CASE runners' = [runners EXCEPT ![x] = w] /\ UNCHANGED <<there, made>>
  BY <1>1, <1>6, <1>8, RunnerKept
<1>9. CASE /\ entity = "profiles" \/ n \notin there
           /\ there' = there \union {n} /\ made' = [made EXCEPT ![n] = made[n] + 1]
           /\ runners' = [runners EXCEPT ![x] = To("created")]
  <2> DEFINE c == To("created")
  <2>1. c \in RunnerRecs(R) /\ c.at = "created" /\ runners' = [runners EXCEPT ![x] = c]
    BY <1>4, <1>9 DEF RunnerSteps
  <2> HIDE DEF c
  <2>2. ImpType /\ MadeThere /\ AloneInBatch /\ PostFresh /\ ImportedOnce
    BY DEF ImpInv
  <2>3. RunnerType' /\ runners'[x] = c /\ \A y \in Runners \ {x} : runners'[y] = runners[y]
    BY <2>1, <2>2, RunnerMoves DEF ImpType
  <2>4. made \in [RowNames -> Nat]
    BY <2>2 DEF ImpType
  <2>5. made' \in [RowNames -> Nat] /\ \A m \in RowNames : made'[m] = IF m = n THEN made[m] + 1 ELSE made[m]
    <3>1. made' = [made EXCEPT ![n] = made[n] + 1]
      BY <1>9
    <3>2. CASE n \in RowNames
      BY <2>4, <3>1, <3>2
    <3>3. CASE n \notin RowNames
      <4>1. made' = made
        BY <2>4, <3>1, <3>3
      <4> QED
        BY <2>4, <3>3, <4>1
    <3> QED
      BY <3>2, <3>3
  <2>6. ImpType'
    BY <1>1, <2>2, <2>3, <2>5 DEF ImpType
  <2>7. MadeThere'
    <3> SUFFICES ASSUME NEW m \in RowNames, made'[m] > 0 PROVE m \in there'
      BY DEF MadeThere
    <3>1. CASE m = n
      BY <1>9, <3>1
    <3>2. CASE m # n
      BY <1>9, <2>2, <2>5, <3>2 DEF MadeThere
    <3> QED
      BY <3>1, <3>2
  <2>8. AloneInBatch'
    BY <1>1, <2>1, <2>2, <2>3 DEF AloneInBatch
  <2>9. ~overlap => \A m \in RowNames : m = n => made[m] = 0
    <3> SUFFICES ASSUME ~overlap, NEW m \in RowNames, m = n PROVE made[m] = 0
      OBVIOUS
    <3>1. made[m] \in Nat
      BY <2>4
    <3>2. CASE entity = "profiles"
      BY <1>1, <1>3, <2>2, <3>2 DEF PostFresh
    <3>3. CASE n \notin there
      BY <2>2, <3>1, <3>3 DEF MadeThere
    <3> QED
      BY <1>9, <3>2, <3>3
  <2>10. ImportedOnce'
    <3> SUFFICES ASSUME ~overlap, NEW m \in RowNames PROVE made'[m] <= 1
      BY <1>1 DEF ImportedOnce
    <3>1. CASE m = n
      BY <2>5, <2>9, <3>1
    <3>2. CASE m # n
      BY <2>2, <2>5, <3>2 DEF ImportedOnce
    <3> QED
      BY <3>1, <3>2
  <2>11. PostFresh'
    <3> SUFFICES ASSUME ~overlap, NEW y \in Runners, runners'[y].at = "post" PROVE FALSE
      BY <1>1 DEF PostFresh
    <3>1. y # x
      BY <2>1, <2>3
    <3>2. runners[y].at = "post"
      BY <2>3, <3>1
    <3> QED
      BY <1>1, <2>2, <3>1, <3>2 DEF AloneInBatch
  <2> QED
    BY <2>6, <2>7, <2>8, <2>10, <2>11 DEF ImpInv
<1> QED
  BY <1>1, <1>7, <1>8, <1>9

LEMMA ImpInvNext == ImpInv /\ [ImpNext]_impVars => ImpInv'
<1> SUFFICES ASSUME ImpInv, [ImpNext]_impVars PROVE ImpInv'
  OBVIOUS
<1>1. RunnerType /\ gen \in Nat
  BY DEF ImpInv, ImpType
<1>2. ASSUME runners' = runners, gen' \in Nat, made' = made, there \subseteq there', entity' = entity, overlap' = overlap
      PROVE  ImpInv'
  <2>1. RunnerType'
    BY <1>1, <1>2 DEF RunnerType
  <2> QED
    BY <1>2, <2>1, ImpKept
<1>3. CASE MapHandler \/ DryRunHandler \/ MarkDryRun
  BY <1>1, <1>2, <1>3 DEF MapHandler, DryRunHandler, MarkDryRun
<1>4. CASE ReplaceRows
  BY <1>1, <1>2, <1>4 DEF ReplaceRows
<1>5. CASE ImpRestart
  <2>1. NoRunner \in RunnerRecs({0}) /\ NoRunner.at = "idle"
    BY DEF NoRunner, RunnerRecs, RunnerSteps
  <2>2. runners' = [y \in Runners |-> NoRunner] /\ UNCHANGED <<entity, gen, there, made, overlap>>
    BY <1>5 DEF ImpRestart
  <2>3. RunnerType' /\ \A y \in Runners : runners'[y].at = "idle"
    BY <2>1, <2>2 DEF RunnerType
  <2> QED
    BY <1>1, <2>2, <2>3, ImpKept
<1>6. CASE \E n \in RowNames : CreatedByHand(n)
  BY <1>1, <1>2, <1>6 DEF CreatedByHand
<1>7. CASE UNCHANGED impVars
  BY <1>1, <1>2, <1>7 DEF impVars
<1>8. CASE ImpNext
  BY <1>3, <1>4, <1>5, <1>6, <1>8, ExecuteHandlerInv, ExecuteStartInv, ListRowsInv, RunExecuteInv, DispatchInv,
     RowDoneInv, MarkExecutedInv DEF ImpNext
<1> QED
  BY <1>7, <1>8

\* An import creates every name of its file once (importer/execute.go): with
\* any number of dry runs, executions, restarts, lost marks and names created
\* by hand meanwhile, for any file, unless two goroutines of the batch were
\* alive together.
THEOREM ImportCorrect == ImpSpec => []ImportedOnce
<1>1. ImpInv => ImportedOnce
  BY DEF ImpInv
<1> QED
  BY <1>1, ImpInvInit, ImpInvNext, PTL DEF ImpSpec

-----------------------------------------------------------------------------
(* Managers, sessions and tokens.                                          *)

CallSteps == {"idle", "signed", "issue", "lookup", "token", "rolescope", "flag", "hash", "revoke", "delete", "activate"}
CallRecs(R) == [at : CallSteps, who : R, panel : R, pwd : R, role : R, base : R, keep : R, want : R, age : Nat]
CallType == \E R : calls \in [Slots -> CallRecs(R)]

PanelRecs(R) == [st : {"none", "live", "revoked"}, who : R, pwd : R, turned : BOOLEAN]
PanelType == \E R : panels \in [Panels -> PanelRecs(R)]

TokRecs(R) == [who : Managers, panel : Panels, adm : R, near : R, age : Nat]
TokType == \E R : toks \subseteq TokRecs(R)

AccType ==
    /\ CallType /\ PanelType /\ TokType
    /\ since \in [Managers -> [Facts -> Nat]] /\ cut \in [Panels -> Nat]

\* What holds now held a moment ago.
HoldsNow == \A m \in Managers : \A f \in Facts : Holds(m)[f] => since[m][f] = 0

\* A live session is a manager's; one that was not revoked has no time since.
PanelOK ==
    \A p \in Panels : /\ panels[p].st = "live" => panels[p].who \in Managers
                      /\ panels[p].st # "revoked" => cut[p] = 0

\* What a login or a refresh carries was true when it was read, which is no
\* longer ago than the request is under way.
Carries(c) ==
    /\ c.age <= CallLife
    /\ c.at \in {"signed", "issue", "lookup", "token"} => c.who \in Managers
    /\ c.at \in {"signed", "issue", "token"} => since[c.who]["enabled"] <= c.age
    /\ c.at \in {"issue", "token"} /\ c.base \in {"all", "edit"} => since[c.who]["granted"] <= c.age
    /\ c.at \in {"issue", "token"} /\ c.base = "all" => since[c.who]["allowed"] <= c.age
    /\ c.at \in {"lookup", "token"} => c.panel \in Panels /\ cut[c.panel] <= c.age
CallOK == \A q \in Slots : Carries(calls[q])

\* What a token says was true no longer ago than the token's age and the
\* request that issued it.
Attests(t) ==
    /\ t.age <= TokenLife
    /\ since[t.who]["enabled"] <= t.age + CallLife
    /\ t.adm => since[t.who]["granted"] <= t.age + CallLife /\ since[t.who]["allowed"] <= t.age + CallLife
    /\ t.near => since[t.who]["near"] <= t.age + CallLife
    /\ cut[t.panel] <= t.age + CallLife
TokOK == \A t \in toks : Attests(t)

AccInv == AccType /\ HoldsNow /\ PanelOK /\ CallOK /\ TokOK

LEMMA AccInvInit == AccInit => AccInv
<1> SUFFICES ASSUME AccInit PROVE AccInv
  OBVIOUS
<1>1. NoCall \in CallRecs({"none", 0}) /\ NoCall.at = "idle" /\ NoCall.age = 0
  BY DEF NoCall, CallRecs, CallSteps
<1>2. NoPanel \in PanelRecs({"none", 0}) /\ NoPanel.st = "none"
  BY DEF NoPanel, PanelRecs
<1>3. CallType /\ \A q \in Slots : calls[q].at = "idle" /\ calls[q].age = 0
  BY <1>1 DEF AccInit, CallType
<1>4. PanelType /\ \A p \in Panels : panels[p].st = "none"
  BY <1>2 DEF AccInit, PanelType
<1>5. TokType /\ toks = {}
  BY DEF AccInit, TokType
<1>6. cut = [p \in Panels |-> 0]
  BY DEF AccInit
<1>7. SLA + 1 \in Nat
  BY AccessAssumption DEF SLA
<1>8. since \in [Managers -> [Facts -> Nat]]
  BY <1>7 DEF AccInit
<1>9. AccType
  BY <1>3, <1>4, <1>5, <1>6, <1>8 DEF AccType
<1>10. HoldsNow
  <2> SUFFICES ASSUME NEW m \in Managers, NEW f \in Facts PROVE ~Holds(m)[f]
    BY DEF HoldsNow
  <2>1. mgrs[m].st = "gone"
    BY DEF AccInit, NoMgr
  <2> QED
    BY <2>1 DEF Holds, Facts, Known
<1>11. PanelOK
  BY <1>4, <1>6 DEF PanelOK
<1>12. CallOK
  BY <1>3, AccessAssumption DEF CallOK, Carries
<1> QED
  BY <1>5, <1>9, <1>10, <1>11, <1>12 DEF AccInv, TokOK

\* The ages, as natural numbers.
LEMMA AccNats ==
    ASSUME AccType
    PROVE  /\ \A m \in Managers : \A f \in Facts : since[m][f] \in Nat
           /\ \A p \in Panels : cut[p] \in Nat
           /\ \A q \in Slots : calls[q].age \in Nat
           /\ \A t \in toks : t.who \in Managers /\ t.panel \in Panels /\ t.age \in Nat
<1>1. \A q \in Slots : calls[q].age \in Nat
  <2>1. PICK R : calls \in [Slots -> CallRecs(R)]
    BY DEF AccType, CallType
  <2> QED
    BY <2>1 DEF CallRecs
<1>2. \A t \in toks : t.who \in Managers /\ t.panel \in Panels /\ t.age \in Nat
  <2>1. PICK R : toks \subseteq TokRecs(R)
    BY DEF AccType, TokType
  <2> QED
    BY <2>1 DEF TokRecs
<1> QED
  BY <1>1, <1>2 DEF AccType

\* What a step does to the times since: what holds has none, and no other
\* grows but with a tick.
SinceKept ==
    /\ since' \in [Managers -> [Facts -> Nat]]
    /\ \A m \in Managers : \A f \in Facts : since'[m][f] <= since[m][f]
    /\ HoldsNow'

LEMMA Noted ==
    ASSUME AccType, NoteFacts
    PROVE  SinceKept
<1>1. \A m \in Managers : \A f \in Facts : since[m][f] \in Nat
  BY AccNats
<1>2. ASSUME NEW m \in Managers, NEW f \in Facts
      PROVE  /\ since'[m][f] \in Nat /\ since'[m][f] <= since[m][f]
             /\ Holds(m)[f]' => since'[m][f] = 0
  <2> DEFINE h == Holds(m)[f]'
  <2>1. since'[m][f] = IF h THEN 0 ELSE since[m][f]
    BY DEF NoteFacts
  <2> HIDE DEF h
  <2>2. CASE h
    BY <1>1, <2>1, <2>2
  <2>3. CASE ~h
    BY <1>1, <2>1, <2>3 DEF h
  <2> QED
    BY <2>2, <2>3
<1>3. since' \in [Managers -> [Facts -> Nat]]
  <2>1. since' = [m \in Managers |-> [f \in Facts |-> since'[m][f]]]
    BY DEF NoteFacts
  <2> QED
    BY <1>2, <2>1
<1>4. HoldsNow'
  BY <1>2 DEF HoldsNow
<1> QED
  BY <1>2, <1>3, <1>4 DEF SinceKept

LEMMA NothingNoted ==
    ASSUME AccInv, UNCHANGED <<mgrs, roles, since>>
    PROVE  SinceKept
<1>1. \A m \in Managers : Holds(m)' = Holds(m)
  BY DEF Holds, Known, RoleBase
<1>2. HoldsNow'
  BY <1>1 DEF AccInv, HoldsNow
<1>3. \A m \in Managers : \A f \in Facts : since[m][f] \in Nat
  BY AccNats DEF AccInv
<1> QED
  BY <1>2, <1>3 DEF AccInv, AccType, SinceKept

LEMMA CarriesKept ==
    ASSUME AccType, SinceKept, cut' = cut, NEW c, c.age \in Nat, Carries(c)
    PROVE  Carries(c)'
<1>1. \A m \in Managers : \A f \in Facts : since'[m][f] \in Nat /\ since[m][f] \in Nat /\ since'[m][f] <= since[m][f]
  BY AccNats DEF SinceKept
<1>2. ASSUME c.who \in Managers
      PROVE  \A f \in Facts : since[c.who][f] <= c.age => since'[c.who][f] <= c.age
  BY <1>1, <1>2
<1> QED
  BY <1>2 DEF Carries, Facts

LEMMA AttestsKept ==
    ASSUME AccType, SinceKept, cut' = cut, NEW t \in toks, Attests(t)
    PROVE  Attests(t)'
<1>1. \A m \in Managers : \A f \in Facts : since'[m][f] \in Nat /\ since[m][f] \in Nat /\ since'[m][f] <= since[m][f]
  BY AccNats DEF SinceKept
<1>2. t.who \in Managers /\ t.age + CallLife \in Nat
  BY AccNats, AccessAssumption
<1>3. \A f \in Facts : since[t.who][f] <= t.age + CallLife => since'[t.who][f] <= t.age + CallLife
  BY <1>1, <1>2
<1> QED
  BY <1>3 DEF Attests, Facts

\* A request that is not a login or a refresh carries nothing.
LEMMA CarriesNothing ==
    ASSUME NEW c, c.age <= CallLife, c.at \notin {"signed", "issue", "lookup", "token"}
    PROVE  Carries(c)'
BY DEF Carries

\* One request moves.
LEMMA OneCall ==
    ASSUME AccInv, SinceKept, cut' = cut, NEW q \in Slots, NEW R, NEW c \in CallRecs(R), Carries(c)',
           calls' = [calls EXCEPT ![q] = c]
    PROVE  CallType' /\ CallOK'
<1>1. PICK S : calls \in [Slots -> CallRecs(S)]
  BY DEF AccInv, AccType, CallType
<1>2. c \in CallRecs(R \union S) /\ CallRecs(S) \subseteq CallRecs(R \union S)
  BY DEF CallRecs
<1>3. CallType'
  <2> DEFINE T == CallRecs(R \union S)
  <2>1. calls \in [Slots -> T] /\ c \in T
    BY <1>1, <1>2
  <2> HIDE DEF T
  <2>2. calls' \in [Slots -> T]
    BY <2>1
  <2> QED
    BY <2>2 DEF CallType, T
<1>4. ASSUME NEW x \in Slots PROVE Carries(calls[x])'
  <2>1. calls'[x] = IF x = q THEN c ELSE calls[x]
    BY <1>1
  <2>2. CASE x = q
    <3>1. calls'[x] = c
      BY <2>1, <2>2
    <3> QED
      BY <3>1 DEF Carries
  <2>3. CASE x # q
    <3>1. PICK d : d = calls[x]
      OBVIOUS
    <3>2. Carries(d) /\ d.age \in Nat
      BY <3>1, AccNats DEF AccInv, CallOK
    <3>3. Carries(d)'
      BY <3>2, CarriesKept DEF AccInv
    <3>4. calls'[x] = d
      BY <2>1, <2>3, <3>1
    <3> QED
      BY <3>3, <3>4 DEF Carries
  <2> QED
    BY <2>2, <2>3
<1> QED
  BY <1>3, <1>4 DEF CallOK

LEMMA NoCallMoves ==
    ASSUME AccInv, SinceKept, cut' = cut, calls' = calls
    PROVE  CallType' /\ CallOK'
<1>1. CallType'
  BY DEF AccInv, AccType, CallType
<1>2. ASSUME NEW x \in Slots PROVE Carries(calls[x])'
  <2>1. PICK d : d = calls[x]
    OBVIOUS
  <2>2. Carries(d) /\ d.age \in Nat
    BY <2>1, AccNats DEF AccInv, CallOK
  <2>3. Carries(d)'
    BY <2>2, CarriesKept DEF AccInv
  <2> QED
    BY <2>1, <2>3 DEF Carries
<1> QED
  BY <1>1, <1>2 DEF CallOK

\* A request is answered, or moves to a step of an administrative request.
LEMMA CallEnds ==
    ASSUME AccInv, SinceKept, cut' = cut, NEW q \in Slots, Done(q)
    PROVE  CallType' /\ CallOK'
<1>1. NoCall \in CallRecs({"none", 0}) /\ NoCall.at = "idle" /\ NoCall.age = 0
  BY DEF NoCall, CallRecs, CallSteps
<1>2. Carries(NoCall)'
  BY <1>1, AccessAssumption, CarriesNothing
<1> QED
  BY <1>1, <1>2, OneCall DEF Done

LEMMA CallGoes ==
    ASSUME AccInv, SinceKept, cut' = cut, NEW q \in Slots, NEW at \in CallSteps,
           at \notin {"signed", "issue", "lookup", "token"}, Goto(q, at)
    PROVE  CallType' /\ CallOK'
<1>1. PICK R : calls \in [Slots -> CallRecs(R)]
  BY DEF AccInv, AccType, CallType
<1>2. PICK c : c = calls[q]
  OBVIOUS
<1>3. c \in CallRecs(R) /\ c.age <= CallLife
  BY <1>1, <1>2 DEF AccInv, CallOK, Carries
<1> DEFINE d == [c EXCEPT !.at = at]
<1>4. calls' = [calls EXCEPT ![q] = d]
  BY <1>2 DEF Goto
<1>5. d \in CallRecs(R) /\ d.at = at /\ d.age = c.age
  BY <1>3 DEF CallRecs
<1> HIDE DEF d
<1>6. Carries(d)'
  BY <1>3, <1>5, CarriesNothing
<1> QED
  BY <1>4, <1>5, <1>6, OneCall

\* A step that issues no token and is not a tick.
LEMMA AccKept ==
    ASSUME AccInv, SinceKept, cut' = cut, toks' = toks, PanelType', PanelOK', CallType', CallOK'
    PROVE  AccInv'
<1>1. AccType'
  BY DEF AccInv, AccType, TokType, SinceKept
<1>2. ASSUME NEW t \in toks PROVE Attests(t)'
  BY AttestsKept DEF AccInv, TokOK
<1>3. TokOK'
  BY <1>2 DEF TokOK
<1> QED
  BY <1>1, <1>3 DEF AccInv, SinceKept

\* Sessions that are only revoked or rotated.
LEMMA PanelsKept ==
    ASSUME AccInv, cut' = cut, NEW R, panels' \in [Panels -> PanelRecs(R)],
           \A p \in Panels : /\ panels'[p].st = "live" => panels[p].st = "live" /\ panels'[p].who = panels[p].who
                             /\ panels'[p].st # "revoked" => panels[p].st # "revoked"
    PROVE  PanelType' /\ PanelOK'
<1>1. PanelType'
  BY DEF PanelType
<1>2. PanelOK'
  BY DEF AccInv, PanelOK
<1> QED
  BY <1>1, <1>2

LEMMA NoPanelMoves ==
    ASSUME AccInv, cut' = cut, panels' = panels
    PROVE  PanelType' /\ PanelOK'
BY DEF AccInv, AccType, PanelType, PanelOK

LEMMA PanelRevoked ==
    ASSUME AccInv, cut' = cut, NEW z \in Panels, RevokeSession(z)
    PROVE  PanelType' /\ PanelOK'
<1>1. PICK R : panels \in [Panels -> PanelRecs(R)]
  BY DEF AccInv, AccType, PanelType
<1> DEFINE k == panels[z]
           u == [k EXCEPT !.st = IF k.st = "live" THEN "revoked" ELSE k.st]
           T == PanelRecs(R)
<1>2. k \in T
  BY <1>1
<1>3. panels' = [panels EXCEPT ![z] = u]
  BY DEF RevokeSession
<1>4. u \in T /\ u.st # "live" /\ u.who = k.who /\ (u.st # "revoked" => k.st # "revoked")
  <2> HIDE DEF k
  <2> QED
    BY <1>2 DEF PanelRecs
<1> HIDE DEF u, T
<1>5. panels' \in [Panels -> T]
  BY <1>1, <1>3, <1>4 DEF T
<1>6. ASSUME NEW p \in Panels
      PROVE  /\ panels'[p].st = "live" => panels[p].st = "live" /\ panels'[p].who = panels[p].who
             /\ panels'[p].st # "revoked" => panels[p].st # "revoked"
  <2>1. panels'[p] = IF p = z THEN u ELSE panels[p]
    BY <1>1, <1>3
  <2> QED
    BY <1>4, <2>1
<1> QED
  BY <1>5, <1>6, PanelsKept DEF T

LEMMA PanelRotated ==
    ASSUME AccInv, cut' = cut, NEW z \in Panels, RotateSession(z)
    PROVE  PanelType' /\ PanelOK'
<1>1. PICK R : panels \in [Panels -> PanelRecs(R)]
  BY DEF AccInv, AccType, PanelType
<1> DEFINE k == panels[z]
           u == [k EXCEPT !.turned = TRUE]
           T == PanelRecs(R)
<1>2. k \in T
  BY <1>1
<1>3. panels' = [panels EXCEPT ![z] = u]
  BY DEF RotateSession
<1>4. u \in T /\ u.st = k.st /\ u.who = k.who
  <2> HIDE DEF k
  <2> QED
    BY <1>2 DEF PanelRecs
<1> HIDE DEF u, T
<1>5. panels' \in [Panels -> T]
  BY <1>1, <1>3, <1>4 DEF T
<1>6. ASSUME NEW p \in Panels
      PROVE  /\ panels'[p].st = "live" => panels[p].st = "live" /\ panels'[p].who = panels[p].who
             /\ panels'[p].st # "revoked" => panels[p].st # "revoked"
  <2>1. panels'[p] = IF p = z THEN u ELSE panels[p]
    BY <1>1, <1>3
  <2> QED
    BY <1>4, <2>1
<1> QED
  BY <1>5, <1>6, PanelsKept DEF T

\* The sessions of a manager, but perhaps one, are revoked.
LEMMA PanelsRevoked ==
    ASSUME AccInv, cut' = cut, NEW Chosen,
           panels' = [p \in Panels |-> IF p \in Chosen THEN [panels[p] EXCEPT !.st = "revoked"] ELSE panels[p]]
    PROVE  PanelType' /\ PanelOK'
<1>1. PICK R : panels \in [Panels -> PanelRecs(R)]
  BY DEF AccInv, AccType, PanelType
<1>2. ASSUME NEW p \in Panels
      PROVE  /\ panels'[p] \in PanelRecs(R)
             /\ panels'[p].st = "live" => panels[p].st = "live" /\ panels'[p].who = panels[p].who
             /\ panels'[p].st # "revoked" => panels[p].st # "revoked"
  <2> DEFINE k == panels[p]
             u == [k EXCEPT !.st = "revoked"]
  <2>1. k \in PanelRecs(R)
    BY <1>1
  <2>2. u \in PanelRecs(R) /\ u.st = "revoked"
    <3> HIDE DEF k
    <3> QED
      BY <2>1 DEF PanelRecs
  <2>3. panels'[p] = IF p \in Chosen THEN u ELSE k
    OBVIOUS
  <2> HIDE DEF u
  <2> QED
    BY <2>1, <2>2, <2>3
<1> DEFINE T == PanelRecs(R)
<1>3. panels' \in [Panels -> T]
  <2>1. panels' = [p \in Panels |-> panels'[p]]
    OBVIOUS
  <2>2. \A p \in Panels : panels'[p] \in T
    BY <1>2
  <2> HIDE DEF T
  <2> QED
    BY <2>1, <2>2
<1> HIDE DEF T
<1> QED
  BY <1>2, <1>3, PanelsKept DEF T

\* What is read of a manager now.
LEMMA ReadNow ==
    ASSUME AccInv, NEW m \in Managers
    PROVE  /\ mgrs[m].st = "on" => Known(m) /\ since[m]["enabled"] = 0
           /\ Known(m) /\ (RoleBase(m) \in {"all", "edit"} \/ mgrs[m].over = "grant") => since[m]["granted"] = 0
           /\ Known(m) /\ (mgrs[m].over # "deny" \/ RoleBase(m) = "all") => since[m]["allowed"] = 0
           /\ Known(m) /\ mgrs[m].near => since[m]["near"] = 0
<1>1. \A f \in Facts : Holds(m)[f] => since[m][f] = 0
  BY DEF AccInv, HoldsNow
<1>2. Holds(m)["enabled"] = (mgrs[m].st = "on")
  BY DEF Holds, Facts
<1>3. Holds(m)["granted"] = (Known(m) /\ (RoleBase(m) \in {"all", "edit"} \/ mgrs[m].over = "grant"))
  BY DEF Holds, Facts
<1>4. Holds(m)["allowed"] = (Known(m) /\ (mgrs[m].over # "deny" \/ RoleBase(m) = "all"))
  BY DEF Holds, Facts
<1>5. Holds(m)["near"] = (Known(m) /\ mgrs[m].near)
  BY DEF Holds, Facts
<1>6. mgrs[m].st = "on" => Known(m)
  BY DEF Known
<1>7. {"enabled", "granted", "allowed", "near"} = Facts
  BY DEF Facts
<1> QED
  BY <1>1, <1>2, <1>3, <1>4, <1>5, <1>6, <1>7

\* A step of which requests, sessions and tokens know nothing.
LEMMA AccRests ==
    ASSUME AccInv, SinceKept, UNCHANGED <<panels, calls, toks, cut>>
    PROVE  AccInv'
BY NoPanelMoves, NoCallMoves, AccKept

LEMMA AccQuiet ==
    ASSUME AccInv, NEW m \in Managers,
           LoginFails(m) \/ CreateFirstAdmin(m) \/ ResetPasswordByUsername(m) \/ EnrollTOTPHandler(m) \/ EnrolmentGrant(m)
    PROVE  AccInv'
<1>1. UNCHANGED <<panels, calls, toks, cut>>
  BY DEF LoginFails, CreateFirstAdmin, ResetPasswordByUsername, EnrollTOTPHandler, EnrolmentGrant
<1>2. NoteFacts \/ UNCHANGED <<mgrs, roles, since>>
  BY DEF LoginFails, CreateFirstAdmin, ResetPasswordByUsername, EnrollTOTPHandler, EnrolmentGrant
<1> QED
  BY <1>1, <1>2, Noted, NothingNoted, AccRests DEF AccInv

LEMMA AccEdits ==
    ASSUME AccInv, NEW t \in toks, NEW m \in Managers, NEW r, NEW o, NEW h,
           \/ CreateManagerHandler(t, m, r) \/ PutManagerOverridesHandler(t, m, o)
           \/ PutManagerAllowlistHandler(t, m) \/ UnlockManagerHandler(t, m)
    PROVE  AccInv'
<1>1. UNCHANGED <<panels, calls, toks, cut>>
  BY DEF CreateManagerHandler, PutManagerOverridesHandler, PutManagerAllowlistHandler, UnlockManagerHandler
<1>2. NoteFacts \/ UNCHANGED <<mgrs, roles, since>>
  BY DEF CreateManagerHandler, PutManagerOverridesHandler, PutManagerAllowlistHandler, UnlockManagerHandler
<1> QED
  BY <1>1, <1>2, Noted, NothingNoted, AccRests DEF AccInv

LEMMA AccRoleEdit ==
    ASSUME AccInv, NEW t \in toks, NEW r, NEW h, UpdateRoleHandler(t, r, h)
    PROVE  AccInv'
<1>1. UNCHANGED <<panels, calls, toks, cut>> /\ NoteFacts
  BY DEF UpdateRoleHandler
<1> QED
  BY <1>1, Noted, AccRests DEF AccInv

LEMMA AccRevokes ==
    ASSUME AccInv, NEW p \in Panels, RevokeSession(p), UNCHANGED <<mgrs, roles, since, calls, toks, cut>>
    PROVE  AccInv'
BY NothingNoted, PanelRevoked, NoCallMoves, AccKept

\* A request of the office begins.
LEMMA DeskCall ==
    ASSUME AccInv, SinceKept, UNCHANGED <<panels, toks, cut>>, NEW q \in Slots, NEW R, NEW c \in CallRecs(R),
           c.at \notin {"signed", "issue", "lookup", "token"}, c.age = 0, calls' = [calls EXCEPT ![q] = c]
    PROVE  AccInv'
<1>1. Carries(c)'
  BY AccessAssumption, CarriesNothing
<1> QED
  BY <1>1, OneCall, NoPanelMoves, AccKept

LEMMA AccDeskBegins ==
    ASSUME AccInv, NEW q \in Slots, NEW t \in toks, NEW m \in Managers, NEW w,
           UpdateManagerHandler(q, t, m, w) \/ DeleteManagerHandler(q, t, m)
    PROVE  AccInv'
<1>1. UNCHANGED <<mgrs, roles, since, panels, toks, cut>>
  BY DEF UpdateManagerHandler, DeleteManagerHandler
<1>2. SinceKept
  BY <1>1, NothingNoted
<1>3. CASE UpdateManagerHandler(q, t, m, w)
  <2>1. PICK role : role = mgrs[m].role
    OBVIOUS
  <2>2. PICK keep : keep = IF t.who = m THEN t.panel ELSE "none"
    OBVIOUS
  <2> DEFINE c == [NoCall EXCEPT !.at = "rolescope", !.who = m, !.role = role, !.want = w, !.keep = keep]
             R == {m, "none", 0, role, w, keep}
  <2>3. calls' = [calls EXCEPT ![q] = c]
    BY <1>3, <2>1, <2>2 DEF UpdateManagerHandler
  <2>4. c \in CallRecs(R) /\ c.at = "rolescope" /\ c.age = 0
    BY DEF NoCall, CallRecs, CallSteps
  <2> HIDE DEF c, R
  <2> QED
    BY <1>1, <1>2, <2>3, <2>4, DeskCall
<1>4. CASE DeleteManagerHandler(q, t, m)
  <2> DEFINE c == [NoCall EXCEPT !.at = "delete", !.who = m]
             R == {m, "none", 0}
  <2>1. calls' = [calls EXCEPT ![q] = c]
    BY <1>4 DEF DeleteManagerHandler
  <2>2. c \in CallRecs(R) /\ c.at = "delete" /\ c.age = 0
    BY DEF NoCall, CallRecs, CallSteps
  <2> HIDE DEF c, R
  <2> QED
    BY <1>1, <1>2, <2>1, <2>2, DeskCall
<1> QED
  BY <1>3, <1>4

LEMMA AccVerifies ==
    ASSUME AccInv, NEW q \in Slots, NEW m \in Managers, NEW p, VerifyTOTPHandler(q, m, p)
    PROVE  AccInv'
<1> DEFINE c == [NoCall EXCEPT !.at = "activate", !.who = m, !.keep = p]
           R == {m, "none", 0, p}
<1>1. UNCHANGED <<mgrs, roles, since, panels, toks, cut>> /\ calls' = [calls EXCEPT ![q] = c]
  BY DEF VerifyTOTPHandler
<1>2. c \in CallRecs(R) /\ c.at = "activate" /\ c.age = 0
  BY DEF NoCall, CallRecs, CallSteps
<1> HIDE DEF c, R
<1> QED
  BY <1>1, <1>2, NothingNoted, DeskCall

LEMMA AccTOTPOff ==
    ASSUME AccInv, NEW q \in Slots, NEW m, NEW keep, DisableTOTP(q, m, keep), NoteFacts, UNCHANGED <<panels, toks, cut>>
    PROVE  AccInv'
<1> DEFINE c == [NoCall EXCEPT !.at = "revoke", !.who = m, !.keep = keep]
           R == {m, "none", 0, keep}
<1>1. calls' = [calls EXCEPT ![q] = c]
  BY DEF DisableTOTP
<1>2. c \in CallRecs(R) /\ c.at = "revoke" /\ c.age = 0
  BY DEF NoCall, CallRecs, CallSteps
<1> HIDE DEF c, R
<1>3. SinceKept
  BY Noted DEF AccInv
<1> QED
  BY <1>1, <1>2, <1>3, DeskCall


LEMMA AccRoleScope ==
    ASSUME AccInv, NEW q \in Slots, UpdateManagerRoleScope(q)
    PROVE  AccInv'
<1>1. SinceKept /\ UNCHANGED <<panels, toks, cut>>
  BY Noted DEF AccInv, UpdateManagerRoleScope
<1>2. \/ Done(q)
      \/ \E at \in {"hash", "flag"} : Goto(q, at)
  <2>1. CASE calls[q].want = "password"
    BY <2>1 DEF UpdateManagerRoleScope
  <2>2. CASE calls[q].want # "password"
    BY <2>2 DEF UpdateManagerRoleScope
  <2> QED
    BY <2>1, <2>2
<1>3. {"hash", "flag"} \subseteq CallSteps
  BY DEF CallSteps
<1>4. CallType' /\ CallOK'
  BY <1>1, <1>2, <1>3, CallEnds, CallGoes
<1> QED
  BY <1>1, <1>4, NoPanelMoves, AccKept

LEMMA AccFlag ==
    ASSUME AccInv, NEW q \in Slots, SetManagerDisabled(q)
    PROVE  AccInv'
<1>1. SinceKept /\ UNCHANGED <<panels, toks, cut>>
  BY Noted DEF AccInv, SetManagerDisabled
<1>2. CallType' /\ CallOK'
  <2>1. CASE Done(q)
    BY <1>1, <2>1, CallEnds
  <2>2. CASE calls' = [calls EXCEPT ![q].at = "revoke", ![q].keep = "none"]
    <3>1. PICK R : calls \in [Slots -> CallRecs(R)]
      BY DEF AccInv, AccType, CallType
    <3>2. PICK c : c = calls[q]
      OBVIOUS
    <3>3. c \in CallRecs(R) /\ c.age <= CallLife
      BY <3>1, <3>2 DEF AccInv, CallOK, Carries
    <3> DEFINE u == [c EXCEPT !.at = "revoke"]
               d == [u EXCEPT !.keep = "none"]
               S == R \union {"none"}
    <3>4. calls' = [calls EXCEPT ![q] = d]
      BY <2>2, <3>1, <3>2, <3>3 DEF CallRecs
    <3>5. u \in CallRecs(R) /\ u.at = "revoke" /\ u.age = c.age
      BY <3>3 DEF CallRecs, CallSteps
    <3> HIDE DEF u
    <3>6. d \in CallRecs(S) /\ d.at = "revoke" /\ d.age = c.age
      BY <3>5 DEF CallRecs
    <3> HIDE DEF d, S
    <3>7. Carries(d)'
      BY <3>3, <3>6, CarriesNothing
    <3> QED
      BY <1>1, <3>4, <3>6, <3>7, OneCall
  <2> QED
    BY <2>1, <2>2 DEF SetManagerDisabled
<1> QED
  BY <1>1, <1>2, NoPanelMoves, AccKept

LEMMA AccHash ==
    ASSUME AccInv, NEW q \in Slots, UpdatePasswordHash(q)
    PROVE  AccInv'
<1>1. SinceKept /\ UNCHANGED <<panels, toks, cut>> /\ Goto(q, "revoke")
  BY Noted DEF AccInv, UpdatePasswordHash
<1>2. "revoke" \in CallSteps
  BY DEF CallSteps
<1> QED
  BY <1>1, <1>2, CallGoes, NoPanelMoves, AccKept

LEMMA PanelsOfRevoked ==
    ASSUME AccInv, cut' = cut, NEW m, NEW keep, RevokeSessionsOf(m, keep)
    PROVE  PanelType' /\ PanelOK'
<1>1. PICK Chosen : Chosen = {p \in Panels : panels[p].who = m /\ panels[p].st = "live" /\ p # keep}
  OBVIOUS
<1>2. panels' = [p \in Panels |-> IF p \in Chosen THEN [panels[p] EXCEPT !.st = "revoked"] ELSE panels[p]]
  BY <1>1 DEF RevokeSessionsOf
<1> QED
  BY <1>2, PanelsRevoked

LEMMA AccRevokeOthers ==
    ASSUME AccInv, NEW q \in Slots, RevokeOtherSessions(q)
    PROVE  AccInv'
<1>1. UNCHANGED <<mgrs, roles, since, toks, cut>> /\ Done(q)
  BY DEF RevokeOtherSessions
<1>2. PICK m, keep : RevokeSessionsOf(m, keep)
  <2>1. PICK m : m = calls[q].who
    OBVIOUS
  <2>2. PICK keep : keep = calls[q].keep
    OBVIOUS
  <2>3. RevokeSessionsOf(m, keep)
    BY <2>1, <2>2 DEF RevokeOtherSessions, RevokeSessionsOf
  <2> QED
    BY <2>3
<1> QED
  BY <1>1, <1>2, NothingNoted, CallEnds, PanelsOfRevoked, AccKept

LEMMA AccDelete ==
    ASSUME AccInv, NEW q \in Slots, NEW h, DeleteManager(q, h)
    PROVE  AccInv'
<1>1. SinceKept /\ UNCHANGED <<toks, cut>> /\ Done(q)
  BY Noted DEF AccInv, DeleteManager
<1>2. PICK m : m = calls[q].who
  OBVIOUS
<1>3. PICK Chosen : Chosen = {p \in Panels : panels[p].who = m}
  OBVIOUS
<1>4. \/ panels' = panels
      \/ panels' = [p \in Panels |-> IF p \in Chosen THEN [panels[p] EXCEPT !.st = "revoked"] ELSE panels[p]]
  BY <1>2, <1>3 DEF DeleteManager
<1>5. PanelType' /\ PanelOK'
  BY <1>1, <1>4, NoPanelMoves, PanelsRevoked
<1> QED
  BY <1>1, <1>5, CallEnds, AccKept

LEMMA AccActivate ==
    ASSUME AccInv, NEW q \in Slots, ActivatePendingSecret(q)
    PROVE  AccInv'
<1>1. SinceKept /\ UNCHANGED <<toks, cut>> /\ Done(q)
  BY Noted DEF AccInv, ActivatePendingSecret
<1>2. PICK m : m = calls[q].who
  OBVIOUS
<1>3. PICK keep : keep = calls[q].keep
  OBVIOUS
<1>4. panels' = panels \/ RevokeSessionsOf(m, keep)
  BY <1>2, <1>3 DEF ActivatePendingSecret, RevokeSessionsOf
<1>5. PanelType' /\ PanelOK'
  BY <1>1, <1>4, NoPanelMoves, PanelsOfRevoked
<1> QED
  BY <1>1, <1>5, CallEnds, AccKept

\* A login begins: what it signs with holds now.
LEMMA AccLogin ==
    ASSUME AccInv, NEW q \in Slots, NEW m \in Managers, LoginHandler(q, m)
    PROVE  AccInv'
<1>1. UNCHANGED <<mgrs, roles, since, panels, toks, cut>> /\ mgrs[m].st = "on"
  BY DEF LoginHandler
<1>2. SinceKept
  BY <1>1, NothingNoted
<1>3. PICK pwd : pwd = mgrs[m].pwd
  OBVIOUS
<1> DEFINE c == [NoCall EXCEPT !.at = "signed", !.who = m, !.pwd = pwd]
           R == {m, "none", 0, pwd}
<1>4. calls' = [calls EXCEPT ![q] = c]
  BY <1>3 DEF LoginHandler
<1>5. c \in CallRecs(R) /\ c.at = "signed" /\ c.who = m /\ c.age = 0
  BY DEF NoCall, CallRecs, CallSteps
<1> HIDE DEF c, R
<1>6. since'[m]["enabled"] = 0
  BY <1>1, ReadNow
<1>7. Carries(c)'
  BY <1>5, <1>6, AccessAssumption DEF Carries
<1> QED
  BY <1>1, <1>2, <1>4, <1>5, <1>7, OneCall, NoPanelMoves, AccKept

\* A refresh begins: its session is live.
LEMMA AccRefresh ==
    ASSUME AccInv, NEW q \in Slots, NEW p \in Panels, RefreshHandler(q, p)
    PROVE  AccInv'
<1>1. UNCHANGED <<mgrs, roles, since, toks, cut>> /\ RotateSession(p) /\ panels[p].st = "live"
  BY DEF RefreshHandler, RotateSession
<1>2. SinceKept
  BY <1>1, NothingNoted
<1>3. PICK m : m = panels[p].who
  OBVIOUS
<1>4. m \in Managers /\ cut'[p] = 0
  BY <1>1, <1>3 DEF AccInv, PanelOK
<1> DEFINE c == [NoCall EXCEPT !.at = "lookup", !.who = m, !.panel = p]
           R == {m, "none", 0, p}
<1>5. calls' = [calls EXCEPT ![q] = c]
  BY <1>3 DEF RefreshHandler
<1>6. c \in CallRecs(R) /\ c.at = "lookup" /\ c.who = m /\ c.panel = p /\ c.age = 0
  BY DEF NoCall, CallRecs, CallSteps
<1> HIDE DEF c, R
<1>7. Carries(c)'
  BY <1>4, <1>6, AccessAssumption DEF Carries
<1> QED
  BY <1>1, <1>2, <1>5, <1>6, <1>7, OneCall, PanelRotated, AccKept

\* A login or a refresh reads the role's permissions.
LEMMA BaseRead ==
    ASSUME AccInv, SinceKept, cut' = cut, NEW q \in Slots, NEW m \in Managers, m = calls[q].who,
           NEW at \in {"issue", "token"}, NEW b,
           \/ at = "issue" /\ calls[q].at = "signed"
           \/ at = "token" /\ calls[q].at = "lookup" /\ mgrs[m].st = "on",
           b \in {"all", "edit"} => Known(m) /\ RoleBase(m) = b,
           calls' = [calls EXCEPT ![q].at = at, ![q].base = b]
    PROVE  CallType' /\ CallOK'
<1>1. PICK R : calls \in [Slots -> CallRecs(R)]
  BY DEF AccInv, AccType, CallType
<1>2. PICK c : c = calls[q]
  OBVIOUS
<1>3. c \in CallRecs(R) /\ Carries(c) /\ c.age \in Nat
  BY <1>1, <1>2 DEF AccInv, CallOK, CallRecs
<1> DEFINE u == [c EXCEPT !.at = at]
           d == [u EXCEPT !.base = b]
           S == R \union {b}
<1>4. calls' = [calls EXCEPT ![q] = d]
  BY <1>1, <1>2, <1>3 DEF CallRecs
<1>5. u \in CallRecs(R) /\ u.at = at /\ u.age = c.age /\ u.who = c.who /\ u.panel = c.panel
  BY <1>3 DEF CallRecs, CallSteps
<1> HIDE DEF u
<1>6. d \in CallRecs(S) /\ d.at = at /\ d.age = c.age /\ d.who = c.who /\ d.panel = c.panel /\ d.base = b
  BY <1>5 DEF CallRecs
<1> HIDE DEF d, S
<1>7. \A f \in Facts : since[m][f] \in Nat /\ since'[m][f] \in Nat /\ since'[m][f] <= since[m][f]
  BY AccNats DEF AccInv, SinceKept
<1>8. /\ since[m]["enabled"] <= c.age
      /\ b \in {"all", "edit"} => since[m]["granted"] = 0
      /\ b = "all" => since[m]["allowed"] = 0
  <2>1. b \in {"all", "edit"} => since[m]["granted"] = 0
    BY ReadNow
  <2>2. b = "all" => since[m]["allowed"] = 0
    BY ReadNow
  <2>3. CASE calls[q].at = "signed"
    BY <1>2, <1>3, <2>1, <2>2, <2>3 DEF Carries
  <2>4. CASE mgrs[m].st = "on"
    <3>1. since[m]["enabled"] = 0
      BY <2>4, ReadNow
    <3> QED
      BY <1>3, <2>1, <2>2, <3>1
  <2> QED
    BY <2>3, <2>4
<1>9. /\ since'[m]["enabled"] <= c.age
      /\ b \in {"all", "edit"} => since'[m]["granted"] <= c.age
      /\ b = "all" => since'[m]["allowed"] <= c.age
  BY <1>3, <1>7, <1>8 DEF Facts
<1>10. Carries(d)'
  <2>1. d.at = "token" => d.panel \in Panels /\ cut'[d.panel] <= d.age
    BY <1>2, <1>3, <1>6 DEF Carries
  <2>2. d.age <= CallLife /\ d.who = m /\ d.at \in {"issue", "token"}
    BY <1>2, <1>3, <1>6 DEF Carries
  <2> QED
    BY <1>6, <1>9, <2>1, <2>2 DEF Carries
<1> QED
  BY <1>4, <1>6, <1>10, OneCall

LEMMA AccBegin ==
    ASSUME AccInv, NEW q \in Slots, NEW up, BeginSession(q, up)
    PROVE  AccInv'
<1>1. SinceKept /\ UNCHANGED <<panels, toks, cut>> /\ calls[q].at = "signed"
  BY Noted DEF AccInv, BeginSession
<1>2. PICK m : m = calls[q].who
  OBVIOUS
<1>3. m \in Managers
  BY <1>1, <1>2 DEF AccInv, CallOK, Carries
<1>4. PICK b : b = IF Known(m) THEN RoleBase(m) ELSE "none"
  OBVIOUS
<1>5. calls' = [calls EXCEPT ![q].at = "issue", ![q].base = b]
  BY <1>2, <1>4 DEF BeginSession
<1>6. b \in {"all", "edit"} => Known(m) /\ RoleBase(m) = b
  BY <1>4
<1> QED
  BY <1>1, <1>2, <1>3, <1>5, <1>6, BaseRead, NoPanelMoves, AccKept

LEMMA AccLookup ==
    ASSUME AccInv, NEW q \in Slots, RefreshLookup(q)
    PROVE  AccInv'
<1>1. UNCHANGED <<mgrs, roles, since, panels, toks, cut>> /\ calls[q].at = "lookup"
  BY DEF RefreshLookup
<1>2. SinceKept
  BY <1>1, NothingNoted
<1>3. PICK m : m = calls[q].who
  OBVIOUS
<1>4. m \in Managers
  BY <1>1, <1>3 DEF AccInv, CallOK, Carries
<1>5. PICK b : b = RoleBase(m)
  OBVIOUS
<1>6. CASE mgrs[m].st = "on"
  <2>1. calls' = [calls EXCEPT ![q].at = "token", ![q].base = b]
    BY <1>3, <1>5, <1>6 DEF RefreshLookup
  <2>2. b \in {"all", "edit"} => Known(m) /\ RoleBase(m) = b
    BY <1>4, <1>5, <1>6, ReadNow
  <2> QED
    BY <1>1, <1>2, <1>3, <1>4, <1>6, <2>1, <2>2, BaseRead, NoPanelMoves, AccKept
<1>7. CASE mgrs[m].st # "on"
  <2>1. Done(q)
    BY <1>3, <1>7 DEF RefreshLookup
  <2> QED
    BY <1>1, <1>2, <2>1, CallEnds, NoPanelMoves, AccKept
<1> QED
  BY <1>6, <1>7

LEMMA AccIssueFails ==
    ASSUME AccInv, NEW q \in Slots, IssueFails(q)
    PROVE  AccInv'
<1>1. UNCHANGED <<mgrs, roles, since, panels, toks, cut>> /\ Done(q)
  BY DEF IssueFails
<1> QED
  BY <1>1, NothingNoted, CallEnds, NoPanelMoves, AccKept

\* A token is issued from what its request read, and from what holds now.
LEMMA TokenIssued ==
    ASSUME AccInv, UNCHANGED <<mgrs, roles, since, cut>>, NEW q \in Slots, NEW m \in Managers, NEW p \in Panels,
           m = calls[q].who, calls[q].at \in {"issue", "token"}, Known(m), cut[p] <= calls[q].age,
           IssueAccess(m, p, CanEdit(calls[q].base, mgrs[m].over), mgrs[m].near),
           PanelType', PanelOK', CallType', CallOK'
    PROVE  AccInv'
<1>1. PICK c : c = calls[q]
  OBVIOUS
<1>2. Carries(c) /\ c.age \in Nat /\ c.at \in {"issue", "token"} /\ c.who = m
  BY <1>1, AccNats DEF AccInv, CallOK
<1>3. PICK adm : adm = CanEdit(c.base, mgrs[m].over)
  OBVIOUS
<1>4. PICK near : near = mgrs[m].near
  OBVIOUS
<1> DEFINE t == [who |-> m, panel |-> p, adm |-> adm, near |-> near, age |-> 0]
<1>5. toks' = toks \union {t}
  BY <1>1, <1>3, <1>4 DEF IssueAccess
<1>6. t.who = m /\ t.panel = p /\ t.adm = adm /\ t.near = near /\ t.age = 0
  OBVIOUS
<1>7. PICK R : toks \subseteq TokRecs(R)
  BY DEF AccInv, AccType, TokType
<1>8. TokType'
  <2> DEFINE S == R \union {adm, near}
  <2>1. t \in TokRecs(S)
    BY DEF TokRecs
  <2>2. TokRecs(R) \subseteq TokRecs(S)
    BY DEF TokRecs
  <2> HIDE DEF S, t
  <2>3. toks' \subseteq TokRecs(S)
    BY <1>5, <1>7, <2>1, <2>2
  <2> QED
    BY <2>3 DEF TokType
<1> HIDE DEF t
<1>9. SinceKept
  BY NothingNoted
<1>10. \A f \in Facts : since[m][f] \in Nat
  BY AccNats DEF AccInv
<1>11. c.age <= CallLife /\ since[m]["enabled"] <= CallLife /\ cut[p] <= CallLife
  <2>1. c.age <= CallLife /\ since[m]["enabled"] <= c.age
    BY <1>2 DEF Carries
  <2>2. cut[p] \in Nat /\ cut[p] <= c.age
    BY <1>1, AccNats DEF AccInv
  <2> QED
    BY <1>2, <1>10, <2>1, <2>2, AccessAssumption DEF Facts
<1>12. adm => since[m]["granted"] <= CallLife
  <2> SUFFICES ASSUME adm PROVE since[m]["granted"] <= CallLife
    OBVIOUS
  <2>1. c.base \in {"all", "edit"} \/ mgrs[m].over = "grant"
    BY <1>3 DEF CanEdit
  <2>2. CASE c.base \in {"all", "edit"}
    <3>1. since[m]["granted"] <= c.age
      BY <1>2, <2>2 DEF Carries
    <3> QED
      BY <1>2, <1>10, <1>11, <3>1, AccessAssumption DEF Facts
  <2>3. CASE mgrs[m].over = "grant"
    <3>1. since[m]["granted"] = 0
      BY <2>3, ReadNow
    <3> QED
      BY <3>1, AccessAssumption
  <2> QED
    BY <2>1, <2>2, <2>3
<1>13. adm => since[m]["allowed"] <= CallLife
  <2> SUFFICES ASSUME adm PROVE since[m]["allowed"] <= CallLife
    OBVIOUS
  <2>1. c.base = "all" \/ mgrs[m].over # "deny"
    BY <1>3 DEF CanEdit
  <2>2. CASE c.base = "all"
    <3>1. since[m]["allowed"] <= c.age
      BY <1>2, <2>2 DEF Carries
    <3> QED
      BY <1>2, <1>10, <1>11, <3>1, AccessAssumption DEF Facts
  <2>3. CASE mgrs[m].over # "deny"
    <3>1. since[m]["allowed"] = 0
      BY <2>3, ReadNow
    <3> QED
      BY <3>1, AccessAssumption
  <2> QED
    BY <2>1, <2>2, <2>3
<1>14. near => since[m]["near"] <= CallLife
  <2>1. near => since[m]["near"] = 0
    BY <1>4, ReadNow
  <2> QED
    BY <2>1, AccessAssumption
<1>15. Attests(t)'
  BY <1>6, <1>11, <1>12, <1>13, <1>14, AccessAssumption DEF Attests
<1>16. \A x \in toks : Attests(x)'
  BY <1>9, AttestsKept DEF AccInv, TokOK
<1>17. TokOK'
  BY <1>5, <1>15, <1>16 DEF TokOK
<1>18. AccType'
  BY <1>8, <1>9 DEF AccInv, AccType, SinceKept
<1> QED
  BY <1>9, <1>17, <1>18 DEF AccInv, SinceKept

LEMMA AccRefreshIssue ==
    ASSUME AccInv, NEW q \in Slots, RefreshIssue(q)
    PROVE  AccInv'
<1>1. UNCHANGED <<mgrs, roles, since, panels, cut>> /\ calls[q].at = "token" /\ Done(q)
  BY DEF RefreshIssue
<1>2. PICK m, p : m = calls[q].who /\ p = calls[q].panel
  OBVIOUS
<1>3. m \in Managers /\ p \in Panels /\ cut[p] <= calls[q].age
  BY <1>1, <1>2 DEF AccInv, CallOK, Carries
<1>4. Known(m) /\ IssueAccess(m, p, CanEdit(calls[q].base, mgrs[m].over), mgrs[m].near)
  BY <1>2 DEF RefreshIssue
<1>5. PanelType' /\ PanelOK' /\ CallType' /\ CallOK'
  BY <1>1, NothingNoted, CallEnds, NoPanelMoves
<1> QED
  BY <1>1, <1>2, <1>3, <1>4, <1>5, TokenIssued

LEMMA AccIssueSession ==
    ASSUME AccInv, NEW q \in Slots, NEW p \in Panels, IssueSession(q, p)
    PROVE  AccInv'
<1>1. UNCHANGED <<mgrs, roles, since, cut>> /\ calls[q].at = "issue" /\ Done(q)
  BY DEF IssueSession
<1>2. PICK m, pwd : m = calls[q].who /\ pwd = calls[q].pwd
  OBVIOUS
<1>3. m \in Managers /\ calls[q].age \in Nat
  BY <1>1, <1>2, AccNats DEF AccInv, CallOK, Carries
<1>4. Known(m) /\ IssueAccess(m, p, CanEdit(calls[q].base, mgrs[m].over), mgrs[m].near)
  BY <1>2 DEF IssueSession
<1> DEFINE n == [st |-> "live", who |-> m, pwd |-> pwd, turned |-> FALSE]
<1>5. panels[p].st = "none" /\ panels' = [panels EXCEPT ![p] = n]
  BY <1>2 DEF IssueSession, CreateSession
<1>6. cut[p] = 0 /\ cut[p] <= calls[q].age
  BY <1>3, <1>5 DEF AccInv, PanelOK
<1>7. PICK R : panels \in [Panels -> PanelRecs(R)]
  BY DEF AccInv, AccType, PanelType
<1>8. PanelType'
  <2> DEFINE T == PanelRecs(R \union {m, pwd})
  <2>1. n \in T /\ panels \in [Panels -> T]
    <3>1. n \in T
      BY DEF PanelRecs
    <3>2. PanelRecs(R) \subseteq T
      BY DEF PanelRecs
    <3> HIDE DEF n, T
    <3> QED
      BY <1>7, <3>1, <3>2
  <2> HIDE DEF n, T
  <2>2. panels' \in [Panels -> T]
    BY <1>5, <2>1
  <2> QED
    BY <2>2 DEF T, PanelType
<1>9. PanelOK'
  <2> SUFFICES ASSUME NEW x \in Panels
               PROVE  /\ panels'[x].st = "live" => panels'[x].who \in Managers
                      /\ panels'[x].st # "revoked" => cut'[x] = 0
    BY DEF PanelOK
  <2>1. n.who = m
    OBVIOUS
  <2> HIDE DEF n
  <2>2. panels'[x] = IF x = p THEN n ELSE panels[x]
    BY <1>5, <1>7
  <2> QED
    BY <1>1, <1>3, <1>6, <2>1, <2>2 DEF AccInv, PanelOK
<1>10. CallType' /\ CallOK'
  BY <1>1, NothingNoted, CallEnds
<1> QED
  BY <1>1, <1>2, <1>3, <1>4, <1>6, <1>8, <1>9, <1>10, TokenIssued

\* A tick makes nothing more than one tick older.
LEMMA TickAges ==
    ASSUME AccInv, AccTick
    PROVE  /\ since' \in [Managers -> [Facts -> Nat]] /\ cut' \in [Panels -> Nat]
           /\ \A m \in Managers : \A f \in Facts : since'[m][f] <= since[m][f] + 1
           /\ \A p \in Panels : cut'[p] <= cut[p] + 1
           /\ HoldsNow' /\ PanelOK'
<1>1. /\ \A m \in Managers : \A f \in Facts : since[m][f] \in Nat
      /\ \A p \in Panels : cut[p] \in Nat
  BY AccNats DEF AccInv
<1>2. \A n \in Nat : Later(n) \in Nat /\ Later(n) <= n + 1
  BY AccessAssumption DEF Later, SLA
<1>3. ASSUME NEW m \in Managers, NEW f \in Facts
      PROVE  /\ since'[m][f] \in Nat /\ since'[m][f] <= since[m][f] + 1
             /\ Holds(m)[f] => since'[m][f] = 0
  <2> DEFINE h == Holds(m)[f]
             n == since[m][f]
  <2>1. since'[m][f] = IF h THEN 0 ELSE Later(n)
    BY DEF AccTick
  <2>2. n \in Nat /\ Later(n) \in Nat /\ Later(n) <= n + 1
    BY <1>1, <1>2
  <2> HIDE DEF h, n
  <2>3. CASE h
    BY <2>1, <2>2, <2>3 DEF n
  <2>4. CASE ~h
    BY <2>1, <2>2, <2>4 DEF h, n
  <2> QED
    BY <2>3, <2>4
<1>4. since' \in [Managers -> [Facts -> Nat]]
  <2>1. since' = [m \in Managers |-> [f \in Facts |-> since'[m][f]]]
    BY DEF AccTick
  <2> QED
    BY <1>3, <2>1
<1>5. HoldsNow'
  <2>1. \A m \in Managers : Holds(m)' = Holds(m)
    BY DEF AccTick, Holds, Known, RoleBase
  <2> QED
    BY <1>3, <2>1 DEF HoldsNow
<1>6. ASSUME NEW p \in Panels
      PROVE  /\ cut'[p] \in Nat /\ cut'[p] <= cut[p] + 1
             /\ panels[p].st # "revoked" => cut'[p] = 0
  <2>1. cut'[p] = IF panels[p].st = "revoked" THEN Later(cut[p]) ELSE 0
    BY DEF AccTick
  <2> QED
    BY <1>1, <1>2, <2>1
<1>7. cut' \in [Panels -> Nat]
  <2>1. cut' = [p \in Panels |-> cut'[p]]
    BY DEF AccTick
  <2> QED
    BY <1>6, <2>1
<1>8. PanelOK'
  BY <1>6 DEF AccInv, PanelOK, AccTick
<1> QED
  BY <1>3, <1>4, <1>5, <1>6, <1>7, <1>8

LEMMA TickCalls ==
    ASSUME AccInv, AccTick
    PROVE  CallType' /\ CallOK'
<1>1. PICK R : calls \in [Slots -> CallRecs(R)]
  BY DEF AccInv, AccType, CallType
<1>2. NoCall \in CallRecs({"none", 0}) /\ NoCall.at = "idle" /\ NoCall.age = 0
  BY DEF NoCall, CallRecs, CallSteps
<1> DEFINE S == R \union {"none", 0}
           T == CallRecs(S)
<1>3. CallRecs(R) \subseteq T /\ CallRecs({"none", 0}) \subseteq T
  BY DEF CallRecs
<1>4. ASSUME NEW q \in Slots
      PROVE  calls'[q] \in T /\ Carries(calls[q])'
  <2>1. CASE calls[q].at = "idle"
    <3>1. calls'[q] = NoCall
      BY <2>1 DEF AccTick
    <3>2. Carries(NoCall)'
      BY <1>2, AccessAssumption, CarriesNothing
    <3> QED
      BY <1>2, <1>3, <3>1, <3>2 DEF Carries
  <2>2. CASE calls[q].at # "idle"
    <3>1. PICK c : c = calls[q]
      OBVIOUS
    <3>2. c \in CallRecs(R) /\ Carries(c) /\ c.age \in Nat /\ c.age < CallLife
      BY <1>1, <2>2, <3>1, AccNats DEF AccInv, CallOK, AccTick
    <3> DEFINE d == [c EXCEPT !.age = c.age + 1]
    <3>3. calls'[q] = d
      BY <2>2, <3>1 DEF AccTick
    <3>4. /\ d \in CallRecs(R) /\ d.at = c.at /\ d.who = c.who /\ d.panel = c.panel /\ d.base = c.base
          /\ d.age = c.age + 1
      BY <3>2 DEF CallRecs
    <3> HIDE DEF d, T
    <3>5. \A m \in Managers : \A f \in Facts : since[m][f] <= c.age => since'[m][f] <= d.age
      <4>1. ASSUME NEW m \in Managers, NEW f \in Facts, since[m][f] <= c.age PROVE since'[m][f] <= d.age
        <5>1. since[m][f] \in Nat /\ since'[m][f] \in Nat /\ since'[m][f] <= since[m][f] + 1
          BY AccNats, TickAges DEF AccInv
        <5> QED
          BY <3>2, <3>4, <4>1, <5>1
      <4> QED
        BY <4>1
    <3>6. \A p \in Panels : cut[p] <= c.age => cut'[p] <= d.age
      <4>1. ASSUME NEW p \in Panels, cut[p] <= c.age PROVE cut'[p] <= d.age
        <5>1. cut[p] \in Nat /\ cut'[p] \in Nat /\ cut'[p] <= cut[p] + 1
          BY AccNats, TickAges DEF AccInv
        <5> QED
          BY <3>2, <3>4, <4>1, <5>1
      <4> QED
        BY <4>1
    <3>7. d.age <= CallLife
      BY <3>2, <3>4, AccessAssumption
    <3>8. Carries(d)'
      BY <3>2, <3>4, <3>5, <3>6, <3>7 DEF Carries, Facts
    <3> QED
      BY <1>3, <3>3, <3>4, <3>8 DEF Carries
  <2> QED
    BY <2>1, <2>2
<1>5. CallType'
  <2>1. calls' = [q \in Slots |-> calls'[q]]
    BY DEF AccTick
  <2>2. \A q \in Slots : calls'[q] \in T
    BY <1>4
  <2> HIDE DEF T
  <2>3. calls' \in [Slots -> T]
    BY <2>1, <2>2
  <2> QED
    BY <2>3 DEF T, CallType
<1> QED
  BY <1>4, <1>5 DEF CallOK

LEMMA TickTokens ==
    ASSUME AccInv, AccTick
    PROVE  TokType' /\ TokOK'
<1>1. PICK R : toks \subseteq TokRecs(R)
  BY DEF AccInv, AccType, TokType
<1>2. ASSUME NEW d \in toks'
      PROVE  d \in TokRecs(R) /\ Attests(d)'
  <2>1. PICK t \in toks : t.age < TokenLife /\ d = [t EXCEPT !.age = t.age + 1]
    BY DEF AccTick
  <2>2. t \in TokRecs(R) /\ Attests(t) /\ t.who \in Managers /\ t.panel \in Panels /\ t.age \in Nat
    BY <1>1, AccNats DEF AccInv, TokOK
  <2>3. /\ d \in TokRecs(R) /\ d.who = t.who /\ d.panel = t.panel /\ d.adm = t.adm /\ d.near = t.near
        /\ d.age = t.age + 1
    BY <2>1, <2>2 DEF TokRecs
  <2>4. \A f \in Facts : since[t.who][f] <= t.age + CallLife => since'[t.who][f] <= d.age + CallLife
    <3>1. ASSUME NEW f \in Facts, since[t.who][f] <= t.age + CallLife PROVE since'[t.who][f] <= d.age + CallLife
      <4>1. /\ since[t.who][f] \in Nat /\ since'[t.who][f] \in Nat
            /\ since'[t.who][f] <= since[t.who][f] + 1
        BY <2>2, AccNats, TickAges DEF AccInv
      <4> QED
        BY <2>2, <2>3, <3>1, <4>1, AccessAssumption
    <3> QED
      BY <3>1
  <2>5. cut[t.panel] <= t.age + CallLife => cut'[t.panel] <= d.age + CallLife
    <3>1. cut[t.panel] \in Nat /\ cut'[t.panel] \in Nat /\ cut'[t.panel] <= cut[t.panel] + 1
      BY <2>2, AccNats, TickAges DEF AccInv
    <3> QED
      BY <2>2, <2>3, <3>1, AccessAssumption
  <2>6. d.age <= TokenLife
    BY <2>1, <2>2, <2>3, AccessAssumption
  <2>7. Attests(d)'
    BY <2>2, <2>3, <2>4, <2>5, <2>6 DEF Attests, Facts
  <2> QED
    BY <2>3, <2>7
<1> QED
  BY <1>2 DEF TokType, TokOK

LEMMA AccTicks ==
    ASSUME AccInv, AccTick
    PROVE  AccInv'
<1>1. PanelType'
  BY DEF AccInv, AccType, PanelType, AccTick
<1>2. AccType'
  BY <1>1, TickAges, TickCalls, TickTokens DEF AccType
<1> QED
  BY <1>2, TickAges, TickCalls, TickTokens DEF AccInv

LEMMA AccInvStep ==
    ASSUME AccInv, [AccNext]_accVars
    PROVE  AccInv'
<1>1. CASE AccTick
  BY <1>1, AccTicks
<1>2. CASE UNCHANGED accVars
  BY <1>2, NothingNoted, AccRests DEF accVars
<1>3. CASE AccStep
  <2>0. Calls \subseteq Slots /\ Desks \subseteq Slots
    BY DEF Slots
  <2>1. CASE \E m \in Managers :
          LoginFails(m) \/ CreateFirstAdmin(m) \/ ResetPasswordByUsername(m) \/ EnrollTOTPHandler(m) \/ EnrolmentGrant(m)
    BY <2>1, AccQuiet
  <2>2. CASE \E p \in Panels : RefreshReuse(p)
    BY <2>2, AccRevokes DEF RefreshReuse
  <2>3. ASSUME NEW q \in Calls,
               \/ \E m \in Managers : LoginHandler(q, m)
               \/ \E up \in BOOLEAN : BeginSession(q, up)
               \/ \E p \in Panels : IssueSession(q, p) \/ RefreshHandler(q, p)
               \/ IssueFails(q) \/ RefreshLookup(q) \/ RefreshIssue(q)
        PROVE  AccInv'
    BY <2>0, <2>3, AccLogin, AccBegin, AccIssueSession, AccRefresh, AccIssueFails, AccLookup, AccRefreshIssue
  <2>4. ASSUME NEW t \in toks, LogoutHandler(t) PROVE AccInv'
    <3>1. PICK p : p = t.panel
      OBVIOUS
    <3>2. p \in Panels
      BY <3>1, AccNats DEF AccInv
    <3>3. RevokeSession(p) /\ UNCHANGED <<mgrs, roles, since, calls, toks, cut>>
      BY <2>4, <3>1 DEF LogoutHandler
    <3> QED
      BY <3>2, <3>3, AccRevokes
  <2>5. ASSUME NEW t \in toks, NEW p \in Panels, DeletePanelSessionHandler(t, p) PROVE AccInv'
    BY <2>5, AccRevokes DEF DeletePanelSessionHandler
  <2>6. ASSUME NEW t \in toks, NEW m \in Managers,
               \/ \E r \in Roles : CreateManagerHandler(t, m, r)
               \/ \E o \in {"none", "grant", "deny"} : PutManagerOverridesHandler(t, m, o)
               \/ PutManagerAllowlistHandler(t, m) \/ UnlockManagerHandler(t, m)
        PROVE  AccInv'
    BY <2>6, AccEdits
  <2>7. CASE \E t \in toks, r \in Roles, h \in {"edit", "view", "none"} : UpdateRoleHandler(t, r, h)
    BY <2>7, AccRoleEdit
  <2>8. ASSUME NEW q \in Desks,
               \/ \E m \in Managers, p \in Panels \union {"none"} : VerifyTOTPHandler(q, m, p)
               \/ \E h \in BOOLEAN : DeleteManager(q, h)
        PROVE  AccInv'
    BY <2>0, <2>8, AccVerifies, AccDelete
  <2>9. ASSUME NEW q \in Desks, NEW t \in toks, DisableTOTPHandler(q, t) PROVE AccInv'
    <3>1. PICK m, keep : m = t.who /\ keep = t.panel
      OBVIOUS
    <3>2. DisableTOTP(q, m, keep) /\ NoteFacts /\ UNCHANGED <<panels, toks, cut>>
      BY <2>9, <3>1 DEF DisableTOTPHandler
    <3> QED
      BY <2>0, <3>2, AccTOTPOff
  <2>10. ASSUME NEW q \in Desks, NEW t \in toks, NEW m \in Managers,
                (\E w \in Wants : UpdateManagerHandler(q, t, m, w)) \/ DeleteManagerHandler(q, t, m)
         PROVE  AccInv'
    BY <2>0, <2>10, AccDeskBegins
  <2>11. ASSUME NEW q \in Desks, NEW t \in toks, NEW m \in Managers, ResetManagerTOTPHandler(q, t, m) PROVE AccInv'
    <3>1. DisableTOTP(q, m, "none") /\ NoteFacts /\ UNCHANGED <<panels, toks, cut>>
      BY <2>11 DEF ResetManagerTOTPHandler
    <3> QED
      BY <2>0, <3>1, AccTOTPOff
  <2>12. ASSUME NEW q \in Desks,
                \/ UpdateManagerRoleScope(q) \/ SetManagerDisabled(q) \/ UpdatePasswordHash(q) \/ RevokeOtherSessions(q)
                \/ ActivatePendingSecret(q)
         PROVE  AccInv'
    BY <2>0, <2>12, AccRoleScope, AccFlag, AccHash, AccRevokeOthers, AccActivate
  <2> QED
    BY <1>3, <2>1, <2>2, <2>3, <2>4, <2>5, <2>6, <2>7, <2>8, <2>9, <2>10, <2>11, <2>12 DEF AccStep
<1> QED
  BY <1>1, <1>2, <1>3 DEF AccNext

LEMMA AccInvSLA == AccInv => RevocationSLA
<1> SUFFICES ASSUME AccInv, NEW t \in toks
             PROVE  /\ since[t.who]["enabled"] <= SLA
                    /\ t.adm => since[t.who]["granted"] <= SLA /\ since[t.who]["allowed"] <= SLA
                    /\ t.near => since[t.who]["near"] <= SLA
                    /\ cut[t.panel] <= SLA
  BY DEF RevocationSLA
<1>1. /\ \A f \in Facts : since[t.who][f] \in Nat
      /\ cut[t.panel] \in Nat /\ t.age \in Nat
  BY AccNats DEF AccInv
<1>2. Attests(t)
  BY DEF AccInv, TokOK
<1>3. t.age + CallLife <= SLA /\ t.age + CallLife \in Nat /\ SLA \in Nat
  BY <1>1, <1>2, AccessAssumption DEF Attests, SLA
<1>4. \A n \in Nat : n <= t.age + CallLife => n <= SLA
  BY <1>3
<1> QED
  BY <1>1, <1>2, <1>4 DEF Attests, Facts

\* What is taken from a manager is gone from every access token within one
\* token's life and one request's, however many managers, sessions, logins,
\* refreshes and administrative requests interleave: what a request read is no
\* older than the request, and what a token says no older than the token and
\* the request that issued it (auth/tokens.go, auth/handlers.go).
THEOREM RevocationCorrect == AccSpec => []RevocationSLA
<1>1. AccInit => AccInv
  BY AccInvInit
<1>2. AccInv /\ [AccNext]_accVars => AccInv'
  BY AccInvStep
<1>3. AccInv => RevocationSLA
  BY AccInvSLA
<1> QED
  BY <1>1, <1>2, <1>3, PTL DEF AccSpec

-----------------------------------------------------------------------------
(* Routers.  What an operator is about to write, a snapshot that nobody    *)
(* interfered with and the list of the revert worker agree with the rule   *)
(* on the router.                                                          *)

AskRecs == Asks \union {NoRequest}
OpRecs(H, T) == [step : {"idle", "previewed", "snapshot", "write"}, ask : AskRecs, hash : H, todo : T,
                 before : Contents, was : Contents, alone : BOOLEAN]
SnapRecs == [before : Contents, was : Contents, after : AskRecs, due : BOOLEAN, confirmed : BOOLEAN,
             reverted : BOOLEAN, failed : BOOLEAN, late : BOOLEAN, alone : BOOLEAN]
RuleItems == [obj : {"rule"}, do : {"add", "set"}, act : Int, src : Int, tag : BOOLEAN, shown : Int]

\* Items that write no rule.
Harmless(todo) == \E S : todo \in Seq(S) /\ \A i \in S : i.obj # "rule"

\* The one item of an edit of the rule.
Edits(op) == \E i \in RuleItems : op.todo = <<i>> /\ i.act = op.ask.v /\ i.src = op.ask.w

AsEdited(fw, was, a) == fw.act = Edited(a.v, was.act) /\ fw.src = Edited(a.w, was.src)

OpOK(op, fw) ==
    /\ IF op.ask.kind = "firewall" THEN op.todo \in Seq(RuleItems) ELSE Harmless(op.todo)
    /\ op.ask.kind = "firewall" /\ op.ask.edit =>
         /\ op.step = "snapshot" => Edits(op)
         /\ op.step = "write" /\ op.alone =>
              \/ Edits(op) /\ op.before = fw
              \/ op.todo = <<>> /\ op.was = op.before /\ AsEdited(fw, op.was, op.ask)

SnapOK(s, fw, listed) ==
    /\ s.alone => s.was = s.before
    /\ s.alone /\ ~s.reverted => AsEdited(fw, s.was, s.after)
    /\ s.alone /\ s.reverted /\ ~s.failed =>
         (s.was.act # 0 => fw.act = s.was.act) /\ (s.was.src # 0 => fw.src = s.was.src)
    /\ s.confirmed /\ ~s.late => ~s.reverted /\ ~listed

FwRuleType == "rule" \in DOMAIN router /\ router["rule"] \in Contents
OpsType == \E H, T : ops \in [Desk -> OpRecs(H, T)]
SnapsType == snaps \in Seq(SnapRecs)

RtrInv ==
    /\ FwRuleType /\ OpsType /\ SnapsType /\ sweep \subseteq DOMAIN snaps
    /\ \A o \in Desk : OpOK(ops[o], router["rule"])
    /\ \A n \in DOMAIN snaps : SnapOK(snaps[n], router["rule"], n \in sweep)

LEMMA Quiet ==
    /\ Harmless(<<>>)
    /\ Harmless(Nothing.items)
    /\ \A r, o : Harmless(Clash(r, o).items)
    /\ \A i : i.obj # "rule" => Harmless(Item(i).items)
<1>1. Harmless(<<>>)
  <2>1. PICK S : S = {}
    OBVIOUS
  <2>2. <<>> \in Seq(S) /\ \A i \in S : i.obj # "rule"
    BY <2>1
  <2> QED
    BY <2>2 DEF Harmless
<1>2. ASSUME NEW i, i.obj # "rule" PROVE Harmless(<<i>>)
  <2>1. PICK S : S = {i}
    OBVIOUS
  <2>2. <<i>> \in Seq(S) /\ \A j \in S : j.obj # "rule"
    BY <1>2, <2>1
  <2> QED
    BY <2>2 DEF Harmless
<1> QED
  BY <1>1, <1>2 DEF Nothing, Clash, Item

LEMMA QuietBoth ==
    ASSUME NEW p, NEW q, Harmless(p.items), Harmless(q.items)
    PROVE  Harmless(Both(p, q).items)
<1>1. PICK S : p.items \in Seq(S) /\ \A i \in S : i.obj # "rule"
  BY DEF Harmless
<1>2. PICK T : q.items \in Seq(T) /\ \A i \in T : i.obj # "rule"
  BY DEF Harmless
<1> DEFINE U == S \union T
<1>3. p.items \in Seq(U) /\ q.items \in Seq(U)
  BY <1>1, <1>2
<1>4. \A i \in U : i.obj # "rule"
  BY <1>1, <1>2
<1>5. Both(p, q).items = p.items \o q.items
  BY DEF Both
<1> HIDE DEF U
<1>6. Both(p, q).items \in Seq(U)
  BY <1>3, <1>5
<1> QED
  BY <1>4, <1>6 DEF Harmless

LEMMA QuietResolve ==
    ASSUME NEW r, NEW res, NEW fix, fix.obj # "rule"
    PROVE  Harmless(resolveConflict(r, res, fix).items)
BY Quiet DEF resolveConflict

LEMMA QuietItems ==
    ASSUME NEW r, NEW o, o # "rule", NEW v
    PROVE  Add(o, v).obj # "rule" /\ Set(r, o, v).obj # "rule"
BY DEF Add, Set

LEMMA QuietToggle ==
    ASSUME NEW r, NEW o, o # "rule", NEW v, NEW res
    PROVE  Harmless(Toggle(r, o, v, res).items)
BY Quiet, QuietItems, QuietResolve DEF Toggle

\* The plans of every kind but firewall, for any router and any request.
LEMMA QuietRadius ==
    ASSUME NEW r, NEW a
    PROVE  Harmless(planRadiusEntry(r, a).items)
<1> DEFINE s == Set(r, "radius", a.v)
           k == IF r["radius"].ours THEN 1 ELSE 0
           f == [s EXCEPT !.tag = TRUE, !.shown = k]
<1>1. s.obj = "radius" /\ s \in [obj : {"radius"}, do : {s.do}, act : {s.act}, src : {s.src}, tag : {s.tag}, shown : {s.shown}]
  BY DEF Set
<1> HIDE DEF s, k
<1>2. f.obj = "radius"
  BY <1>1
<1>3. planRadiusEntry(r, a) \in {Item(Add("radius", a.v)), Nothing, resolveConflict(r, a.res, f)}
  BY DEF planRadiusEntry, s, k
<1> HIDE DEF f
<1>4. Harmless(resolveConflict(r, a.res, f).items)
  BY <1>2, QuietResolve
<1> QED
  BY <1>3, <1>4, Quiet, QuietItems

LEMMA QuietSetup ==
    ASSUME NEW r, NEW a
    PROVE  Harmless(PlanAutoSetup(r, a).items)
<1>1. Harmless(planRadiusIncoming(r, a).items) /\ Harmless(planPPPAAA(r, a).items)
  BY QuietToggle DEF planRadiusIncoming, planPPPAAA
<1>2. Harmless(planHotspotProfile(r, a).items) /\ Harmless(planWalledGarden(r, a).items)
  BY Quiet, QuietItems DEF planHotspotProfile, planWalledGarden
<1> DEFINE p == Both(planRadiusEntry(r, a), planRadiusIncoming(r, a))
           q == IF "pppoe" \in Provisioned THEN planPPPAAA(r, a) ELSE Nothing
           h == IF "hotspot" \in Provisioned
                THEN Both(planHotspotProfile(r, a), planWalledGarden(r, a)) ELSE Nothing
<1>3. Harmless(p.items)
  BY <1>1, QuietRadius, QuietBoth
<1>4. Harmless(q.items)
  BY <1>1, Quiet
<1>5. Harmless(h.items)
  BY <1>2, Quiet, QuietBoth
<1>6. PlanAutoSetup(r, a) = Both(p, Both(q, h))
  BY DEF PlanAutoSetup
<1> HIDE DEF p, q, h
<1> QED
  BY <1>3, <1>4, <1>5, <1>6, QuietBoth

LEMMA QuietServer ==
    ASSUME NEW r, NEW a
    PROVE  Harmless(planPPPoEServer(r, a).items)
<1> DEFINE p == IF ~a.edit THEN Item(Add("server", a.v))
                ELSE IF r["server"].act # a.v THEN Item(Set(r, "server", a.v)) ELSE Nothing
           q == planPPPAAA(r, [a EXCEPT !.res = "abort"])
<1>1. Harmless(p.items)
  BY Quiet, QuietItems
<1>2. Harmless(q.items)
  BY QuietToggle DEF planPPPAAA
<1>3. planPPPoEServer(r, a) = Clash(r, "server") \/ planPPPoEServer(r, a) = Both(p, q)
  BY DEF planPPPoEServer
<1> HIDE DEF p, q
<1> QED
  BY <1>1, <1>2, <1>3, Quiet, QuietBoth

LEMMA QuietZone ==
    ASSUME NEW r, NEW a
    PROVE  Harmless(planHotspotServer(r, a).items)
<1> DEFINE p == IF There(r, "zprof") THEN Nothing
                ELSE Both(Item(Add("zprof", a.v)), Item(Set(r, "uprof", 0)))
           q == IF ~a.edit THEN Item(Add("zone", a.v))
                ELSE IF r["zone"].act # a.v THEN Item(Set(r, "zone", a.v)) ELSE Nothing
           g == planWalledGarden(r, a)
<1>1. Harmless(p.items)
  BY Quiet, QuietItems, QuietBoth
<1>2. Harmless(q.items)
  BY Quiet, QuietItems
<1>3. Harmless(g.items)
  BY Quiet, QuietItems DEF planWalledGarden
<1>4. planHotspotServer(r, a) = Clash(r, "zone") \/ planHotspotServer(r, a) = Both(p, Both(q, g))
  BY DEF planHotspotServer
<1> HIDE DEF p, q, g
<1>5. Harmless(Both(p, Both(q, g)).items)
  BY <1>1, <1>2, <1>3, QuietBoth
<1> QED
  BY <1>4, <1>5, Quiet

LEMMA QuietWizard ==
    ASSUME NEW r, NEW a
    PROVE  Harmless(PlanWizard(r, a).items)
<1> DEFINE b == planBridgeSetup(r, a)
           d == planDNSSetup(r, a)
           n == planNTPSetup(r, a)
           w == PlanWANUplink(r, a)
           s == PlanAutoSetup(r, a)
           e == planPPPoEServer(r, a)
           f == planFirewallWizard(r, a)
           v == PlanIPv6(r, a)
<1>1. Harmless(b.items) /\ Harmless(n.items) /\ Harmless(w.items) /\ Harmless(v.items)
  BY Quiet, QuietItems DEF planBridgeSetup, planNTPSetup, PlanWANUplink, PlanIPv6
<1>2. Harmless(d.items)
  BY QuietToggle DEF planDNSSetup
<1>3. Harmless(s.items) /\ Harmless(e.items)
  BY QuietSetup, QuietServer
<1>4. Harmless(f.items)
  <2> DEFINE x == IF There(r, "nat") THEN Nothing ELSE Item(Add("nat", a.v))
             y == PlanPool(r, a.v)
  <2>1. Harmless(x.items)
    BY Quiet, QuietItems
  <2>2. Harmless(y.items)
    BY Quiet, QuietItems DEF PlanPool
  <2>3. f = Both(x, y)
    BY DEF planFirewallWizard
  <2> HIDE DEF x, y, f
  <2> QED
    BY <2>1, <2>2, <2>3, QuietBoth
<1>5. PlanWizard(r, a) = Both(Both(Both(b, d), Both(n, w)), Both(Both(s, e), Both(f, v)))
  BY DEF PlanWizard
<1> HIDE DEF b, d, n, w, s, e, f, v
<1>6. Harmless(Both(Both(b, d), Both(n, w)).items)
  BY <1>1, <1>2, QuietBoth
<1>7. Harmless(Both(Both(s, e), Both(f, v)).items)
  BY <1>1, <1>3, <1>4, QuietBoth
<1> QED
  BY <1>5, <1>6, <1>7, QuietBoth

\* Only a firewall request plans to write the rule; an edit without a conflict
\* is one item that says what the request says.
LEMMA PlansQuiet ==
    ASSUME NEW a \in Asks, a.kind # "firewall"
    PROVE  Harmless(PlanOf(a).items)
<1>1. PICK r, g : r = router /\ g = rdb.ranges
  OBVIOUS
<1>2. a.kind \in {"autosetup", "pppoe", "hotspot", "pool", "wan", "wizard"}
  BY RoutersAssumption
<1>3. CASE a.kind = "autosetup"
  BY <1>1, <1>3, QuietSetup DEF PlanOf, buildAutoSetupPlan
<1>4. CASE a.kind \in {"pppoe", "hotspot"}
  BY <1>1, <1>4, QuietServer, QuietZone DEF PlanOf, buildServicePlan, PlanService
<1>5. CASE a.kind = "pool"
  BY <1>1, <1>5, Quiet, QuietItems DEF PlanOf, PlanPool
<1>6. CASE a.kind = "wan"
  BY <1>1, <1>6, Quiet, QuietItems DEF PlanOf, buildWANPlan, PlanWANUplink
<1>7. CASE a.kind = "wizard"
  BY <1>1, <1>7, QuietWizard DEF PlanOf, buildWizardPlan
<1> QED
  BY <1>2, <1>3, <1>4, <1>5, <1>6, <1>7

LEMMA PlansRule ==
    ASSUME NEW a \in Asks, a.kind = "firewall", FwRuleType, PlanOf(a).conf = {}
    PROVE  \E i \in RuleItems : PlanOf(a).items = <<i>> /\ i.act = a.v /\ i.src = a.w
<1>1. a.v \in Int /\ a.w \in Int /\ a.edit \in BOOLEAN
  BY RoutersAssumption
<1>2. PICK x : x = router["rule"].act
  OBVIOUS
<1>3. x \in Int
  BY <1>2 DEF FwRuleType, Contents
<1>4. PlanOf(a) = PlanFirewallChange(router, a)
  BY DEF PlanOf, buildFirewallPlan
<1> DEFINE n == [Add("rule", a.v) EXCEPT !.src = a.w]
           s == [Set(router, "rule", a.v) EXCEPT !.src = a.w]
<1>5. n \in RuleItems /\ n.act = a.v /\ n.src = a.w
  <2>1. PICK m : m = -1
    OBVIOUS
  <2>2. PICK d : d = [obj |-> "rule", do |-> "add", act |-> a.v, src |-> 0, tag |-> TRUE, shown |-> m]
    OBVIOUS
  <2>3. m \in Int
    BY <2>1
  <2>4. d \in RuleItems /\ d.act = a.v
    BY <1>1, <2>2, <2>3 DEF RuleItems
  <2>5. n = [d EXCEPT !.src = a.w]
    BY <2>1, <2>2 DEF Add
  <2> HIDE DEF n
  <2> QED
    BY <1>1, <2>4, <2>5 DEF RuleItems
<1>6. s \in RuleItems /\ s.act = a.v /\ s.src = a.w
  BY <1>1, <1>2, <1>3 DEF Set, RuleItems
<1>7. PlanFirewallChange(router, a) \in {Item(n), Item(s), Clash(router, "rule")}
  BY <1>1 DEF PlanFirewallChange
<1> HIDE DEF n, s
<1>8. Clash(router, "rule").conf # {}
  BY DEF Clash
<1>9. PlanOf(a) = Item(n) \/ PlanOf(a) = Item(s)
  BY <1>4, <1>7, <1>8
<1> QED
  BY <1>5, <1>6, <1>9 DEF Item

LEMMA NoOpFine ==
    /\ NoOp \in OpRecs({NoPreview}, {<<>>}) /\ Absent \in Contents
    /\ NoOp.ask = NoRequest /\ NoOp.todo = <<>> /\ NoRequest.kind = "none"
    /\ \A r : OpOK(NoOp, r)
<1>1. Absent \in Contents
  BY DEF Absent, Contents
<1>2. NoRequest \in AskRecs /\ NoRequest.kind = "none"
  BY DEF AskRecs, NoRequest
<1>3. NoOp \in OpRecs({NoPreview}, {<<>>}) /\ NoOp.ask = NoRequest /\ NoOp.todo = <<>>
  BY <1>1, <1>2 DEF NoOp, OpRecs
<1> QED
  BY <1>1, <1>2, <1>3, Quiet DEF OpOK

\* A request is put in place of another.
LEMMA OpSet ==
    ASSUME OpsType, NEW o \in Desk, NEW H, NEW T, NEW op \in OpRecs(H, T), Put(o, op)
    PROVE  OpsType' /\ ops'[o] = op /\ \A k \in Desk : k # o => ops'[k] = ops[k]
<1>1. PICK G, S : ops \in [Desk -> OpRecs(G, S)]
  BY DEF OpsType
<1>2. ops \in [Desk -> OpRecs(G \union H, S \union T)] /\ op \in OpRecs(G \union H, S \union T)
  BY <1>1 DEF OpRecs
<1>3. ops' = [ops EXCEPT ![o] = op]
  BY DEF Put
<1>4. ops' \in [Desk -> OpRecs(G \union H, S \union T)] /\ ops'[o] = op /\ \A k \in Desk : k # o => ops'[k] = ops[k]
  BY <1>2, <1>3
<1> QED
  BY <1>4 DEF OpsType

\* A step that leaves the rule and the snapshots alone.
LEMMA RtrKept ==
    ASSUME RtrInv, FwRuleType', router'["rule"] = router["rule"], OpsType', snaps' = snaps, sweep' \subseteq sweep,
           \A o \in Desk : OpOK(ops'[o], router["rule"])
    PROVE  RtrInv'
<1>1. SnapsType' /\ sweep' \subseteq DOMAIN snaps'
  BY DEF RtrInv, SnapsType
<1>2. ASSUME NEW n \in DOMAIN snaps' PROVE SnapOK(snaps'[n], router'["rule"], n \in sweep')
  <2>1. SnapOK(snaps[n], router["rule"], n \in sweep)
    BY <1>2 DEF RtrInv
  <2> QED
    BY <2>1 DEF SnapOK
<1> QED
  BY <1>1, <1>2 DEF RtrInv

LEMMA OpGoes ==
    ASSUME RtrInv, NEW o \in Desk, NEW H, NEW T, NEW op \in OpRecs(H, T), Put(o, op), OpOK(op, router["rule"]),
           FwRuleType', router'["rule"] = router["rule"], snaps' = snaps, sweep' = sweep
    PROVE  RtrInv'
<1>1. OpsType' /\ ops'[o] = op /\ \A k \in Desk : k # o => ops'[k] = ops[k]
  BY OpSet DEF RtrInv
<1>2. \A k \in Desk : OpOK(ops'[k], router["rule"])
  BY <1>1 DEF RtrInv
<1> QED
  BY <1>1, <1>2, RtrKept

\* The panel's request is over.
LEMMA OpEnds ==
    ASSUME RtrInv, NEW o \in Desk, Put(o, NoOp), FwRuleType', router'["rule"] = router["rule"], UNCHANGED <<snaps, sweep>>
    PROVE  RtrInv'
<1>1. NoOp \in OpRecs({NoPreview}, {<<>>}) /\ OpOK(NoOp, router["rule"])
  BY NoOpFine
<1> QED
  BY <1>1, OpGoes

LEMMA RtrPreview ==
    ASSUME RtrInv, NEW o \in Desk, NEW kinds, Preview(o, kinds)
    PROVE  RtrInv'
<1>1. PICK a \in Asks : Put(o, [NoOp EXCEPT !.step = "previewed", !.ask = a, !.hash = planHash(a)])
  BY DEF Preview
<1>2. PICK h : h = planHash(a)
  OBVIOUS
<1> DEFINE op == [NoOp EXCEPT !.step = "previewed", !.ask = a, !.hash = h]
<1>3. op \in OpRecs({h}, {<<>>}) /\ op.step = "previewed" /\ op.todo = <<>> /\ op.ask = a
  BY NoOpFine DEF OpRecs, AskRecs
<1>4. Put(o, op)
  BY <1>1, <1>2 DEF Put
<1> HIDE DEF op
<1>5. <<>> \in Seq(RuleItems)
  OBVIOUS
<1>6. OpOK(op, router["rule"])
  BY <1>3, <1>5, Quiet DEF OpOK
<1>7. FwRuleType' /\ router'["rule"] = router["rule"] /\ snaps' = snaps /\ sweep' = sweep
  BY DEF Preview, RtrInv, FwRuleType
<1> QED
  BY <1>3, <1>4, <1>6, <1>7, OpGoes

LEMMA RtrApply ==
    ASSUME RtrInv, NEW o \in Desk, NEW kinds, NEW next \in {"snapshot", "write"}, Apply(o, kinds, next),
           "none" \notin kinds, "firewall" \in kinds => next = "snapshot"
    PROVE  RtrInv'
<1>1. PICK k, a : k = ops[o] /\ a = ops[o].ask
  OBVIOUS
<1>2. PICK H, T : ops \in [Desk -> OpRecs(H, T)]
  BY DEF RtrInv, OpsType
<1>3. k \in OpRecs(H, T) /\ a \in AskRecs /\ k.ask = a
  BY <1>1, <1>2 DEF OpRecs
<1>4. a.kind \in kinds /\ UNCHANGED <<router, snaps, sweep>>
  BY <1>1 DEF Apply
<1>5. a \in Asks
  BY <1>3, <1>4, NoOpFine DEF AskRecs
<1>6. FwRuleType' /\ FwRuleType /\ router'["rule"] = router["rule"]
  BY <1>4 DEF RtrInv, FwRuleType
<1>7. CASE Put(o, NoOp)
  BY <1>4, <1>6, <1>7, OpEnds
<1>8. CASE PlanOf(a).conf = {} /\ Put(o, [ops[o] EXCEPT !.step = next, !.todo = PlanOf(a).items])
  <2>1. PICK t : t = PlanOf(a).items
    OBVIOUS
  <2> DEFINE op == [k EXCEPT !.step = next, !.todo = t]
  <2>2. op \in OpRecs(H, T \union {t}) /\ op.step = next /\ op.todo = t /\ op.ask = a
    BY <1>3 DEF OpRecs
  <2>3. Put(o, op)
    BY <1>1, <1>8, <2>1 DEF Put
  <2> HIDE DEF op
  <2>4. CASE a.kind = "firewall"
    <3>1. PICK i \in RuleItems : t = <<i>> /\ i.act = a.v /\ i.src = a.w
      BY <1>5, <1>6, <1>8, <2>1, <2>4, PlansRule
    <3>2. Edits(op) /\ op.todo \in Seq(RuleItems)
      BY <2>2, <3>1 DEF Edits
    <3>3. op.step # "write"
      BY <1>4, <2>2, <2>4
    <3>4. OpOK(op, router["rule"])
      BY <2>2, <2>4, <3>2, <3>3 DEF OpOK
    <3> QED
      BY <1>4, <1>6, <2>2, <2>3, <3>4, OpGoes
  <2>5. CASE a.kind # "firewall"
    <3>1. Harmless(op.todo)
      BY <1>5, <2>1, <2>2, <2>5, PlansQuiet
    <3>2. OpOK(op, router["rule"])
      BY <2>2, <2>5, <3>1 DEF OpOK
    <3> QED
      BY <1>4, <1>6, <2>2, <2>3, <3>2, OpGoes
  <2> QED
    BY <2>4, <2>5
<1> QED
  BY <1>1, <1>7, <1>8 DEF Apply

LEMMA RtrSnapshot ==
    ASSUME RtrInv, NEW o \in Desk, SnapshotFirewallRules(o)
    PROVE  RtrInv'
<1>1. PICK k, b : k = ops[o] /\ b = IF ops[o].ask.edit THEN router["rule"] ELSE Absent
  OBVIOUS
<1>2. PICK H, T : ops \in [Desk -> OpRecs(H, T)]
  BY DEF RtrInv, OpsType
<1>3. k \in OpRecs(H, T) /\ k.step = "snapshot" /\ UNCHANGED <<router, snaps, sweep>>
  BY <1>1, <1>2 DEF SnapshotFirewallRules
<1>4. b \in Contents /\ (k.ask.edit => b = router["rule"])
  BY <1>1, NoOpFine DEF RtrInv, FwRuleType
<1> DEFINE op == [k EXCEPT !.step = "write", !.alone = TRUE, !.before = b]
<1>5. op \in OpRecs(H, T) /\ op.step = "write" /\ op.todo = k.todo /\ op.ask = k.ask /\ op.before = b
  BY <1>3, <1>4 DEF OpRecs
<1>6. Put(o, op)
  BY <1>1 DEF Put, SnapshotFirewallRules
<1> HIDE DEF op
<1>7. OpOK(k, router["rule"])
  BY <1>1 DEF RtrInv
<1>8. OpOK(op, router["rule"])
  BY <1>3, <1>4, <1>5, <1>7 DEF OpOK, Edits
<1>9. FwRuleType' /\ router'["rule"] = router["rule"]
  BY <1>3 DEF RtrInv, FwRuleType
<1> QED
  BY <1>3, <1>5, <1>6, <1>8, <1>9, OpGoes

\* A write to the rule disturbs every other request and every snapshot.
LEMMA OpDisturbed ==
    ASSUME NEW H, NEW T, NEW op \in OpRecs(H, T), NEW r, OpOK(op, r), NEW d, d = [op EXCEPT !.alone = FALSE]
    PROVE  d \in OpRecs(H, T) /\ \A x : OpOK(d, x)
<1>1. d \in OpRecs(H, T) /\ d.alone = FALSE /\ d.step = op.step /\ d.ask = op.ask /\ d.todo = op.todo
  BY DEF OpRecs
<1>2. \A x : OpOK(d, x)
  BY <1>1 DEF OpOK, Edits
<1> QED
  BY <1>1, <1>2

LEMMA AllDisturbed ==
    ASSUME RtrInv, ops' = Disturb("rule", Desk)
    PROVE  OpsType' /\ \A o \in Desk : \A x : OpOK(ops'[o], x)
<1>1. PICK H, T : ops \in [Desk -> OpRecs(H, T)]
  BY DEF RtrInv, OpsType
<1>2. ops' = [o \in Desk |-> [ops[o] EXCEPT !.alone = @ /\ o \notin Desk]]
  BY DEF Disturb
<1>3. ASSUME NEW o \in Desk PROVE ops'[o] \in OpRecs(H, T) /\ \A x : OpOK(ops'[o], x)
  <2>1. PICK k, r : k = ops[o] /\ r = router["rule"]
    OBVIOUS
  <2>2. k \in OpRecs(H, T) /\ OpOK(k, r)
    BY <1>1, <2>1 DEF RtrInv
  <2>3. PICK d : d = [k EXCEPT !.alone = FALSE]
    OBVIOUS
  <2>4. ops'[o] = d
    BY <1>2, <2>1, <2>3
  <2>5. d \in OpRecs(H, T) /\ \A x : OpOK(d, x)
    BY <2>2, <2>3, OpDisturbed
  <2> QED
    BY <2>4, <2>5
<1>4. ops' \in [Desk -> OpRecs(H, T)]
  BY <1>2, <1>3
<1> QED
  BY <1>3, <1>4 DEF OpsType

LEMMA SnapFields ==
    ASSUME NEW s \in SnapRecs, NEW b \in BOOLEAN
    PROVE  /\ [s EXCEPT !.alone = b] \in SnapRecs /\ [s EXCEPT !.alone = b].alone = b
           /\ [s EXCEPT !.alone = b].confirmed = s.confirmed /\ [s EXCEPT !.alone = b].late = s.late
           /\ [s EXCEPT !.alone = b].reverted = s.reverted
BY DEF SnapRecs

\* A snapshot among the others is replaced; the log keeps its length.
LEMMA SnapsMapped ==
    ASSUME SnapsType, DOMAIN snaps' = DOMAIN snaps, snaps' = [n \in DOMAIN snaps |-> snaps'[n]],
           \A n \in DOMAIN snaps : snaps'[n] \in SnapRecs
    PROVE  SnapsType'
<1>1. DOMAIN snaps = 1..Len(snaps) /\ Len(snaps) \in Nat
  BY DEF SnapsType
<1>2. snaps' \in [1..Len(snaps) -> SnapRecs]
  BY <1>1
<1> QED
  BY <1>1, <1>2 DEF SnapsType

LEMMA AllShared ==
    ASSUME RtrInv, snaps' = Shared("rule", 0)
    PROVE  /\ SnapsType' /\ DOMAIN snaps' = DOMAIN snaps
           /\ \A n \in DOMAIN snaps : \A x : SnapOK(snaps'[n], x, n \in sweep)
<1>1. snaps' = [n \in DOMAIN snaps |-> [snaps[n] EXCEPT !.alone = @ /\ n = 0]]
  BY DEF Shared
<1>2. SnapsType /\ DOMAIN snaps = 1..Len(snaps) /\ DOMAIN snaps' = DOMAIN snaps
  BY <1>1 DEF RtrInv, SnapsType
<1>3. ASSUME NEW n \in DOMAIN snaps
      PROVE  snaps'[n] \in SnapRecs /\ \A x : SnapOK(snaps'[n], x, n \in sweep)
  <2>1. PICK s : s = snaps[n]
    OBVIOUS
  <2>2. s \in SnapRecs /\ SnapOK(s, router["rule"], n \in sweep) /\ n # 0
    BY <1>2, <1>3, <2>1 DEF RtrInv, SnapsType
  <2> DEFINE u == [s EXCEPT !.alone = FALSE]
  <2>3. snaps'[n] = u
    BY <1>1, <2>1, <2>2
  <2>4. u \in SnapRecs /\ u.alone = FALSE /\ u.confirmed = s.confirmed /\ u.late = s.late /\ u.reverted = s.reverted
    BY <2>2, SnapFields
  <2> HIDE DEF u
  <2>5. \A x : SnapOK(u, x, n \in sweep)
    BY <2>2, <2>4 DEF SnapOK
  <2> QED
    BY <2>3, <2>4, <2>5
<1>4. SnapsType'
  BY <1>1, <1>2, <1>3, SnapsMapped
<1> QED
  BY <1>2, <1>3, <1>4

\* The next item of a plan that writes no rule, and of a firewall plan.
LEMMA QuietHead ==
    ASSUME NEW t, Harmless(t), t # <<>>
    PROVE  Head(t).obj # "rule" /\ Harmless(Tail(t))
<1>1. PICK S : t \in Seq(S) /\ \A i \in S : i.obj # "rule"
  BY DEF Harmless
<1>2. Head(t) \in S /\ Tail(t) \in Seq(S)
  BY <1>1
<1> QED
  BY <1>1, <1>2 DEF Harmless

LEMMA WrittenRule ==
    ASSUME NEW i \in RuleItems, NEW x \in Contents
    PROVE  /\ Written(i, x) \in Contents
           /\ Written(i, x).act = Edited(i.act, x.act) /\ Written(i, x).src = Edited(i.src, x.src)
BY DEF RuleItems, Contents, Written, Edited

LEMMA RtrWriteQuiet ==
    ASSUME RtrInv, NEW o \in Desk, ApplyAutoSetup(o), Head(ops[o].todo).obj # "rule"
    PROVE  RtrInv'
<1>1. PICK k, i : k = ops[o] /\ i = Head(ops[o].todo)
  OBVIOUS
<1>2. PICK H, T : ops \in [Desk -> OpRecs(H, T)]
  BY DEF RtrInv, OpsType
<1>3. k \in OpRecs(H, T) /\ k.todo # <<>> /\ i = Head(k.todo) /\ i.obj # "rule" /\ sweep' = sweep
  BY <1>1, <1>2 DEF ApplyAutoSetup
<1>4. OpOK(k, router["rule"])
  BY <1>1 DEF RtrInv
<1>5. k.ask.kind # "firewall" /\ Harmless(k.todo)
  <2>1. ASSUME k.todo \in Seq(RuleItems) PROVE FALSE
    <3>1. i \in RuleItems
      BY <1>3, <2>1
    <3> QED
      BY <1>3, <3>1 DEF RuleItems
  <2> QED
    BY <1>4, <2>1 DEF OpOK
<1> DEFINE t == Tail(k.todo)
           op == [k EXCEPT !.todo = t]
<1>6. op \in OpRecs(H, T \union {t}) /\ op.ask = k.ask /\ op.todo = t
  BY <1>3 DEF OpRecs
<1>7. Harmless(t)
  BY <1>3, <1>5, QuietHead
<1>8. Disturb(i.obj, Desk \ {o}) = ops /\ Shared(i.obj, 0) = snaps
  BY <1>3 DEF Disturb, Shared
<1>9. \/ router' = router \/ router' = [router EXCEPT ![i.obj] = Written(i, @)]
  BY <1>1 DEF ApplyAutoSetup
<1>10. FwRuleType' /\ router'["rule"] = router["rule"]
  BY <1>3, <1>9 DEF RtrInv, FwRuleType
<1>11. snaps' = snaps
  BY <1>1, <1>8 DEF ApplyAutoSetup
<1>12. Put(o, op) \/ Put(o, NoOp)
  <2>1. [ops EXCEPT ![o].todo = Tail(@), ![o].was = @] = [ops EXCEPT ![o] = op]
    <3>1. [k EXCEPT !.todo = Tail(@), !.was = @] = op
      BY <1>3 DEF OpRecs
    <3> QED
      BY <1>1, <1>2, <3>1
  <2>2. [[ops EXCEPT ![o].todo = Tail(@), ![o].was = @] EXCEPT ![o] = NoOp] = [ops EXCEPT ![o] = NoOp]
    BY <1>2
  <2> QED
    BY <1>1, <1>3, <1>8, <2>1, <2>2 DEF ApplyAutoSetup, Put
<1> HIDE DEF op, t
<1>13. OpOK(op, router["rule"])
  BY <1>5, <1>6, <1>7 DEF OpOK
<1>14. CASE Put(o, op)
  BY <1>3, <1>6, <1>10, <1>11, <1>13, <1>14, OpGoes
<1>15. CASE Put(o, NoOp)
  BY <1>3, <1>10, <1>11, <1>15, OpEnds
<1> QED
  BY <1>12, <1>14, <1>15

LEMMA RtrWriteRule ==
    ASSUME RtrInv, NEW o \in Desk, ApplyAutoSetup(o), Head(ops[o].todo).obj = "rule"
    PROVE  RtrInv'
<1>1. PICK k, i, x : k = ops[o] /\ i = Head(ops[o].todo) /\ x = router["rule"]
  OBVIOUS
<1>2. PICK H, T : ops \in [Desk -> OpRecs(H, T)]
  BY DEF RtrInv, OpsType
<1>3. k \in OpRecs(H, T) /\ k.todo # <<>> /\ i = Head(k.todo) /\ i.obj = "rule" /\ k.step = "write" /\ sweep' = sweep
  BY <1>1, <1>2 DEF ApplyAutoSetup
<1>4. OpOK(k, x) /\ x \in Contents /\ "rule" \in DOMAIN router
  BY <1>1 DEF RtrInv, FwRuleType
<1>5. k.ask.kind = "firewall" /\ k.todo \in Seq(RuleItems)
  BY <1>3, <1>4, QuietHead DEF OpOK
<1> DEFINE t == Tail(k.todo)
           op == [k EXCEPT !.todo = t, !.was = x]
<1>6. i \in RuleItems /\ t \in Seq(RuleItems)
  BY <1>3, <1>5
<1>7. /\ op \in OpRecs(H, T \union {t}) /\ op.ask = k.ask /\ op.todo = t /\ op.was = x /\ op.alone = k.alone
      /\ op.before = k.before /\ op.step = "write"
  BY <1>3, <1>4 DEF OpRecs
<1>8. CASE UNCHANGED <<router, snaps>> /\ Put(o, NoOp)
  <2>1. FwRuleType' /\ router'["rule"] = router["rule"]
    BY <1>8 DEF RtrInv, FwRuleType
  <2> QED
    BY <1>3, <1>8, <2>1, OpEnds
<1> DEFINE left == [j \in Desk |-> IF j = o THEN op ELSE [ops[j] EXCEPT !.alone = FALSE]]
           over == [j \in Desk |-> IF j = o THEN NoOp ELSE [ops[j] EXCEPT !.alone = FALSE]]
<1>9. CASE /\ router' = [router EXCEPT !["rule"] = Written(i, @)] /\ snaps' = Shared("rule", 0)
           /\ ops' = left \/ ops' = over
  <2> DEFINE y == router'["rule"]
  <2>1. y = Written(i, x)
    BY <1>1, <1>4, <1>9
  <2>2. FwRuleType' /\ y.act = Edited(i.act, x.act) /\ y.src = Edited(i.src, x.src)
    BY <1>4, <1>6, <1>9, <2>1, WrittenRule DEF FwRuleType
  <2>3. OpOK(op, y)
    <3>1. ASSUME k.ask.edit, k.alone PROVE t = <<>> /\ op.was = op.before /\ AsEdited(y, op.was, op.ask)
      <4>1. Edits(k) /\ k.before = x
        BY <1>3, <1>4, <1>5, <3>1 DEF OpOK
      <4>2. PICK j \in RuleItems : k.todo = <<j>> /\ j.act = k.ask.v /\ j.src = k.ask.w
        BY <4>1 DEF Edits
      <4>3. i = j /\ t = <<>>
        BY <1>3, <4>2
      <4> HIDE DEF op, t, y
      <4> QED
        BY <1>7, <2>2, <4>1, <4>2, <4>3 DEF AsEdited
    <3> HIDE DEF op, t, y
    <3> QED
      BY <1>5, <1>6, <1>7, <3>1 DEF OpOK
  <2>4. /\ SnapsType' /\ DOMAIN snaps' = DOMAIN snaps
        /\ \A n \in DOMAIN snaps : \A z : SnapOK(snaps'[n], z, n \in sweep)
    BY <1>9, AllShared
  <2> DEFINE G == H \union {NoPreview}
             S == T \union {t} \union {<<>>}
  <2>5. ASSUME NEW j \in Desk PROVE ops'[j] \in OpRecs(G, S) /\ OpOK(ops'[j], y)
    <3>1. op \in OpRecs(G, S)
      <4> HIDE DEF op
      <4> QED
        BY <1>7 DEF OpRecs
    <3>2. NoOp \in OpRecs(G, S) /\ OpOK(NoOp, y)
      BY NoOpFine DEF OpRecs
    <3>3. CASE j = o
      <4>1. ops'[j] = op \/ ops'[j] = NoOp
        BY <1>9, <3>3
      <4> HIDE DEF op, y, G, S
      <4> QED
        BY <2>3, <3>1, <3>2, <4>1
    <3>4. CASE j # o
      <4>1. PICK p : p = ops[j]
        OBVIOUS
      <4>2. p \in OpRecs(H, T) /\ OpOK(p, x)
        BY <1>1, <1>2, <4>1 DEF RtrInv
      <4>3. PICK d : d = [p EXCEPT !.alone = FALSE]
        OBVIOUS
      <4>4. ops'[j] = d
        BY <1>9, <3>4, <4>1, <4>3
      <4>5. d \in OpRecs(H, T) /\ \A z : OpOK(d, z)
        BY <4>2, <4>3, OpDisturbed
      <4> QED
        BY <4>4, <4>5 DEF OpRecs
    <3> QED
      BY <3>3, <3>4
  <2>6. ops' \in [Desk -> OpRecs(G, S)]
    <3>1. ops' = [j \in Desk |-> ops'[j]]
      BY <1>9
    <3> HIDE DEF G, S
    <3> QED
      BY <2>5, <3>1
  <2>7. OpsType'
    BY <2>6 DEF OpsType
  <2> HIDE DEF y
  <2>8. sweep' \subseteq DOMAIN snaps'
    BY <1>3, <2>4 DEF RtrInv
  <2> QED
    BY <1>3, <2>2, <2>4, <2>5, <2>7, <2>8 DEF RtrInv, y
<1>10. \/ UNCHANGED <<router, snaps>> /\ Put(o, NoOp)
       \/ /\ router' = [router EXCEPT !["rule"] = Written(i, @)] /\ snaps' = Shared("rule", 0)
          /\ ops' = left \/ ops' = over
  <2> DEFINE dist == [j \in Desk |-> [ops[j] EXCEPT !.alone = @ /\ j \notin Desk \ {o}]]
             rest == [dist EXCEPT ![o].todo = Tail(@), ![o].was = x]
  <2>1. Disturb("rule", Desk \ {o}) = dist
    BY DEF Disturb
  <2>2. dist[o] = k
    <3>1. [k EXCEPT !.alone = @ /\ o \notin Desk \ {o}] = k
      BY <1>3 DEF OpRecs
    <3> QED
      BY <1>1, <3>1
  <2>3. \A j \in Desk : j # o => dist[j] = [ops[j] EXCEPT !.alone = FALSE]
    <3>1. ASSUME NEW j \in Desk, j # o PROVE dist[j] = [ops[j] EXCEPT !.alone = FALSE]
      <4>1. (ops[j].alone /\ j \notin Desk \ {o}) = FALSE
        BY <3>1
      <4> QED
        BY <4>1
    <3> QED
      BY <3>1
  <2>4. DOMAIN dist = Desk
    OBVIOUS
  <2> HIDE DEF dist
  <2>5. rest[o] = op /\ DOMAIN rest = Desk
    BY <2>2, <2>4
  <2>6. \A j \in Desk : j # o => rest[j] = [ops[j] EXCEPT !.alone = FALSE]
    BY <2>3, <2>4
  <2>7. rest = [j \in Desk |-> rest[j]]
    BY <2>4
  <2> HIDE DEF rest, op
  <2>8. rest = left /\ [rest EXCEPT ![o] = NoOp] = over
    BY <2>5, <2>6, <2>7
  <2> HIDE DEF left, over
  <2>9. \/ UNCHANGED <<router, snaps>> /\ Put(o, NoOp)
        \/ /\ router' = [router EXCEPT !["rule"] = Written(i, @)] /\ snaps' = Shared("rule", 0)
           /\ ops' = rest \/ ops' = [rest EXCEPT ![o] = NoOp]
    BY <1>1, <1>3, <2>1 DEF ApplyAutoSetup, rest
  <2> QED
    BY <2>8, <2>9
<1> QED
  BY <1>8, <1>9, <1>10

LEMMA RtrRecord ==
    ASSUME RtrInv, NEW o \in Desk, RecordApplied(o)
    PROVE  RtrInv'
<1>1. PICK k : k = ops[o]
  OBVIOUS
<1>2. PICK H, T : ops \in [Desk -> OpRecs(H, T)]
  BY DEF RtrInv, OpsType
<1>3. k \in OpRecs(H, T) /\ k.step = "write" /\ k.todo = <<>> /\ Put(o, NoOp) /\ UNCHANGED <<router, sweep>>
  BY <1>1, <1>2 DEF RecordApplied
<1>4. FwRuleType' /\ router'["rule"] = router["rule"]
  BY <1>3 DEF RtrInv, FwRuleType
<1>5. CASE snaps' = snaps
  BY <1>3, <1>4, <1>5, OpEnds
<1>6. CASE k.ask.kind = "firewall" /\ k.ask.edit /\ snaps' = insertFirewallSnapshot(o)
  <2> DEFINE s == [before |-> k.before, was |-> k.was, after |-> k.ask,
                   due |-> FALSE, confirmed |-> FALSE, reverted |-> FALSE, failed |-> FALSE,
                   late |-> FALSE, alone |-> k.alone]
  <2>1. snaps' = Append(snaps, s)
    BY <1>1, <1>6 DEF insertFirewallSnapshot
  <2>2. /\ s \in SnapRecs /\ s.alone = k.alone /\ s.was = k.was /\ s.before = k.before /\ s.after = k.ask
        /\ s.confirmed = FALSE /\ s.reverted = FALSE
    BY <1>3 DEF OpRecs, SnapRecs
  <2> HIDE DEF s
  <2>3. OpOK(k, router["rule"])
    BY <1>1 DEF RtrInv
  <2>4. ~Edits(k)
    BY <1>3 DEF Edits
  <2>5. k.alone => k.was = k.before /\ AsEdited(router["rule"], k.was, k.ask)
    BY <1>3, <1>6, <2>3, <2>4 DEF OpOK
  <2>6. \A b : SnapOK(s, router["rule"], b)
    BY <2>2, <2>5 DEF SnapOK
  <2>7. /\ snaps' \in Seq(SnapRecs) /\ DOMAIN snaps \subseteq DOMAIN snaps'
        /\ \A n \in DOMAIN snaps' : snaps'[n] = s \/ (n \in DOMAIN snaps /\ snaps'[n] = snaps[n])
    BY <2>1, <2>2 DEF RtrInv, SnapsType
  <2>8. \A n \in DOMAIN snaps' : SnapOK(snaps'[n], router'["rule"], n \in sweep')
    BY <1>3, <2>6, <2>7 DEF RtrInv
  <2>9. NoOp \in OpRecs({NoPreview}, {<<>>}) /\ \A x : OpOK(NoOp, x)
    BY NoOpFine
  <2>10. OpsType' /\ ops'[o] = NoOp /\ \A j \in Desk : j # o => ops'[j] = ops[j]
    BY <1>3, <2>9, OpSet DEF RtrInv
  <2>11. \A j \in Desk : OpOK(ops'[j], router'["rule"])
    BY <1>4, <2>9, <2>10 DEF RtrInv
  <2>12. sweep' \subseteq DOMAIN snaps'
    BY <1>3, <2>7 DEF RtrInv
  <2> QED
    BY <1>4, <2>7, <2>8, <2>10, <2>11, <2>12 DEF RtrInv, SnapsType
<1> QED
  BY <1>1, <1>5, <1>6 DEF RecordApplied

\* One snapshot is marked, the rest of the state is left alone.
LEMMA SnapMarked ==
    ASSUME RtrInv, NEW n \in DOMAIN snaps, NEW u \in SnapRecs, snaps' = [snaps EXCEPT ![n] = u],
           UNCHANGED <<router, ops>>, sweep' \subseteq sweep, SnapOK(u, router["rule"], n \in sweep')
    PROVE  RtrInv'
<1>1. SnapsType /\ sweep \subseteq DOMAIN snaps
  BY DEF RtrInv
<1>2. SnapsType' /\ DOMAIN snaps' = DOMAIN snaps /\ snaps'[n] = u /\ \A m \in DOMAIN snaps : m # n => snaps'[m] = snaps[m]
  BY <1>1 DEF SnapsType
<1>3. ASSUME NEW m \in DOMAIN snaps' PROVE SnapOK(snaps'[m], router'["rule"], m \in sweep')
  <2>1. CASE m = n
    BY <1>2, <2>1
  <2>2. CASE m # n
    <3>1. SnapOK(snaps[m], router["rule"], m \in sweep)
      BY <1>2, <1>3 DEF RtrInv
    <3> QED
      BY <1>2, <1>3, <2>2, <3>1 DEF SnapOK
  <2> QED
    BY <2>1, <2>2
<1>4. FwRuleType' /\ OpsType' /\ \A o \in Desk : OpOK(ops'[o], router'["rule"])
  BY DEF RtrInv, FwRuleType, OpsType
<1> QED
  BY <1>1, <1>2, <1>3, <1>4 DEF RtrInv

LEMMA RtrLapse ==
    ASSUME RtrInv, Lapse \/ firewallConfirmHandler
    PROVE  RtrInv'
<1>1. PICK n \in DOMAIN snaps :
        \/ snaps' = [snaps EXCEPT ![n].due = TRUE]
        \/ ~snaps[n].reverted /\ snaps' = [snaps EXCEPT ![n].confirmed = TRUE, ![n].late = n \in sweep]
  BY DEF Lapse, firewallConfirmHandler, confirmFirewallSnapshot
<1>2. UNCHANGED <<router, ops, sweep>>
  BY DEF Lapse, firewallConfirmHandler
<1>3. PICK s, b : s = snaps[n] /\ b = (n \in sweep)
  OBVIOUS
<1>4. s \in SnapRecs /\ SnapOK(s, router["rule"], n \in sweep) /\ b \in BOOLEAN
  BY <1>3 DEF RtrInv, SnapsType
<1>5. CASE snaps' = [snaps EXCEPT ![n].due = TRUE]
  <2> DEFINE u == [s EXCEPT !.due = TRUE]
  <2>1. /\ u \in SnapRecs /\ u.alone = s.alone /\ u.was = s.was /\ u.before = s.before /\ u.after = s.after
        /\ u.reverted = s.reverted /\ u.failed = s.failed /\ u.confirmed = s.confirmed /\ u.late = s.late
    BY <1>4 DEF SnapRecs
  <2>2. snaps' = [snaps EXCEPT ![n] = u]
    BY <1>3, <1>5
  <2> HIDE DEF u
  <2>3. SnapOK(u, router["rule"], n \in sweep')
    BY <1>2, <1>4, <2>1 DEF SnapOK
  <2> QED
    BY <1>2, <2>1, <2>2, <2>3, SnapMarked
<1>6. CASE ~snaps[n].reverted /\ snaps' = [snaps EXCEPT ![n].confirmed = TRUE, ![n].late = n \in sweep]
  <2> DEFINE u == [s EXCEPT !.confirmed = TRUE, !.late = b]
  <2>1. /\ u \in SnapRecs /\ u.alone = s.alone /\ u.was = s.was /\ u.before = s.before /\ u.after = s.after
        /\ u.reverted = s.reverted /\ u.failed = s.failed /\ u.late = b
    BY <1>4 DEF SnapRecs
  <2>2. snaps' = [snaps EXCEPT ![n] = u]
    BY <1>3, <1>6
  <2> HIDE DEF u
  <2>3. SnapOK(u, router["rule"], n \in sweep')
    BY <1>2, <1>3, <1>4, <1>6, <2>1 DEF SnapOK
  <2> QED
    BY <1>2, <2>1, <2>2, <2>3, SnapMarked
<1> QED
  BY <1>1, <1>5, <1>6

\* The worker lists what is due and was not confirmed.
LEMMA RtrSweep ==
    ASSUME RtrInv, sweepDueFirewallReverts
    PROVE  RtrInv'
<1>1. UNCHANGED <<router, ops, snaps>> /\ sweep' = duePendingSnapshots
  BY DEF sweepDueFirewallReverts
<1>2. sweep' \subseteq DOMAIN snaps' /\ \A n \in sweep' : ~snaps[n].confirmed
  BY <1>1 DEF duePendingSnapshots
<1>3. ASSUME NEW n \in DOMAIN snaps' PROVE SnapOK(snaps'[n], router'["rule"], n \in sweep')
  <2>1. SnapOK(snaps[n], router["rule"], n \in sweep)
    BY <1>1, <1>3 DEF RtrInv
  <2> QED
    BY <1>1, <1>2, <2>1 DEF SnapOK
<1>4. FwRuleType' /\ OpsType' /\ SnapsType' /\ \A o \in Desk : OpOK(ops'[o], router'["rule"])
  BY <1>1 DEF RtrInv, FwRuleType, OpsType, SnapsType
<1> QED
  BY <1>2, <1>3, <1>4 DEF RtrInv

LEMMA RtrReverts ==
    ASSUME RtrInv, revertOneFirewallSnapshot
    PROVE  RtrInv'
<1>1. PICK n \in sweep :
        /\ sweep' = sweep \ {n}
        /\ \/ /\ There(router, "rule")
              /\ router' = [router EXCEPT !["rule"] = Restored(n)]
              /\ ops' = Disturb("rule", Desk)
              /\ snaps' = [Shared("rule", n) EXCEPT
                     ![n].reverted = markSnapshotReverted(n, TRUE).reverted]
           \/ /\ snaps' = [snaps EXCEPT ![n].reverted = TRUE,
                     ![n].failed = markSnapshotReverted(n, FALSE).failed]
              /\ UNCHANGED <<router, ops>>
           \/ UNCHANGED <<router, ops, snaps>>
  BY DEF revertOneFirewallSnapshot
<1>2. PICK s, x : s = snaps[n] /\ x = router["rule"]
  OBVIOUS
<1>3. /\ n \in DOMAIN snaps /\ sweep \subseteq DOMAIN snaps /\ s \in SnapRecs /\ SnapOK(s, x, n \in sweep)
      /\ x \in Contents /\ "rule" \in DOMAIN router
  BY <1>2 DEF RtrInv, SnapsType, FwRuleType
<1>4. ~(s.confirmed /\ ~s.late) /\ n \notin sweep'
  BY <1>1, <1>3 DEF SnapOK
<1>5. CASE UNCHANGED <<router, ops, snaps>>
  <2>1. FwRuleType' /\ OpsType' /\ router'["rule"] = router["rule"] /\ \A o \in Desk : OpOK(ops'[o], router["rule"])
    BY <1>5 DEF RtrInv, FwRuleType, OpsType
  <2> QED
    BY <1>1, <1>5, <2>1, RtrKept
<1>6. CASE /\ snaps' = [snaps EXCEPT ![n].reverted = TRUE, ![n].failed = markSnapshotReverted(n, FALSE).failed]
           /\ UNCHANGED <<router, ops>>
  <2>1. markSnapshotReverted(n, FALSE).failed = TRUE
    BY DEF markSnapshotReverted
  <2> DEFINE u == [s EXCEPT !.reverted = TRUE, !.failed = TRUE]
  <2>2. /\ u \in SnapRecs /\ u.alone = s.alone /\ u.was = s.was /\ u.before = s.before
        /\ u.reverted = TRUE /\ u.failed = TRUE /\ u.confirmed = s.confirmed /\ u.late = s.late
    BY <1>3 DEF SnapRecs
  <2>3. snaps' = [snaps EXCEPT ![n] = u]
    BY <1>2, <1>6, <2>1
  <2> HIDE DEF u
  <2>4. SnapOK(u, router["rule"], n \in sweep')
    BY <1>2, <1>3, <1>4, <2>2 DEF SnapOK
  <2> QED
    BY <1>1, <1>3, <1>6, <2>2, <2>3, <2>4, SnapMarked, ZenonT(60)
<1>7. CASE /\ router' = [router EXCEPT !["rule"] = Restored(n)]
           /\ ops' = Disturb("rule", Desk)
           /\ snaps' = [Shared("rule", n) EXCEPT ![n].reverted = markSnapshotReverted(n, TRUE).reverted]
  <2> DEFINE y == router'["rule"]
             b == s.before
  <2>1. b \in Contents
    BY <1>3 DEF SnapRecs
  <2>2. y = [x EXCEPT !.ours = @ \/ b.ours, !.act = IF b.act = 0 THEN @ ELSE b.act,
                      !.src = IF b.src = 0 THEN @ ELSE b.src]
    BY <1>2, <1>3, <1>7 DEF Restored
  <2> HIDE DEF y, b
  <2>3. y \in Contents /\ (b.act # 0 => y.act = b.act) /\ (b.src # 0 => y.src = b.src)
    BY <1>3, <2>1, <2>2 DEF Contents
  <2>4. FwRuleType'
    BY <1>3, <1>7, <2>3 DEF FwRuleType, y
  <2>5. OpsType' /\ \A o \in Desk : OpOK(ops'[o], y)
    BY <1>7, AllDisturbed
  <2> DEFINE u == [s EXCEPT !.reverted = TRUE]
             shared == [m \in DOMAIN snaps |-> [snaps[m] EXCEPT !.alone = @ /\ m = n]]
  <2>6. /\ u \in SnapRecs /\ u.alone = s.alone /\ u.was = s.was /\ u.before = b
        /\ u.reverted = TRUE /\ u.failed = s.failed /\ u.confirmed = s.confirmed /\ u.late = s.late
    BY <1>3 DEF SnapRecs, b
  <2>7. snaps' = [shared EXCEPT ![n].reverted = TRUE]
    BY <1>7 DEF Shared, markSnapshotReverted
  <2>8. shared[n] = s
    <3>1. [s EXCEPT !.alone = @ /\ n = n] = s
      BY <1>3 DEF SnapRecs
    <3> QED
      BY <1>2, <1>3, <3>1
  <2>9. DOMAIN shared = DOMAIN snaps
    OBVIOUS
  <2>10. ASSUME NEW m \in DOMAIN snaps, m # n
         PROVE  shared[m] \in SnapRecs /\ SnapOK(shared[m], y, m \in sweep')
    <3>1. PICK k : k = snaps[m]
      OBVIOUS
    <3>2. k \in SnapRecs /\ SnapOK(k, x, m \in sweep)
      BY <1>2, <2>10, <3>1 DEF RtrInv, SnapsType
    <3> DEFINE d == [k EXCEPT !.alone = FALSE]
    <3>3. shared[m] = d
      <4>1. (snaps[m].alone /\ m = n) = FALSE
        BY <2>10
      <4> QED
        BY <2>10, <3>1, <4>1
    <3>4. d \in SnapRecs /\ d.alone = FALSE /\ d.confirmed = k.confirmed /\ d.late = k.late /\ d.reverted = k.reverted
      BY <3>2, SnapFields
    <3> HIDE DEF d, shared
    <3>5. SnapOK(d, y, m \in sweep')
      BY <1>1, <3>2, <3>4 DEF SnapOK
    <3> QED
      BY <3>3, <3>4, <3>5
  <2> HIDE DEF shared
  <2>11. /\ DOMAIN snaps' = DOMAIN snaps /\ snaps'[n] = u /\ snaps' = [m \in DOMAIN snaps |-> snaps'[m]]
         /\ \A m \in DOMAIN snaps : m # n => snaps'[m] = shared[m]
    BY <1>3, <2>7, <2>8, <2>9
  <2> HIDE DEF u
  <2>12. SnapOK(u, y, n \in sweep')
    BY <1>3, <1>4, <2>3, <2>6 DEF SnapOK, b
  <2>13. \A m \in DOMAIN snaps : snaps'[m] \in SnapRecs /\ SnapOK(snaps'[m], y, m \in sweep')
    BY <2>6, <2>10, <2>11, <2>12
  <2>14. SnapsType'
    BY <2>11, <2>13, SnapsMapped DEF RtrInv
  <2>15. sweep' \subseteq DOMAIN snaps'
    BY <1>1, <1>3, <2>11
  <2> QED
    BY <2>4, <2>5, <2>11, <2>13, <2>14, <2>15 DEF RtrInv, y
<1> QED
  BY <1>1, <1>5, <1>6, <1>7

LEMMA RtrByHand ==
    ASSUME RtrInv, ByHand
    PROVE  RtrInv'
<1> DEFINE X == {Absent, [ours |-> FALSE, act |-> 2, src |-> 0], [ours |-> TRUE, act |-> 2, src |-> 2]}
<1>1. PICK o \in {"rule", "radius", "server"}, x \in X :
        /\ router' = [router EXCEPT ![o] = x]
        /\ ops' = Disturb(o, Desk) /\ snaps' = Shared(o, 0) /\ sweep' = sweep
  BY DEF ByHand
<1>2. x \in Contents
  <2>1. /\ [ours |-> FALSE, act |-> 2, src |-> 0] \in Contents
        /\ [ours |-> TRUE, act |-> 2, src |-> 2] \in Contents
    BY DEF Contents
  <2>2. X \subseteq Contents
    BY <2>1, NoOpFine
  <2> QED
    BY <2>2
<1>3. CASE o = "rule"
  <2>1. FwRuleType'
    BY <1>1, <1>2, <1>3 DEF RtrInv, FwRuleType
  <2>2. OpsType' /\ \A k \in Desk : \A z : OpOK(ops'[k], z)
    BY <1>1, <1>3, AllDisturbed
  <2>3. /\ SnapsType' /\ DOMAIN snaps' = DOMAIN snaps
        /\ \A n \in DOMAIN snaps : \A z : SnapOK(snaps'[n], z, n \in sweep)
    BY <1>1, <1>3, AllShared
  <2> QED
    BY <1>1, <2>1, <2>2, <2>3 DEF RtrInv
<1>4. CASE o # "rule"
  <2>1. ops' = ops /\ snaps' = snaps
    BY <1>1, <1>4 DEF Disturb, Shared
  <2>2. FwRuleType' /\ router'["rule"] = router["rule"]
    BY <1>1, <1>4 DEF RtrInv, FwRuleType
  <2>3. OpsType' /\ \A k \in Desk : OpOK(ops'[k], router["rule"])
    BY <2>1 DEF RtrInv, OpsType
  <2> QED
    BY <1>1, <2>1, <2>2, <2>3, RtrKept
<1> QED
  BY <1>3, <1>4

LEMMA RtrRestarts ==
    ASSUME RtrInv, Restarts
    PROVE  RtrInv'
<1>1. ops' = [o \in Desk |-> NoOp] /\ sweep' = {} /\ UNCHANGED <<router, snaps>>
  BY DEF Restarts
<1>2. ops' \in [Desk -> OpRecs({NoPreview}, {<<>>})] /\ \A o \in Desk : OpOK(ops'[o], router["rule"])
  BY <1>1, NoOpFine
<1>3. OpsType'
  BY <1>2 DEF OpsType
<1>4. FwRuleType' /\ router'["rule"] = router["rule"] /\ sweep' \subseteq sweep
  BY <1>1 DEF RtrInv, FwRuleType
<1> QED
  BY <1>1, <1>2, <1>3, <1>4, RtrKept

LEMMA RtrRests ==
    ASSUME RtrInv, UNCHANGED <<router, ops, snaps, sweep>>
    PROVE  RtrInv'
BY DEF RtrInv, FwRuleType, OpsType, SnapsType

LEMMA RtrInvInit == RtrInit => RtrInv
<1> SUFFICES ASSUME RtrInit PROVE RtrInv
  OBVIOUS
<1>1. FwRuleType
  BY RoutersAssumption DEF RtrInit, FwRuleType, Objects
<1>2. ops \in [Desk -> OpRecs({NoPreview}, {<<>>})] /\ \A o \in Desk : OpOK(ops[o], router["rule"])
  BY NoOpFine DEF RtrInit
<1>3. OpsType
  BY <1>2 DEF OpsType
<1>4. SnapsType /\ DOMAIN snaps = {} /\ sweep = {}
  BY DEF RtrInit, SnapsType
<1> QED
  BY <1>1, <1>2, <1>3, <1>4 DEF RtrInv

LEMMA RtrPanel ==
    ASSUME RtrInv, NEW o \in Desk, Panel(o)
    PROVE  RtrInv'
<1>1. CASE \E kinds : Preview(o, kinds)
  BY <1>1, RtrPreview
<1>2. ASSUME NEW kinds, "none" \notin kinds, "firewall" \notin kinds, Apply(o, kinds, "write") PROVE RtrInv'
  BY <1>2, RtrApply
<1>3. CASE Apply(o, {"firewall"}, "snapshot")
  BY <1>3, RtrApply
<1>4. CASE ApplyAutoSetup(o)
  BY <1>4, RtrWriteQuiet, RtrWriteRule
<1>5. CASE autoSetupApplyHandler(o) \/ serviceApplyHandler(o) \/ poolPushApplyHandler(o) \/ wanApplyHandler(o)
           \/ wizardApplyHandler(o)
  BY <1>2, <1>5 DEF autoSetupApplyHandler, serviceApplyHandler, poolPushApplyHandler, wanApplyHandler, wizardApplyHandler
<1>6. CASE autoSetupPreviewHandler(o) \/ servicePlanHandler(o) \/ poolPushPlanHandler(o) \/ wanPlanHandler(o)
           \/ wizardPlanHandler(o) \/ firewallPlanHandler(o)
  BY <1>1, <1>6 DEF autoSetupPreviewHandler, servicePlanHandler, poolPushPlanHandler, wanPlanHandler,
     wizardPlanHandler, firewallPlanHandler
<1>7. CASE firewallApplyHandler(o)
  BY <1>3, <1>7 DEF firewallApplyHandler
<1> QED
  BY <1>4, <1>5, <1>6, <1>7, RtrSnapshot, RtrRecord DEF Panel

LEMMA RtrStep == RtrInv /\ [RtrNext]_rtrVars => RtrInv'
<1> SUFFICES ASSUME RtrInv, [RtrNext]_rtrVars PROVE RtrInv'
  OBVIOUS
<1>1. CASE adoptServiceHandler \/ poolAdoptHandler \/ wanAdoptHandler \/ createPoolHandler \/ updatePoolHandler
           \/ deletePoolHandler \/ UNCHANGED rtrVars
  BY <1>1, RtrRests DEF adoptServiceHandler, poolAdoptHandler, wanAdoptHandler, createPoolHandler,
     updatePoolHandler, deletePoolHandler, rtrVars
<1> QED
  BY <1>1, RtrPanel, RtrLapse, RtrSweep, RtrReverts, RtrByHand, RtrRestarts DEF RtrNext

LEMMA RtrHolds == RtrInv => RevertRestores
<1> SUFFICES ASSUME RtrInv, NEW n \in DOMAIN snaps, snaps[n].alone
             PROVE  /\ snaps[n].reverted /\ ~snaps[n].failed =>
                           \A f \in {"act", "src"} :
                               snaps[n].was[f] # 0 => router["rule"][f] = snaps[n].was[f]
                    /\ snaps[n].confirmed /\ ~snaps[n].late =>
                           /\ ~snaps[n].reverted
                           /\ router["rule"].act = Edited(snaps[n].after.v, snaps[n].was.act)
                           /\ router["rule"].src = Edited(snaps[n].after.w, snaps[n].was.src)
  BY DEF RevertRestores
<1>1. SnapOK(snaps[n], router["rule"], n \in sweep)
  BY DEF RtrInv
<1> QED
  BY <1>1 DEF SnapOK, AsEdited

\* A firewall edit that nobody else interferes with is taken back in every
\* field that had a value, or stands as it was made: for any number of
\* operators, requests, failures and edits made on the router, any request and
\* any router, with the worker, confirmations, lost answers and restarts in any
\* order (firewall_api.go:143-146, 225-227, firewall_store.go:65-68).
THEOREM RevertCorrect == RtrSpec => []RevertRestores
BY RtrInvInit, RtrStep, RtrHolds, PTL DEF RtrSpec
-----------------------------------------------------------------------------
(* The update relay.                                                       *)

Stages == {"backup", "apply", "health_check", "rolling_back"}
Events == Stages \union {"rolled_back", "failed"}
Lines  == Stages \union {"locked", "error", "complete", "unhealthy"}
ChildSteps == {"none", "spawn", "start", "backup", "apply", "restart", "health", "ok", "failed", "refused", "killed"}
RunRecs   == [events : Seq(Events), done : BOOLEAN, conflict : BOOLEAN, resolved : BOOLEAN, success : BOOLEAN,
              prev : {NoText, "old", "new"}, target : {NoText, "new"}, cut : BOOLEAN]
ConnRecs  == [at : {"none", "resolve", "tail", "locked", "ended"}, sent : Nat]
RelayRecs == [at : {"none", "first", "refused", "pump", "done", "lost"}, events : Seq(Events)]
ViewRecs(S) == [at : {"idle", "tail", "ended", "poll", "polled"}, of : Runs \union {NoRun}, seen : S]

UpdType ==
    /\ vfile \in {"old", "new"} /\ child \in [Children -> ChildSteps]
    /\ pipe \in [Runs -> Seq(Lines)] /\ run \in [Runs -> RunRecs]
    /\ conn \in [Runs -> ConnRecs] /\ relay \in [Runs -> RelayRecs]
    /\ \E S : viewer \in ViewRecs(S)

\* Nothing of the run exists yet.
Unasked(c, p, u, n, y) == c = "none" /\ p = <<>> /\ u = NewRun /\ n = NoConn /\ y = NoRelay

\* What the daemon has of the child: nothing before it starts, the refusal
\* alone of one that found the lock taken, and no verdict but the last entry.
Heard(c, p, u) ==
    /\ c \in {"spawn", "start", "backup", "apply", "restart", "failed", "refused"}
    /\ c \in {"spawn", "start"} => p = <<>> /\ u.events = <<>>
    /\ c = "refused" /\ ~u.done => p \in Seq({"locked"}) /\ u.events = <<>>
    /\ c # "refused" => p \in Seq(Lines \ {"locked"})
    /\ u.conflict => c = "refused" /\ u.events = <<>>
    /\ u.done => p = <<>> /\ c \in {"failed", "refused"}
    /\ u.done /\ ~u.conflict => u.events # <<>>
    /\ \A i \in 1..Len(u.events) : IsResult(u.events[i]) <=> u.done /\ i = Len(u.events)

\* What the relay has of the daemon: a part of the run in front, and all of it
\* once either end is closed.
Relayed(u, n, y) ==
    /\ u.prev # NoText /\ n.at # "none"
    /\ n.at = "ended" /\ y.at # "refused" => u.done /\ n.sent = Len(u.events)
    /\ y.at # "lost"
    /\ y.at \in {"pump", "done"} => /\ 0 < Len(y.events) /\ Len(y.events) <= n.sent
                                    /\ \A i \in 1..Len(y.events) : y.events[i] = u.events[i]
    /\ y.at = "done" => u.done /\ Len(y.events) = Len(u.events)

RunOK(c, p, u, n, y) ==
    /\ n.sent <= Len(u.events)
    /\ \/ Unasked(c, p, u, n, y)
       \/ u.cut
       \/ ~u.cut /\ Heard(c, p, u) /\ Relayed(u, n, y)

RunsOK == \A r \in Runs : RunOK(child[r], pipe[r], run[r], conn[r], relay[r])

ViewOK ==
    /\ viewer.at \in {"tail", "ended"} => viewer.of \in Runs
    /\ viewer.at = "tail" => relay[viewer.of].at \in {"pump", "done"}
    /\ viewer.at = "ended" => relay[viewer.of].at = "done" /\ viewer.seen = relay[viewer.of].events

UpdInv == UpdType /\ RunsOK /\ ViewOK

LEMMA TextFacts == NoText \notin {"old", "new"} /\ NoText \notin Events
  BY Zenon DEF NoText, Events, Stages

\* The child goes on, saying what it says.
LEMMA ChildStep ==
    ASSUME NEW c, NEW p \in Seq(Lines), NEW u \in RunRecs, NEW n, NEW y, NEW d, NEW l \in Seq(Lines),
           RunOK(c, p, u, n, y), c \in {"start", "backup", "apply"},
           \/ c = "start" /\ d = "refused" /\ l = <<"locked">>
           \/ d \in {"backup", "apply", "restart", "failed"} /\ l \in Seq(Lines \ {"locked"})
    PROVE  RunOK(d, p \o l, u, n, y)
<1>1. CASE u.cut
  BY <1>1 DEF RunOK
<1>2. CASE ~u.cut /\ Heard(c, p, u) /\ Relayed(u, n, y)
  <2>1. ~u.done /\ ~u.conflict /\ p \in Seq(Lines \ {"locked"}) /\ u.events \in Seq(Events)
    BY <1>2 DEF Heard, RunRecs
  <2>2. \A i \in 1..Len(u.events) : IsResult(u.events[i]) <=> u.done /\ i = Len(u.events)
    BY <1>2 DEF Heard
  <2>3. CASE c = "start" /\ d = "refused" /\ l = <<"locked">>
    <3>1. p = <<>> /\ u.events = <<>>
      BY <1>2, <2>3 DEF Heard
    <3>2. p \o l = <<"locked">>
      BY <2>3, <3>1
    <3>3. p \o l \in Seq({"locked"})
      BY <3>2
    <3>4. Heard(d, p \o l, u)
      BY <2>1, <2>2, <2>3, <3>1, <3>3 DEF Heard
    <3> QED BY <1>2, <3>4 DEF RunOK
  <2>4. CASE d \in {"backup", "apply", "restart", "failed"} /\ l \in Seq(Lines \ {"locked"})
    <3>1. p \o l \in Seq(Lines \ {"locked"})
      BY <2>1, <2>4
    <3>2. Heard(d, p \o l, u)
      BY <2>1, <2>2, <2>4, <3>1 DEF Heard
    <3> QED BY <1>2, <3>2 DEF RunOK
  <2> QED BY <2>3, <2>4
<1> QED BY <1>1, <1>2 DEF RunOK, Unasked

\* The scanner takes a line: it moves the stage, or not.
LEMMA ScanStep ==
    ASSUME NEW c, NEW p \in Seq(Lines), NEW u \in RunRecs, NEW n \in ConnRecs, NEW y \in RelayRecs, NEW v \in RunRecs,
           RunOK(c, p, u, n, y), p # <<>>, ~u.cut, ~v.cut, v.prev = u.prev, v.done = u.done,
           v.conflict = (u.conflict \/ Head(p) = "locked"),
           \/ v.events = u.events
           \/ Head(p) # "locked" /\ \E s \in Stages : v.events = Append(u.events, s)
    PROVE  RunOK(c, Tail(p), v, n, y)
<1>1. Heard(c, p, u) /\ Relayed(u, n, y)
  BY DEF RunOK, Unasked
<1>2. ~u.done /\ c \notin {"spawn", "start"}
  BY <1>1 DEF Heard
<1>3. /\ u.events \in Seq(Events) /\ v.events \in Seq(Events) /\ n.sent \in Nat /\ n.sent <= Len(u.events)
      /\ y.events \in Seq(Events)
  BY DEF RunRecs, RunOK, ConnRecs, RelayRecs
<1>4. /\ Len(u.events) <= Len(v.events)
      /\ \A i \in 1..Len(u.events) : v.events[i] = u.events[i]
      /\ \A i \in 1..Len(v.events) : i > Len(u.events) => v.events[i] \in Stages
  <2>1. CASE v.events = u.events
    BY <1>3, <2>1
  <2>2. CASE \E s \in Stages : v.events = Append(u.events, s)
    BY <1>3, <2>2
  <2> QED BY <2>1, <2>2
<1>5. \A i \in 1..Len(v.events) : ~IsResult(v.events[i])
  <2> SUFFICES ASSUME NEW i \in 1..Len(v.events) PROVE ~IsResult(v.events[i])
    OBVIOUS
  <2>1. CASE i \in 1..Len(u.events)
    BY <1>1, <1>2, <1>4, <2>1 DEF Heard
  <2>2. CASE i > Len(u.events)
    BY <1>4, <2>2 DEF IsResult, Stages
  <2> QED BY <1>3, <2>1, <2>2
<1>6. CASE c = "refused"
  <2>1. p \in Seq({"locked"}) /\ u.events = <<>>
    BY <1>1, <1>2, <1>6 DEF Heard
  <2>2. Head(p) = "locked" /\ Tail(p) \in Seq({"locked"})
    BY <2>1
  <2>3. v.events = <<>>
    BY <2>1, <2>2
  <2>4. Heard(c, Tail(p), v)
    BY <1>2, <1>5, <1>6, <2>2, <2>3 DEF Heard
  <2>5. Relayed(v, n, y)
    BY <1>1, <1>2, <1>3, <1>4, <2>1, <2>3 DEF Relayed
  <2> QED BY <1>3, <1>4, <2>1, <2>3, <2>4, <2>5 DEF RunOK
<1>7. CASE c # "refused"
  <2>1. p \in Seq(Lines \ {"locked"}) /\ ~u.conflict
    BY <1>1, <1>7 DEF Heard
  <2>2. Head(p) # "locked" /\ Tail(p) \in Seq(Lines \ {"locked"})
    BY <2>1
  <2>3. Heard(c, Tail(p), v)
    BY <1>1, <1>2, <1>5, <1>7, <2>1, <2>2 DEF Heard
  <2>4. \A i \in 1..Len(y.events) : Len(y.events) <= n.sent => v.events[i] = u.events[i]
    BY <1>3, <1>4
  <2>5. Relayed(v, n, y)
    BY <1>1, <1>2, <1>3, <1>4, <2>4 DEF Relayed
  <2>6. n.sent <= Len(v.events)
    BY <1>3, <1>4
  <2> QED BY <2>3, <2>5, <2>6 DEF RunOK
<1> QED BY <1>6, <1>7

\* The verdict, on a child that is gone and was read to its end.
LEMMA FinishStep ==
    ASSUME NEW c, NEW u \in RunRecs, NEW n \in ConnRecs, NEW y \in RelayRecs, NEW v \in RunRecs,
           RunOK(c, <<>>, u, n, y), c \in {"failed", "refused"}, ~u.done, ~u.cut, ~v.cut,
           v.prev = u.prev, v.done, v.conflict = u.conflict,
           \/ u.conflict /\ v.events = u.events
           \/ ~u.conflict /\ \E w \in {"rolled_back", "failed"} : v.events = Append(u.events, w)
    PROVE  RunOK(c, <<>>, v, n, y)
<1>1. Heard(c, <<>>, u) /\ Relayed(u, n, y)
  BY DEF RunOK, Unasked
<1>2. /\ u.events \in Seq(Events) /\ v.events \in Seq(Events) /\ n.sent \in Nat /\ n.sent <= Len(u.events)
      /\ y.events \in Seq(Events)
  BY DEF RunRecs, RunOK, ConnRecs, RelayRecs
<1>3. /\ Len(u.events) <= Len(v.events)
      /\ \A i \in 1..Len(u.events) : v.events[i] = u.events[i]
  BY <1>2, SMTT(30)
<1>4. Heard(c, <<>>, v)
  <2>1. CASE u.conflict
    BY <1>1, <1>2, <2>1 DEF Heard
  <2>2. CASE ~u.conflict
    <3>1. PICK w \in {"rolled_back", "failed"} : v.events = Append(u.events, w)
      BY <2>2
    <3>0. w \in Events
      BY DEF Events
    <3>2. Len(v.events) = Len(u.events) + 1 /\ v.events[Len(v.events)] = w
      BY <1>2, <3>0, <3>1
    <3>a. v.events # <<>>
      BY <1>2, <3>2
    <3>3. \A i \in 1..Len(v.events) : IsResult(v.events[i]) <=> i = Len(v.events)
      <4> SUFFICES ASSUME NEW i \in 1..Len(v.events)
                   PROVE IsResult(v.events[i]) <=> i = Len(v.events)
        OBVIOUS
      <4>1. CASE i = Len(v.events)
        BY <3>2, <4>1 DEF IsResult
      <4>2. CASE i \in 1..Len(u.events)
        BY <1>1, <1>2, <1>3, <3>2, <4>2 DEF Heard
      <4> QED BY <1>2, <3>2, <4>1, <4>2
    <3>4. c = "failed" \/ c = "refused"
      OBVIOUS
    <3>5. c # "refused" => <<>> \in Seq(Lines \ {"locked"})
      OBVIOUS
    <3> QED BY <2>2, <3>a, <3>3, <3>4, <3>5 DEF Heard
  <2> QED BY <2>1, <2>2
<1>5. \A i \in 1..Len(y.events) : Len(y.events) <= n.sent => v.events[i] = u.events[i]
  BY <1>2, <1>3
<1>6. Relayed(v, n, y)
  BY <1>1, <1>2, <1>3, <1>5 DEF Relayed
<1>7. n.sent <= Len(v.events)
  BY <1>2, <1>3
<1> QED BY <1>4, <1>6, <1>7 DEF RunOK

\* The daemon's end of the connection goes on.
LEMMA ConnStep ==
    ASSUME NEW c, NEW p, NEW u \in RunRecs, NEW n \in ConnRecs, NEW y \in RelayRecs, NEW m \in ConnRecs,
           RunOK(c, p, u, n, y), n.at \in {"resolve", "tail"}, m.at # "none", m.sent \in {n.sent, Len(u.events)},
           m.at = "ended" => u.done /\ m.sent = Len(u.events)
    PROVE  RunOK(c, p, u, m, y)
<1>1. n.sent \in Nat /\ n.sent <= Len(u.events) /\ Len(u.events) \in Nat /\ Len(y.events) \in Nat
  BY DEF RunOK, RunRecs, ConnRecs, RelayRecs
<1>2. n.sent <= m.sent /\ m.sent <= Len(u.events) /\ m.sent \in Nat
  BY <1>1
<1>3. ~Unasked(c, p, u, n, y)
  BY DEF Unasked, NoConn
<1>4. ASSUME Relayed(u, n, y) PROVE Relayed(u, m, y)
  BY <1>1, <1>2, <1>4 DEF Relayed
<1> QED BY <1>2, <1>3, <1>4 DEF RunOK

\* The relay goes on: asked, refused, started, fed or closed.
LEMMA RelayStep ==
    ASSUME NEW c, NEW p, NEW u \in RunRecs, NEW n \in ConnRecs, NEW y \in RelayRecs,
           NEW m \in ConnRecs, NEW z \in RelayRecs, RunOK(c, p, u, n, y), n.at # "none" \/ y.at # "none", m.sent = n.sent,
           \/ y.at # "refused" /\ z.at = "first" /\ m = n
           \/ z.at = "refused" /\ m.at = "ended"
           \/ y.at = "first" /\ z.at = "pump" /\ n.sent > 0 /\ z.events = <<u.events[1]>> /\ m = n
           \/ /\ y.at = "pump" /\ z.at = "pump" /\ m = n
              /\ Len(y.events) < n.sent /\ z.events = Append(y.events, u.events[Len(y.events) + 1])
           \/ /\ y.at = "pump" /\ z.at = "done" /\ m = n /\ z.events = y.events
              /\ IsResult(y.events[Len(y.events)]) \/ (Len(y.events) = n.sent /\ n.at = "ended")
    PROVE  RunOK(c, p, u, m, z)
<1>1. /\ n.sent \in Nat /\ n.sent <= Len(u.events) /\ u.events \in Seq(Events) /\ y.events \in Seq(Events)
      /\ z.events \in Seq(Events)
  BY DEF RunOK, RunRecs, ConnRecs, RelayRecs
<1>2. ~Unasked(c, p, u, n, y)
  BY DEF Unasked, NoConn, NoRelay
<1>3. CASE u.cut
  BY <1>1, <1>3 DEF RunOK
<1>4. CASE ~u.cut /\ Heard(c, p, u) /\ Relayed(u, n, y)
  <2> SUFFICES Relayed(u, m, z)
    BY <1>1, <1>4 DEF RunOK
  <2>1. CASE y.at # "refused" /\ z.at = "first" /\ m = n
    BY <1>4, <2>1 DEF Relayed
  <2>2. CASE z.at = "refused" /\ m.at = "ended"
    BY <1>4, <2>2 DEF Relayed
  <2>3. CASE y.at = "first" /\ z.at = "pump" /\ n.sent > 0 /\ z.events = <<u.events[1]>> /\ m = n
    <3>1. Len(z.events) = 1 /\ z.events[1] = u.events[1]
      BY <2>3
    <3> QED BY <1>1, <1>4, <2>3, <3>1 DEF Relayed
  <2>4. CASE /\ y.at = "pump" /\ z.at = "pump" /\ m = n
             /\ Len(y.events) < n.sent /\ z.events = Append(y.events, u.events[Len(y.events) + 1])
    <3>1. 0 < Len(y.events) /\ \A i \in 1..Len(y.events) : y.events[i] = u.events[i]
      BY <1>4, <2>4 DEF Relayed
    <3>2. Len(z.events) = Len(y.events) + 1
      BY <1>1, <2>4
    <3>3. \A i \in 1..Len(z.events) : z.events[i] = u.events[i]
      BY <1>1, <2>4, <3>1, <3>2
    <3>4. 0 < Len(z.events) /\ Len(z.events) <= n.sent
      BY <1>1, <2>4, <3>2
    <3> QED BY <1>4, <2>4, <3>3, <3>4 DEF Relayed
  <2>5. CASE /\ y.at = "pump" /\ z.at = "done" /\ m = n /\ z.events = y.events
             /\ IsResult(y.events[Len(y.events)]) \/ (Len(y.events) = n.sent /\ n.at = "ended")
    <3>1. /\ 0 < Len(y.events) /\ Len(y.events) <= n.sent
          /\ \A i \in 1..Len(y.events) : y.events[i] = u.events[i]
      BY <1>4, <2>5 DEF Relayed
    <3>2. CASE IsResult(y.events[Len(y.events)])
      <4>1. Len(y.events) \in 1..Len(u.events) /\ Len(y.events) \in 1..Len(y.events)
        BY <1>1, <3>1
      <4>2. IsResult(u.events[Len(y.events)])
        BY <3>1, <3>2, <4>1
      <4>3. u.done /\ Len(y.events) = Len(u.events)
        BY <1>4, <4>1, <4>2 DEF Heard
      <4> QED BY <1>1, <1>4, <2>5, <3>1, <4>3 DEF Relayed
    <3>3. CASE Len(y.events) = n.sent /\ n.at = "ended"
      BY <1>1, <1>4, <2>5, <3>1, <3>3 DEF Relayed
    <3> QED BY <2>5, <3>2, <3>3
  <2> QED BY <2>1, <2>2, <2>3, <2>4, <2>5
<1> QED BY <1>2, <1>3, <1>4 DEF RunOK

\* A restart of the daemon cuts off every run that was asked for.
LEMMA CutStep ==
    ASSUME NEW c, NEW p, NEW u \in RunRecs, NEW n \in ConnRecs, NEW y, NEW d, NEW v, NEW m, NEW z,
           RunOK(c, p, u, n, y), c = "none" => d = "none",
           v = (IF u = NewRun THEN NewRun ELSE [u EXCEPT !.cut = TRUE]),
           m = (IF n.at = "none" THEN NoConn ELSE [n EXCEPT !.at = "ended"]), y = NoRelay => z = NoRelay
    PROVE  RunOK(d, <<>>, v, m, z)
<1>1. n.sent \in Nat /\ n.sent <= Len(u.events) /\ Len(u.events) \in Nat
  BY DEF RunOK, RunRecs, ConnRecs
<1>2. CASE Unasked(c, p, u, n, y)
  <2>1. v = NewRun /\ m = NoConn /\ z = NoRelay /\ d = "none"
    BY <1>2 DEF Unasked, NoConn
  <2>2. m.sent <= Len(v.events)
    BY <1>1, <1>2, <2>1 DEF Unasked
  <2> QED BY <2>1, <2>2 DEF RunOK, Unasked
<1>3. CASE u # NewRun
  <2>1. v.cut /\ v.events = u.events /\ (m.sent = 0 \/ m.sent = n.sent)
    BY <1>3 DEF NoConn, RunRecs, ConnRecs
  <2> QED BY <1>1, <2>1 DEF RunOK
<1>4. CASE u = NewRun
  BY <1>2, <1>4 DEF RunOK, Relayed, NewRun
<1> QED BY <1>3, <1>4

LEMMA StartStep ==
    ASSUME NEW c, NEW p, NEW u, NEW n \in ConnRecs, NEW y, NEW v, NEW m,
           RunOK(c, p, u, n, y), u = NewRun, c = "none", v.prev # NoText,
           v.events = <<>>, ~v.done, ~v.conflict, ~v.cut, m.at = "resolve", m.sent = n.sent
    PROVE  RunOK("spawn", p, v, m, y)
<1>1. Unasked(c, p, u, n, y)
  BY DEF RunOK, NewRun, Heard
<1>2. m.at = "resolve" /\ m.sent = 0 /\ y.at = "none" /\ p = <<>>
  BY <1>1 DEF Unasked, NoConn, NoRelay
<1>3. Len(v.events) = 0
  OBVIOUS
<1>4. Heard("spawn", p, v)
  BY <1>2, <1>3 DEF Heard
<1>5. Relayed(v, m, y)
  BY <1>2 DEF Relayed
<1> QED BY <1>2, <1>3, <1>4, <1>5 DEF RunOK

LEMMA SpawnStep ==
    ASSUME NEW c, NEW p, NEW u, NEW n, NEW y, NEW d, NEW v,
           RunOK(c, p, u, n, y), c = "spawn", d \in {"start", "failed"}, v.prev = u.prev,
           v.events = u.events, v.done = u.done, v.conflict = u.conflict, v.cut = u.cut
    PROVE  RunOK(d, p, v, n, y)
<1>1. CASE u.cut
  BY <1>1 DEF RunOK
<1>2. CASE ~u.cut /\ Heard(c, p, u) /\ Relayed(u, n, y)
  <2>1. p = <<>> /\ ~u.done /\ ~u.conflict
    BY <1>2 DEF Heard
  <2>2. Heard(d, p, v)
    BY <1>2, <2>1 DEF Heard
  <2>3. Relayed(v, n, y)
    BY <1>2 DEF Relayed
  <2> QED BY <1>2, <2>2, <2>3 DEF RunOK
<1> QED BY <1>1, <1>2 DEF RunOK, Unasked

\* Run r alone moves, and what the viewer follows stays open.
OneRun(r) ==
    \A k \in Runs : k # r => /\ child'[k] = child[k] /\ pipe'[k] = pipe[k] /\ run'[k] = run[k]
                             /\ conn'[k] = conn[k] /\ relay'[k] = relay[k]
OpenKept == /\ viewer' = viewer
            /\ \A k \in Runs : /\ relay[k].at \in {"pump", "done"} => relay'[k].at \in {"pump", "done"}
                               /\ relay[k].at = "done" => relay'[k] = relay[k]

LEMMA RunsKept ==
    ASSUME NEW r, OneRun(r), RunsOK,
           r \in Runs => RunOK(child'[r], pipe'[r], run'[r], conn'[r], relay'[r])
    PROVE  RunsOK'
<1>1. ASSUME NEW k \in Runs PROVE RunOK(child'[k], pipe'[k], run'[k], conn'[k], relay'[k])
  <2>1. CASE k = r
    BY <2>1
  <2>2. CASE k # r
    <3>1. RunOK(child[k], pipe[k], run[k], conn[k], relay[k])
      BY DEF RunsOK
    <3>2. /\ child'[k] = child[k] /\ pipe'[k] = pipe[k] /\ run'[k] = run[k]
          /\ conn'[k] = conn[k] /\ relay'[k] = relay[k]
      BY <2>2 DEF OneRun
    <3> QED BY <3>1, <3>2
  <2> QED BY <2>1, <2>2
<1> QED BY <1>1 DEF RunsOK

LEMMA ViewKept == ASSUME UpdType, ViewOK, OpenKept PROVE ViewOK'
  BY DEF ViewOK, OpenKept, UpdType

\* A step of the child c, of the panel's or of a shell.
LEMMA ChildMoves ==
    ASSUME UpdInv, NEW c \in Children, NEW d \in ChildSteps, NEW l \in Seq(Lines),
           child[c] \in {"start", "backup", "apply"}, child' = [child EXCEPT ![c] = d], Emit(c, l),
           \/ child[c] = "start" /\ d = "refused" /\ l = <<"locked">>
           \/ d \in {"backup", "apply", "restart", "failed"} /\ l \in Seq(Lines \ {"locked"}),
           vfile' \in {"old", "new"}, UNCHANGED <<run, conn, relay, viewer>>
    PROVE  UpdInv'
<1>1. UpdType'
  <2>1. pipe' \in [Runs -> Seq(Lines)]
    BY DEF UpdInv, UpdType, Emit
  <2> QED BY <2>1 DEF UpdInv, UpdType
<1>2. OneRun(c)
  BY DEF OneRun, Emit, UpdInv, UpdType
<1>3. ASSUME c \in Runs PROVE RunOK(child'[c], pipe'[c], run'[c], conn'[c], relay'[c])
  <2>1. PICK g, p, u, n, y : g = child[c] /\ p = pipe[c] /\ u = run[c] /\ n = conn[c] /\ y = relay[c]
    OBVIOUS
  <2>2. p \in Seq(Lines) /\ u \in RunRecs /\ RunOK(g, p, u, n, y)
    BY <1>3, <2>1 DEF UpdInv, UpdType, RunsOK
  <2>3. RunOK(d, p \o l, u, n, y)
    BY <2>1, <2>2, ChildStep
  <2>4. child'[c] = d /\ pipe'[c] = p \o l /\ run'[c] = u /\ conn'[c] = n /\ relay'[c] = y
    BY <1>3, <2>1 DEF UpdInv, UpdType, Emit
  <2> QED BY <2>3, <2>4
<1>4. RunsOK'
  BY <1>2, <1>3, RunsKept DEF UpdInv
<1>5. ViewOK'
  BY ViewKept DEF UpdInv, OpenKept
<1> QED BY <1>1, <1>4, <1>5 DEF UpdInv

LEMMA SaysOne == ASSUME NEW x \in Lines PROVE <<x>> \in Seq(Lines) /\ (x # "locked" => <<x>> \in Seq(Lines \ {"locked"}))
  OBVIOUS

LEMMA CmdUpdateInv == ASSUME UpdInv, NEW c \in Children, CmdUpdate(c) PROVE UpdInv'
<1>1. PICK l, d : /\ child' = [child EXCEPT ![c] = d] /\ Emit(c, l)
                  /\ \/ d = "backup" /\ l = <<"backup">>
                     \/ d = "refused" /\ l = <<"locked">>
  BY DEF CmdUpdate, Exit
<1>4. l \in Seq(Lines) /\ d \in ChildSteps
  BY <1>1, SaysOne DEF Lines, Stages, ChildSteps
<1>2. l = <<"backup">> => l \in Seq(Lines \ {"locked"})
  BY DEF Lines, Stages
<1>3. vfile' \in {"old", "new"} /\ UNCHANGED <<run, conn, relay, viewer>>
  BY DEF UpdInv, UpdType, CmdUpdate, api
<1> QED BY <1>1, <1>2, <1>3, <1>4, ChildMoves DEF CmdUpdate

LEMMA BackupNowInv == ASSUME UpdInv, NEW c \in Children, BackupNow(c) PROVE UpdInv'
<1>1. PICK l, d : /\ child' = [child EXCEPT ![c] = d] /\ Emit(c, l) /\ d \in {"apply", "failed"}
                  /\ l \in {<<"apply", "health_check">>, <<"health_check">>, <<"error">>}
  BY DEF BackupNow, GoTo, Exit
<1>2. l \in Seq(Lines \ {"locked"}) /\ l \in Seq(Lines) /\ d \in ChildSteps
  <2>1. {"apply", "health_check", "error"} \subseteq Lines \ {"locked"}
    BY DEF Lines, Stages
  <2>2. <<"apply", "health_check">> \in Seq(Lines \ {"locked"}) /\ <<"apply", "health_check">> \in Seq(Lines)
    BY <2>1
  <2>3. d \in ChildSteps
    BY <1>1 DEF ChildSteps
  <2>4. l \in Seq(Lines \ {"locked"}) /\ l \in Seq(Lines)
    BY <1>1, <2>1, <2>2, SaysOne
  <2> QED BY <2>3, <2>4
<1>3. vfile' \in {"old", "new"} /\ UNCHANGED <<run, conn, relay, viewer>>
  BY DEF UpdInv, UpdType, BackupNow, api
<1>4. d \in {"backup", "apply", "restart", "failed"} /\ child[c] \in {"start", "backup", "apply"}
  BY <1>1 DEF BackupNow
<1> QED BY <1>1, <1>2, <1>3, <1>4, ChildMoves

LEMMA InstallReleaseInv == ASSUME UpdInv, NEW c \in Children, InstallRelease(c) PROVE UpdInv'
<1>1. CASE child' = [child EXCEPT ![c] = "failed"] /\ Emit(c, <<"rolling_back">>)
  <2>1. <<"rolling_back">> \in Seq(Lines \ {"locked"}) /\ <<"rolling_back">> \in Seq(Lines)
    BY DEF Lines, Stages
  <2>2. vfile' \in {"old", "new"} /\ UNCHANGED <<run, conn, relay, viewer>>
    BY DEF UpdInv, UpdType, InstallRelease, api
  <2>3. "failed" \in ChildSteps /\ child[c] \in {"start", "backup", "apply"}
    BY DEF ChildSteps, InstallRelease
  <2> QED BY <1>1, <2>1, <2>2, <2>3, ChildMoves
<1>2. CASE child' = [child EXCEPT ![c] = "restart"] /\ UNCHANGED pipe
  <2>1. <<>> \in Seq(Lines \ {"locked"}) /\ <<>> \in Seq(Lines)
    OBVIOUS
  <2>2. vfile' \in {"old", "new"} /\ UNCHANGED <<run, conn, relay, viewer>>
    BY DEF UpdInv, UpdType, InstallRelease, api
  <2>3. "restart" \in ChildSteps /\ child[c] \in {"start", "backup", "apply"}
    BY DEF ChildSteps, InstallRelease
  <2>4. Emit(c, <<>>)
    BY <1>2 DEF Emit, UpdInv, UpdType
  <2> QED BY <1>2, <2>1, <2>2, <2>3, <2>4, ChildMoves
<1> QED BY <1>1, <1>2 DEF InstallRelease, GoTo, Exit

\* Only a child of a shell gets as far as the health check.
LEMMA NoHealth == ASSUME UpdInv, NEW r \in Runs, ~run[r].cut PROVE child[r] \notin {"health", "ok"}
  BY DEF UpdInv, RunsOK, RunOK, Unasked, Heard

LEMMA WaitForHealthInv == ASSUME UpdInv, NEW c \in Children, WaitForHealth(c) PROVE UpdInv'
<1>0. PICK l, d : /\ child' = [child EXCEPT ![c] = d] /\ Emit(c, l) /\ d \in {"ok", "failed"}
                  /\ l \in {<<"complete">>, <<"unhealthy">>}
  BY DEF WaitForHealth, Exit
<1>6. l \in Seq(Lines) /\ d \in ChildSteps
  BY <1>0, SaysOne DEF Lines, Stages, ChildSteps
<1>1. UpdType'
  <2>1. child' \in [Children -> ChildSteps]
    BY <1>0, <1>6 DEF UpdInv, UpdType
  <2>2. pipe' \in [Runs -> Seq(Lines)]
    BY <1>0, <1>6 DEF UpdInv, UpdType, Emit
  <2> QED BY <2>1, <2>2 DEF UpdInv, UpdType, WaitForHealth, api
<1>2. OneRun(c)
  <2>1. UNCHANGED <<run, conn, relay>>
    BY DEF WaitForHealth, api
  <2> QED BY <1>0, <2>1 DEF OneRun, Emit, UpdInv, UpdType
<1>3. ASSUME c \in Runs PROVE RunOK(child'[c], pipe'[c], run'[c], conn'[c], relay'[c])
  <2>1. run[c].cut
    BY <1>3, NoHealth DEF WaitForHealth
  <2> QED BY <1>3, <2>1 DEF WaitForHealth, RunOK, UpdInv, RunsOK, api
<1>4. RunsOK'
  BY <1>2, <1>3, RunsKept DEF UpdInv
<1>5. ViewOK'
  BY ViewKept DEF UpdInv, OpenKept, WaitForHealth, api
<1> QED BY <1>1, <1>4, <1>5 DEF UpdInv

LEMMA CliUpdateInv == ASSUME UpdInv, NEW c \in Clis, CliUpdate(c) PROVE UpdInv'
<1>1. c \notin Runs /\ c \in Children
  BY UpdaterAssumption DEF Children
<1>2. UpdType'
  BY <1>1 DEF UpdInv, UpdType, CliUpdate, ChildSteps, host, api
<1>3. OneRun(c)
  BY <1>1 DEF OneRun, CliUpdate, UpdInv, UpdType, api, Children
<1>4. RunsOK'
  BY <1>1, <1>3, RunsKept DEF UpdInv
<1>5. ViewOK'
  BY ViewKept DEF UpdInv, OpenKept, CliUpdate, api
<1> QED BY <1>2, <1>4, <1>5 DEF UpdInv

\* A step of the panel's run r that leaves the viewer alone.
LEMMA RunMoves ==
    ASSUME UpdInv, NEW r \in Runs, NEW d \in ChildSteps, NEW p \in Seq(Lines), NEW u \in RunRecs,
           NEW n \in ConnRecs, NEW y \in RelayRecs, RunOK(d, p, u, n, y),
           child' = [child EXCEPT ![r] = d], pipe' = [pipe EXCEPT ![r] = p], run' = [run EXCEPT ![r] = u],
           conn' = [conn EXCEPT ![r] = n], relay' = [relay EXCEPT ![r] = y], UNCHANGED <<vfile, viewer>>,
           relay[r].at \in {"pump", "done"} => y.at \in {"pump", "done"},
           relay[r].at = "done" => y = relay[r]
    PROVE  UpdInv'
<1>0. r \in Children
  BY DEF Children
<1>1. UpdType'
  BY <1>0 DEF UpdInv, UpdType
<1>2. OneRun(r)
  BY DEF OneRun, UpdInv, UpdType
<1>3. RunOK(child'[r], pipe'[r], run'[r], conn'[r], relay'[r])
  <2>1. child'[r] = d /\ pipe'[r] = p /\ run'[r] = u /\ conn'[r] = n /\ relay'[r] = y
    BY <1>0 DEF UpdInv, UpdType
  <2> QED BY <2>1
<1>4. RunsOK'
  BY <1>2, <1>3, RunsKept DEF UpdInv
<1>5. ViewOK'
  <2>1. OpenKept
    BY DEF OpenKept, UpdInv, UpdType
  <2> QED BY <2>1, ViewKept DEF UpdInv
<1> QED BY <1>1, <1>4, <1>5 DEF UpdInv

\* What the invariant says of one run.
LEMMA OfRun ==
    ASSUME UpdInv, NEW r \in Runs
    PROVE  \E c \in ChildSteps, p \in Seq(Lines), u \in RunRecs, n \in ConnRecs, y \in RelayRecs :
              /\ RunOK(c, p, u, n, y)
              /\ c = child[r] /\ p = pipe[r] /\ u = run[r] /\ n = conn[r] /\ y = relay[r]
              /\ child = [child EXCEPT ![r] = c] /\ pipe = [pipe EXCEPT ![r] = p]
              /\ run = [run EXCEPT ![r] = u] /\ conn = [conn EXCEPT ![r] = n] /\ relay = [relay EXCEPT ![r] = y]
<1>1. child[r] \in ChildSteps /\ pipe[r] \in Seq(Lines) /\ run[r] \in RunRecs /\ conn[r] \in ConnRecs
      /\ relay[r] \in RelayRecs
  BY DEF UpdInv, UpdType, Children
<1>2. RunOK(child[r], pipe[r], run[r], conn[r], relay[r])
  BY DEF UpdInv, RunsOK
<1>3. /\ child = [child EXCEPT ![r] = child[r]] /\ pipe = [pipe EXCEPT ![r] = pipe[r]]
      /\ run = [run EXCEPT ![r] = run[r]] /\ conn = [conn EXCEPT ![r] = conn[r]]
      /\ relay = [relay EXCEPT ![r] = relay[r]]
  BY DEF UpdInv, UpdType, Children
<1> QED BY <1>1, <1>2, <1>3

LEMMA StartUpdateInv == ASSUME UpdInv, NEW r \in Runs, StartUpdate(r) PROVE UpdInv'
<1>1. PICK c \in ChildSteps, p \in Seq(Lines), u \in RunRecs, n \in ConnRecs, y \in RelayRecs :
              /\ RunOK(c, p, u, n, y)
              /\ c = child[r] /\ p = pipe[r] /\ u = run[r] /\ n = conn[r] /\ y = relay[r]
              /\ child = [child EXCEPT ![r] = c] /\ pipe = [pipe EXCEPT ![r] = p]
              /\ run = [run EXCEPT ![r] = u] /\ conn = [conn EXCEPT ![r] = n] /\ relay = [relay EXCEPT ![r] = y]
  BY OfRun
<1>2. PICK b \in {NoText, "new"} : run' = [run EXCEPT ![r].prev = vfile, ![r].target = b]
  BY DEF StartUpdate
<1>3. PICK v, m : v = [u EXCEPT !.prev = vfile, !.target = b] /\ m = [n EXCEPT !.at = "resolve"]
  OBVIOUS
<1>4. u = NewRun /\ c = "none"
  BY <1>1 DEF StartUpdate
<1>5. v \in RunRecs /\ m \in ConnRecs
  BY <1>3 DEF RunRecs, ConnRecs, UpdInv, UpdType
<1>6. v.prev # NoText /\ v.events = <<>> /\ ~v.done /\ ~v.conflict /\ ~v.cut
  BY <1>3, <1>4, TextFacts DEF NewRun, UpdInv, UpdType
<1>7. RunOK("spawn", p, v, m, y)
  <2>1. m.at = "resolve" /\ m.sent = n.sent
    BY <1>3 DEF ConnRecs
  <2>2. RunOK(c, p, u, n, y)
    BY <1>1
  <2> QED BY <1>4, <1>6, <2>1, <2>2, StartStep
<1>8. /\ child' = [child EXCEPT ![r] = "spawn"] /\ pipe' = [pipe EXCEPT ![r] = p]
      /\ run' = [run EXCEPT ![r] = v] /\ conn' = [conn EXCEPT ![r] = m] /\ relay' = [relay EXCEPT ![r] = y]
  <2>1. run' = [run EXCEPT ![r] = v]
    BY <1>1, <1>2, <1>3 DEF UpdInv, UpdType
  <2>2. conn' = [conn EXCEPT ![r] = m]
    BY <1>1, <1>3 DEF StartUpdate, UpdInv, UpdType
  <2>3. /\ child' = [child EXCEPT ![r] = "spawn"] /\ pipe' = [pipe EXCEPT ![r] = p]
        /\ relay' = [relay EXCEPT ![r] = y]
    BY <1>1 DEF StartUpdate, api
  <2> QED BY <2>1, <2>2, <2>3
<1>9. UNCHANGED <<vfile, viewer>> /\ "spawn" \in ChildSteps
  BY DEF StartUpdate, host, api, ChildSteps
<1> QED BY <1>1, <1>5, <1>7, <1>8, <1>9, RunMoves

LEMMA SpawnChildInv == ASSUME UpdInv, NEW r \in Runs, SpawnChild(r) PROVE UpdInv'
<1>1. PICK c \in ChildSteps, p \in Seq(Lines), u \in RunRecs, n \in ConnRecs, y \in RelayRecs :
              /\ RunOK(c, p, u, n, y)
              /\ c = child[r] /\ p = pipe[r] /\ u = run[r] /\ n = conn[r] /\ y = relay[r]
              /\ child = [child EXCEPT ![r] = c] /\ pipe = [pipe EXCEPT ![r] = p]
              /\ run = [run EXCEPT ![r] = u] /\ conn = [conn EXCEPT ![r] = n] /\ relay = [relay EXCEPT ![r] = y]
  BY OfRun
<1>2. PICK d, v : /\ d \in {"start", "failed"} /\ child' = [child EXCEPT ![r] = d] /\ run' = [run EXCEPT ![r] = v]
                  /\ v \in {u, [u EXCEPT !.resolved = TRUE]}
  <2>1. CASE child' = [child EXCEPT ![r] = "start"] /\ UNCHANGED run
    BY <1>1, <2>1
  <2>2. CASE child' = [child EXCEPT ![r] = "failed"] /\ run' = [run EXCEPT ![r].resolved = TRUE]
    BY <1>1, <2>2 DEF UpdInv, UpdType
  <2> QED BY <2>1, <2>2 DEF SpawnChild
<1>3. v \in RunRecs /\ d \in ChildSteps
  BY <1>2 DEF RunRecs, ChildSteps
<1>4. v.prev = u.prev /\ v.events = u.events /\ v.done = u.done /\ v.conflict = u.conflict /\ v.cut = u.cut
  BY <1>2 DEF RunRecs
<1>5. RunOK(d, p, v, n, y)
  BY <1>1, <1>2, <1>4, SpawnStep DEF SpawnChild
<1>6. /\ pipe' = [pipe EXCEPT ![r] = p] /\ conn' = [conn EXCEPT ![r] = n] /\ relay' = [relay EXCEPT ![r] = y]
      /\ UNCHANGED <<vfile, viewer>>
  BY <1>1 DEF SpawnChild, host, api
<1> QED BY <1>1, <1>2, <1>3, <1>5, <1>6, RunMoves

LEMMA ScanLineInv == ASSUME UpdInv, NEW r \in Runs, ScanLine(r) PROVE UpdInv'
<1>1. PICK c \in ChildSteps, p \in Seq(Lines), u \in RunRecs, n \in ConnRecs, y \in RelayRecs :
              /\ RunOK(c, p, u, n, y)
              /\ c = child[r] /\ p = pipe[r] /\ u = run[r] /\ n = conn[r] /\ y = relay[r]
              /\ child = [child EXCEPT ![r] = c] /\ pipe = [pipe EXCEPT ![r] = p]
              /\ run = [run EXCEPT ![r] = u] /\ conn = [conn EXCEPT ![r] = n] /\ relay = [relay EXCEPT ![r] = y]
  BY OfRun
<1>2. p # <<>> /\ ~u.cut /\ Head(p) \in Lines /\ Tail(p) \in Seq(Lines)
  BY <1>1 DEF ScanLine
<1>3. Classify(Head(p)) \in Stages \union {NoText} /\ (Head(p) = "locked" => Classify(Head(p)) = NoText)
  BY <1>2 DEF Classify, Stages
<1>4. PICK g : g \in {u.events, Append(u.events, Classify(Head(p)))}
               /\ (g # u.events => Classify(Head(p)) # NoText)
               /\ run' = [run EXCEPT ![r].resolved = TRUE, ![r].conflict = @ \/ Head(p) = "locked",
                                     ![r].success = @ \/ Head(p) = "complete", ![r].events = g]
  BY <1>1 DEF ScanLine
<1>5. PICK v : v = [u EXCEPT !.resolved = TRUE, !.conflict = @ \/ Head(p) = "locked",
                             !.success = @ \/ Head(p) = "complete", !.events = g]
  OBVIOUS
<1>6. u.events \in Seq(Events)
  BY DEF RunRecs
<1>7. g \in Seq(Events)
  <2>1. CASE g = u.events
    BY <1>6, <2>1
  <2>2. CASE g = Append(u.events, Classify(Head(p))) /\ Classify(Head(p)) \in Events
    BY <1>6, <2>2
  <2> QED BY <1>3, <1>4, <2>1, <2>2 DEF Events
<1>8. v \in RunRecs
  BY <1>5, <1>7 DEF RunRecs
<1>9. ~v.cut /\ v.prev = u.prev /\ v.done = u.done /\ v.conflict = (u.conflict \/ Head(p) = "locked") /\ v.events = g
  BY <1>2, <1>5 DEF RunRecs
<1>10. \/ v.events = u.events
       \/ Head(p) # "locked" /\ \E s \in Stages : v.events = Append(u.events, s)
  BY <1>3, <1>4, <1>9
<1>11. RunOK(c, Tail(p), v, n, y)
  BY <1>1, <1>2, <1>8, <1>9, <1>10, ScanStep
<1>12. run' = [run EXCEPT ![r] = v] /\ pipe' = [pipe EXCEPT ![r] = Tail(p)]
  <2>1. pipe' = [pipe EXCEPT ![r] = Tail(p)]
    BY <1>1 DEF ScanLine
  <2>2. run' = [run EXCEPT ![r] = v]
    BY <1>1, <1>4, <1>5, ZenonT(60) DEF UpdInv, UpdType
  <2> QED BY <2>1, <2>2
<1>13. /\ child' = [child EXCEPT ![r] = c] /\ conn' = [conn EXCEPT ![r] = n] /\ relay' = [relay EXCEPT ![r] = y]
       /\ UNCHANGED <<vfile, viewer>>
  BY <1>1 DEF ScanLine, host, api
<1> QED BY <1>1, <1>2, <1>8, <1>11, <1>12, <1>13, RunMoves

LEMMA FinishRunInv == ASSUME UpdInv, NEW r \in Runs, FinishRun(r) PROVE UpdInv'
<1>1. PICK c \in ChildSteps, p \in Seq(Lines), u \in RunRecs, n \in ConnRecs, y \in RelayRecs :
              /\ RunOK(c, p, u, n, y)
              /\ c = child[r] /\ p = pipe[r] /\ u = run[r] /\ n = conn[r] /\ y = relay[r]
              /\ child = [child EXCEPT ![r] = c] /\ pipe = [pipe EXCEPT ![r] = p]
              /\ run = [run EXCEPT ![r] = u] /\ conn = [conn EXCEPT ![r] = n] /\ relay = [relay EXCEPT ![r] = y]
  BY OfRun
<1>2. p = <<>> /\ ~u.cut /\ ~u.done /\ c \in {"ok", "failed", "refused", "killed"}
  BY <1>1 DEF FinishRun, Ended
<1>3. c \in {"failed", "refused"}
  BY <1>1, <1>2 DEF RunOK, Unasked, Heard
<1>4. PICK w : w = RunVerdict(r)
  OBVIOUS
<1>5. w \in {"rolled_back", "failed"}
  BY <1>1, <1>3, <1>4 DEF RunVerdict
<1>6. PICK g : /\ g = IF u.conflict THEN u.events ELSE Append(u.events, w)
               /\ run' = [run EXCEPT ![r].done = TRUE, ![r].resolved = TRUE, ![r].events = g]
  BY <1>1, <1>4 DEF FinishRun
<1>7. PICK v : v = [u EXCEPT !.done = TRUE, !.resolved = TRUE, !.events = g]
  OBVIOUS
<1>8. u.events \in Seq(Events) /\ w \in Events
  BY <1>5 DEF RunRecs, Events
<1>9. g \in Seq(Events)
  BY <1>6, <1>8
<1>10. v \in RunRecs
  BY <1>7, <1>9 DEF RunRecs
<1>11. ~v.cut /\ v.prev = u.prev /\ v.done /\ v.conflict = u.conflict /\ v.events = g
  BY <1>2, <1>7 DEF RunRecs
<1>12. \/ u.conflict /\ v.events = u.events
       \/ ~u.conflict /\ \E x \in {"rolled_back", "failed"} : v.events = Append(u.events, x)
  BY <1>5, <1>6, <1>11
<1>13. RunOK(c, p, v, n, y)
  BY <1>1, <1>2, <1>3, <1>10, <1>11, <1>12, FinishStep
<1>14. run' = [run EXCEPT ![r] = v]
  BY <1>1, <1>6, <1>7 DEF UpdInv, UpdType
<1>15. /\ child' = [child EXCEPT ![r] = c] /\ pipe' = [pipe EXCEPT ![r] = p] /\ conn' = [conn EXCEPT ![r] = n]
       /\ relay' = [relay EXCEPT ![r] = y] /\ UNCHANGED <<vfile, viewer>>
  BY <1>1 DEF FinishRun, host, api
<1> QED BY <1>1, <1>10, <1>13, <1>14, <1>15, RunMoves

\* The three steps of the daemon's end of a connection.
LEMMA ConnInv ==
    ASSUME UpdInv, NEW r \in Runs, ResolveConn(r) \/ TailMore(r) \/ TailEnds(r) PROVE UpdInv'
<1>1. PICK c \in ChildSteps, p \in Seq(Lines), u \in RunRecs, n \in ConnRecs, y \in RelayRecs :
              /\ RunOK(c, p, u, n, y)
              /\ c = child[r] /\ p = pipe[r] /\ u = run[r] /\ n = conn[r] /\ y = relay[r]
              /\ child = [child EXCEPT ![r] = c] /\ pipe = [pipe EXCEPT ![r] = p]
              /\ run = [run EXCEPT ![r] = u] /\ conn = [conn EXCEPT ![r] = n] /\ relay = [relay EXCEPT ![r] = y]
  BY OfRun
<1>2. Len(u.events) \in Nat
  BY DEF RunRecs
<1>3. PICK m : /\ conn' = [conn EXCEPT ![r] = m] /\ n.at \in {"resolve", "tail"}
               /\ \/ m = [n EXCEPT !.at = "locked"] \/ m = [n EXCEPT !.at = "tail"]
                  \/ n.at = "tail" /\ m = [n EXCEPT !.sent = Len(u.events)]
                  \/ u.done /\ m = [n EXCEPT !.sent = Len(u.events), !.at = "ended"]
  <2>1. CASE ResolveConn(r)
    <3>1. PICK a \in {"locked", "tail"} : conn' = [conn EXCEPT ![r].at = a]
      BY <2>1 DEF ResolveConn
    <3>2. conn' = [conn EXCEPT ![r] = [n EXCEPT !.at = a]]
      BY <1>1, <3>1 DEF UpdInv, UpdType
    <3> QED BY <1>1, <2>1, <3>2 DEF ResolveConn
  <2>2. CASE TailMore(r)
    <3>1. conn' = [conn EXCEPT ![r] = [n EXCEPT !.sent = Len(u.events)]]
      BY <1>1, <2>2 DEF TailMore, UpdInv, UpdType
    <3> QED BY <1>1, <2>2, <3>1 DEF TailMore
  <2>3. CASE TailEnds(r)
    <3>1. conn' = [conn EXCEPT ![r] = [n EXCEPT !.sent = Len(u.events), !.at = "ended"]]
      BY <1>1, <2>3 DEF TailEnds, UpdInv, UpdType
    <3> QED BY <1>1, <2>3, <3>1 DEF TailEnds
  <2> QED BY <2>1, <2>2, <2>3
<1>4. m \in ConnRecs
  BY <1>2, <1>3 DEF ConnRecs
<1>5. m.at # "none" /\ m.sent \in {n.sent, Len(u.events)} /\ (m.at = "ended" => u.done /\ m.sent = Len(u.events))
  BY <1>3 DEF ConnRecs
<1>6. RunOK(c, p, u, m, y)
  BY <1>1, <1>3, <1>4, <1>5, ConnStep
<1>7. /\ child' = [child EXCEPT ![r] = c] /\ pipe' = [pipe EXCEPT ![r] = p] /\ run' = [run EXCEPT ![r] = u]
      /\ relay' = [relay EXCEPT ![r] = y] /\ UNCHANGED <<vfile, viewer>>
  BY <1>1 DEF ResolveConn, TailMore, TailEnds, host, api
<1> QED BY <1>1, <1>3, <1>4, <1>6, <1>7, RunMoves

\* The steps of hikrad-api on a request.
LEMMA UpdateHandlerInv == ASSUME UpdInv, NEW r \in Runs, UpdateHandler(r) PROVE UpdInv'
<1>1. PICK c \in ChildSteps, p \in Seq(Lines), u \in RunRecs, n \in ConnRecs, y \in RelayRecs :
              /\ RunOK(c, p, u, n, y)
              /\ c = child[r] /\ p = pipe[r] /\ u = run[r] /\ n = conn[r] /\ y = relay[r]
              /\ child = [child EXCEPT ![r] = c] /\ pipe = [pipe EXCEPT ![r] = p]
              /\ run = [run EXCEPT ![r] = u] /\ conn = [conn EXCEPT ![r] = n] /\ relay = [relay EXCEPT ![r] = y]
  BY OfRun
<1>2. PICK z : z = [y EXCEPT !.at = "first"]
  OBVIOUS
<1>3. z \in RelayRecs /\ z.at = "first" /\ y.at = "none" /\ n.at # "none"
  BY <1>1, <1>2 DEF RelayRecs, UpdateHandler
<1>4. RunOK(c, p, u, n, z)
  BY <1>1, <1>3, RelayStep
<1>5. relay' = [relay EXCEPT ![r] = z]
  BY <1>1, <1>2 DEF UpdateHandler, UpdInv, UpdType
<1>6. /\ child' = [child EXCEPT ![r] = c] /\ pipe' = [pipe EXCEPT ![r] = p] /\ run' = [run EXCEPT ![r] = u]
      /\ conn' = [conn EXCEPT ![r] = n] /\ UNCHANGED <<vfile, viewer>>
  BY <1>1 DEF UpdateHandler, host
<1> QED BY <1>1, <1>3, <1>4, <1>5, <1>6, RunMoves

LEMMA FirstLineInv == ASSUME UpdInv, NEW r \in Runs, FirstLine(r) PROVE UpdInv'
<1>1. PICK c \in ChildSteps, p \in Seq(Lines), u \in RunRecs, n \in ConnRecs, y \in RelayRecs :
              /\ RunOK(c, p, u, n, y)
              /\ c = child[r] /\ p = pipe[r] /\ u = run[r] /\ n = conn[r] /\ y = relay[r]
              /\ child = [child EXCEPT ![r] = c] /\ pipe = [pipe EXCEPT ![r] = p]
              /\ run = [run EXCEPT ![r] = u] /\ conn = [conn EXCEPT ![r] = n] /\ relay = [relay EXCEPT ![r] = y]
  BY OfRun
<1>2. y.at = "first"
  BY <1>1 DEF FirstLine
<1>3. /\ child' = [child EXCEPT ![r] = c] /\ pipe' = [pipe EXCEPT ![r] = p] /\ run' = [run EXCEPT ![r] = u]
      /\ UNCHANGED <<vfile, viewer>>
  BY <1>1 DEF FirstLine, host
<1>4. CASE n.sent > 0 /\ relay' = [relay EXCEPT ![r] = [at |-> "pump", events |-> <<u.events[1]>>]] /\ UNCHANGED conn
  <2>1. PICK z : z = [at |-> "pump", events |-> <<u.events[1]>>]
    OBVIOUS
  <2>2. u.events \in Seq(Events) /\ n.sent \in Nat /\ n.sent <= Len(u.events)
    BY <1>1 DEF RunRecs, ConnRecs, RunOK
  <2>3. u.events[1] \in Events
    BY <1>4, <2>2
  <2>4. <<u.events[1]>> \in Seq(Events)
    BY <2>3
  <2>5. z \in RelayRecs /\ z.at = "pump" /\ z.events = <<u.events[1]>>
    BY <2>1, <2>4 DEF RelayRecs
  <2>6. RunOK(c, p, u, n, z)
    BY <1>1, <1>2, <1>4, <2>5, RelayStep
  <2>7. conn' = [conn EXCEPT ![r] = n] /\ relay' = [relay EXCEPT ![r] = z]
    BY <1>1, <1>4, <2>1
  <2> QED BY <1>1, <1>2, <1>3, <2>5, <2>6, <2>7, RunMoves
<1>5. CASE relay' = [relay EXCEPT ![r].at = "refused"] /\ conn' = [conn EXCEPT ![r].at = "ended"]
  <2>1. PICK z, m : z = [y EXCEPT !.at = "refused"] /\ m = [n EXCEPT !.at = "ended"]
    OBVIOUS
  <2>2. /\ z \in RelayRecs /\ m \in ConnRecs /\ m.sent = n.sent /\ m.at = "ended" /\ z.at = "refused"
    BY <2>1 DEF RelayRecs, ConnRecs
  <2>3. RunOK(c, p, u, m, z)
    BY <1>1, <1>2, <2>2, RelayStep
  <2>4. conn' = [conn EXCEPT ![r] = m] /\ relay' = [relay EXCEPT ![r] = z]
    BY <1>1, <1>5, <2>1 DEF UpdInv, UpdType
  <2> QED BY <1>1, <1>2, <1>3, <2>2, <2>3, <2>4, RunMoves
<1> QED BY <1>1, <1>4, <1>5 DEF FirstLine

LEMMA PumpInv == ASSUME UpdInv, NEW r \in Runs, Pump(r) PROVE UpdInv'
<1>1. PICK c \in ChildSteps, p \in Seq(Lines), u \in RunRecs, n \in ConnRecs, y \in RelayRecs :
              /\ RunOK(c, p, u, n, y)
              /\ c = child[r] /\ p = pipe[r] /\ u = run[r] /\ n = conn[r] /\ y = relay[r]
              /\ child = [child EXCEPT ![r] = c] /\ pipe = [pipe EXCEPT ![r] = p]
              /\ run = [run EXCEPT ![r] = u] /\ conn = [conn EXCEPT ![r] = n] /\ relay = [relay EXCEPT ![r] = y]
  BY OfRun
<1>2. y.at = "pump" /\ y.events \in Seq(Events)
  BY <1>1 DEF Pump, RelayRecs
<1>3. /\ child' = [child EXCEPT ![r] = c] /\ pipe' = [pipe EXCEPT ![r] = p] /\ run' = [run EXCEPT ![r] = u]
      /\ conn' = [conn EXCEPT ![r] = n] /\ UNCHANGED <<vfile, viewer>>
  BY <1>1 DEF Pump, host
<1>4. CASE /\ IsResult(y.events[Len(y.events)]) \/ (Len(y.events) = n.sent /\ n.at = "ended")
           /\ relay' = [relay EXCEPT ![r].at = "done"]
  <2>1. PICK z : z = [y EXCEPT !.at = "done"]
    OBVIOUS
  <2>2. z \in RelayRecs /\ z.at = "done" /\ z.events = y.events
    BY <2>1 DEF RelayRecs
  <2>3. RunOK(c, p, u, n, z)
    BY <1>1, <1>2, <1>4, <2>2, RelayStep
  <2>4. relay' = [relay EXCEPT ![r] = z]
    BY <1>1, <1>4, <2>1 DEF UpdInv, UpdType
  <2> QED BY <1>1, <1>2, <1>3, <2>2, <2>3, <2>4, RunMoves
<1>5. CASE /\ Len(y.events) < n.sent
           /\ relay' = [relay EXCEPT ![r].events = Append(@, u.events[Len(y.events) + 1])]
  <2>1. PICK z : z = [y EXCEPT !.events = Append(y.events, u.events[Len(y.events) + 1])]
    OBVIOUS
  <2>2. u.events \in Seq(Events) /\ n.sent \in Nat /\ n.sent <= Len(u.events)
    BY <1>1 DEF RunRecs, ConnRecs, RunOK
  <2>3. u.events[Len(y.events) + 1] \in Events
    BY <1>2, <1>5, <2>2
  <2>4. Append(y.events, u.events[Len(y.events) + 1]) \in Seq(Events)
    BY <1>2, <2>3
  <2>5. z \in RelayRecs /\ z.at = "pump" /\ z.events = Append(y.events, u.events[Len(y.events) + 1])
    BY <1>2, <2>1, <2>4 DEF RelayRecs
  <2>6. RunOK(c, p, u, n, z)
    BY <1>1, <1>2, <1>5, <2>5, RelayStep
  <2>7. relay' = [relay EXCEPT ![r] = z]
    BY <1>1, <1>5, <2>1 DEF UpdInv, UpdType
  <2> QED BY <1>1, <1>2, <1>3, <2>5, <2>6, <2>7, RunMoves
<1> QED BY <1>1, <1>4, <1>5 DEF Pump, Last

\* A restart of the daemon, alone or of all units with it.
LEMMA RestartsInv ==
    ASSUME UpdInv, DaemonRestarts, child' \in [Children -> ChildSteps], relay' \in [Runs -> RelayRecs],
           \A r \in Runs : child[r] = "none" => child'[r] = "none",
           \A r \in Runs : relay[r] = NoRelay => relay'[r] = NoRelay,
           OpenKept \/ viewer' = NoView
    PROVE  UpdInv'
<1>1. /\ NewRun \in RunRecs => run' \in [Runs -> RunRecs]
      /\ NoConn \in ConnRecs => conn' \in [Runs -> ConnRecs]
  <2>1. \A r \in Runs : run[r] \in RunRecs /\ conn[r] \in ConnRecs
    BY DEF UpdInv, UpdType
  <2>2. \A u \in RunRecs : [u EXCEPT !.cut = TRUE] \in RunRecs
    BY DEF RunRecs
  <2>3. \A n \in ConnRecs : [n EXCEPT !.at = "ended"] \in ConnRecs
    BY DEF ConnRecs
  <2> QED BY <2>1, <2>2, <2>3 DEF DaemonRestarts
<1>2. NewRun \in RunRecs /\ NoConn \in ConnRecs
  <2>1. <<>> \in Seq(Events)
    OBVIOUS
  <2> QED BY <2>1 DEF NewRun, NoConn, RunRecs, ConnRecs
<1>3. UpdType'
  <2>1. pipe' \in [Runs -> Seq(Lines)] /\ vfile' \in {"old", "new"}
    BY DEF DaemonRestarts, UpdInv, UpdType
  <2>2. (\E S : viewer \in ViewRecs(S))'
    <3>1. CASE viewer' = viewer
      BY <3>1 DEF UpdInv, UpdType
    <3>2. CASE viewer' = NoView
      <4>1. PICK S : S = {<<>>}
        OBVIOUS
      <4>2. viewer' \in ViewRecs(S)
        BY <3>2, <4>1 DEF ViewRecs, NoView
      <4> QED BY <4>2
    <3> QED BY <3>1, <3>2 DEF OpenKept
  <2> QED BY <1>1, <1>2, <2>1, <2>2 DEF UpdType
<1>4. RunsOK'
  <2> SUFFICES ASSUME NEW r \in Runs
               PROVE  RunOK(child'[r], pipe'[r], run'[r], conn'[r], relay'[r])
    BY DEF RunsOK, RunOK, Unasked, Heard, Relayed, IsResult
  <2>1. PICK c \in ChildSteps, p \in Seq(Lines), u \in RunRecs, n \in ConnRecs, y \in RelayRecs :
              /\ RunOK(c, p, u, n, y)
              /\ c = child[r] /\ p = pipe[r] /\ u = run[r] /\ n = conn[r] /\ y = relay[r]
    BY OfRun
  <2>2. PICK d, v, m, z : /\ d = child'[r] /\ v = run'[r] /\ m = conn'[r] /\ z = relay'[r]
    OBVIOUS
  <2>3. /\ v = (IF u = NewRun THEN NewRun ELSE [u EXCEPT !.cut = TRUE])
        /\ m = (IF n.at = "none" THEN NoConn ELSE [n EXCEPT !.at = "ended"])
        /\ pipe'[r] = <<>> /\ (c = "none" => d = "none") /\ (y = NoRelay => z = NoRelay)
    BY <2>1, <2>2 DEF DaemonRestarts
  <2>4. RunOK(d, <<>>, v, m, z)
    BY <2>1, <2>3, CutStep
  <2> QED BY <2>2, <2>3, <2>4
<1>5. ViewOK'
  <2>1. CASE OpenKept
    BY <2>1, ViewKept DEF UpdInv
  <2>2. CASE viewer' = NoView
    BY <2>2 DEF ViewOK, NoView
  <2> QED BY <2>1, <2>2
<1> QED BY <1>3, <1>4, <1>5 DEF UpdInv

LEMMA DaemonDiesInv == ASSUME UpdInv, DaemonDies PROVE UpdInv'
<1>1. child' \in [Children -> ChildSteps] /\ \A r \in Runs : child[r] = "none" => child'[r] = "none"
  BY DEF DaemonDies, Killed, Alive, UpdInv, UpdType, ChildSteps, Children
<1>2. relay' \in [Runs -> RelayRecs] /\ OpenKept /\ UNCHANGED relay
  BY DEF DaemonDies, api, UpdInv, UpdType, OpenKept
<1> QED BY <1>1, <1>2, RestartsInv DEF DaemonDies

LEMMA RestartUnitsInv == ASSUME UpdInv, NEW c \in Children, RestartUnits(c) PROVE UpdInv'
<1>1. child' \in [Children -> ChildSteps] /\ \A r \in Runs : child[r] = "none" => child'[r] = "none"
  BY DEF RestartUnits, Killed, Alive, UpdInv, UpdType, ChildSteps, Children
<1>2. relay' \in [Runs -> RelayRecs] /\ \A r \in Runs : relay[r] = NoRelay => relay'[r] = NoRelay
  <2>1. <<>> \in Seq(Events)
    OBVIOUS
  <2>2. NoRelay \in RelayRecs /\ [NoRelay EXCEPT !.at = "lost"] \in RelayRecs /\ NoRelay.at = "none"
    BY <2>1 DEF NoRelay, RelayRecs
  <2> QED BY <2>2 DEF RestartUnits
<1>3. DaemonRestarts /\ viewer' = NoView
  BY DEF RestartUnits
<1> QED BY <1>1, <1>2, <1>3, RestartsInv

\* The browser's stream.
LEMMA ViewerMoves ==
    ASSUME UpdInv, UNCHANGED <<vfile, child, pipe, run, conn, relay>>, (\E S : viewer \in ViewRecs(S))', ViewOK'
    PROVE  UpdInv'
  BY DEF UpdInv, UpdType, RunsOK, RunOK, Unasked, Heard, Relayed, IsResult

LEMMA StreamHandlerInv == ASSUME UpdInv, StreamHandler PROVE UpdInv'
<1>1. PICK S : S = {<<>>}
  OBVIOUS
<1>2. CASE \E r \in Runs : relay[r].at = "pump" /\ viewer' = [at |-> "tail", of |-> r, seen |-> <<>>]
  <2>1. UNCHANGED relay /\ viewer' \in ViewRecs(S)
    BY <1>1, <1>2 DEF StreamHandler, ViewRecs
  <2>2. ViewOK'
    BY <1>2, <2>1 DEF ViewOK
  <2> QED BY <2>1, <2>2, ViewerMoves DEF StreamHandler, host
<1>3. CASE viewer' = [NoView EXCEPT !.at = "poll"]
  <2>1. viewer' \in ViewRecs(S) /\ viewer'.at = "poll"
    BY <1>1, <1>3 DEF NoView, ViewRecs
  <2>2. ViewOK'
    BY <2>1 DEF ViewOK
  <2> QED BY <2>1, <2>2, ViewerMoves DEF StreamHandler, host
<1> QED BY <1>2, <1>3 DEF StreamHandler

LEMMA RelayTailInv == ASSUME UpdInv, RelayTail PROVE UpdInv'
<1>1. PICK S : viewer \in ViewRecs(S)
  BY DEF UpdInv, UpdType
<1>2. PICK S2 : S2 = S \union {relay[viewer.of].events}
  OBVIOUS
<1>3. /\ viewer' \in ViewRecs(S2) /\ viewer'.of = viewer.of /\ viewer'.seen = relay[viewer.of].events
      /\ viewer'.at \in {"tail", "ended"} /\ (viewer'.at = "ended" <=> relay[viewer.of].at = "done")
  BY <1>1, <1>2 DEF RelayTail, ViewRecs
<1>4. UNCHANGED <<vfile, child, pipe, run, conn, relay>>
  BY DEF RelayTail, host
<1>5. ViewOK'
  BY <1>3, <1>4 DEF ViewOK, UpdInv, RelayTail
<1> QED BY <1>3, <1>4, <1>5, ViewerMoves

LEMMA PollAndStreamInv == ASSUME UpdInv, PollAndStream PROVE UpdInv'
<1>1. PICK S : viewer \in ViewRecs(S)
  BY DEF UpdInv, UpdType
<1>2. PICK S2 : S2 = {<<disk.result>>}
  OBVIOUS
<1>3. viewer' \in ViewRecs(S2) /\ viewer'.at = "polled"
  BY <1>1, <1>2 DEF PollAndStream, ViewRecs
<1>4. UNCHANGED <<vfile, child, pipe, run, conn, relay>>
  BY DEF PollAndStream, host
<1>5. ViewOK'
  BY <1>3 DEF ViewOK
<1> QED BY <1>3, <1>4, <1>5, ViewerMoves

\* Everything else: the record, the lock and the status requests.
LEMMA UpdQuiet ==
    ASSUME UpdInv, UNCHANGED <<vfile, child, pipe, run, conn, relay, viewer>> PROVE UpdInv'
  BY DEF UpdInv, UpdType, ViewOK, RunsOK, RunOK, Unasked, Heard, Relayed, IsResult

LEMMA AskerInv ==
    ASSUME UpdInv, NEW q, \/ HandleStatus(q) \/ LoadState(q) \/ ProbeLock(q) \/ ReleaseProbe(q)
                          \/ ReconcileIfStale(q) \/ AnswerStatus(q)
    PROVE  UpdInv'
<1>1. UNCHANGED <<vfile, child, pipe, run, conn, relay, viewer>>
  BY DEF HandleStatus, LoadState, ProbeLock, ReleaseProbe, ReconcileIfStale, AnswerStatus, host, api
<1> QED BY <1>1, UpdQuiet

LEMMA UpdInitInv == UpdInit => UpdInv
<1> SUFFICES ASSUME UpdInit PROVE UpdInv
  OBVIOUS
<1>1. <<>> \in Seq(Events) /\ <<>> \in Seq(Lines)
  OBVIOUS
<1>2. NewRun \in RunRecs /\ NoConn \in ConnRecs /\ NoRelay \in RelayRecs
  BY <1>1 DEF NewRun, NoConn, NoRelay, RunRecs, ConnRecs, RelayRecs
<1>3. PICK S : S = {<<>>}
  OBVIOUS
<1>4. viewer \in ViewRecs(S) /\ viewer.at = "idle"
  BY <1>3 DEF UpdInit, NoView, ViewRecs
<1>5. UpdType
  BY <1>1, <1>2, <1>4 DEF UpdInit, UpdType, ChildSteps
<1>6. NoConn.sent <= Len(NewRun.events)
  BY DEF NoConn, NewRun
<1>7. RunsOK
  BY <1>6 DEF UpdInit, RunsOK, RunOK, Unasked, Children
<1> QED BY <1>4, <1>5, <1>7 DEF UpdInv, ViewOK

LEMMA UpdStep == UpdInv /\ [UpdNext]_updVars => UpdInv'
<1> SUFFICES ASSUME UpdInv, [UpdNext]_updVars PROVE UpdInv'
  OBVIOUS
<1>1. CASE UNCHANGED updVars
  BY <1>1, UpdQuiet DEF updVars
<1>2. ASSUME NEW c \in Children, \/ CmdUpdate(c) \/ BackupNow(c) \/ InstallRelease(c) \/ RestartUnits(c) \/ WaitForHealth(c)
      PROVE UpdInv'
  BY <1>2, CmdUpdateInv, BackupNowInv, InstallReleaseInv, RestartUnitsInv, WaitForHealthInv
<1>3. ASSUME NEW r \in Runs, \/ StartUpdate(r) \/ SpawnChild(r) \/ ScanLine(r) \/ FinishRun(r) \/ ReleaseRun(r)
                             \/ ResolveConn(r) \/ TailMore(r) \/ TailEnds(r)
                             \/ UpdateHandler(r) \/ FirstLine(r) \/ Pump(r)
      PROVE UpdInv'
  <2>1. CASE ReleaseRun(r)
    BY <2>1, UpdQuiet DEF ReleaseRun, host, api
  <2> QED BY <1>3, <2>1, StartUpdateInv, SpawnChildInv, ScanLineInv, FinishRunInv, ConnInv, UpdateHandlerInv,
             FirstLineInv, PumpInv
<1> QED BY <1>1, <1>2, <1>3, CliUpdateInv, AskerInv, DaemonDiesInv, StreamHandlerInv, RelayTailInv,
           PollAndStreamInv DEF UpdNext

\* What the panel showed to its end is the run.
LEMMA UpdInvComplete == UpdInv => StreamComplete
<1> SUFFICES ASSUME UpdInv, viewer.at = "ended", ~run[viewer.of].cut
             PROVE  /\ viewer.seen = run[viewer.of].events
                    /\ IsResult(Last(viewer.seen))
                    /\ Last(viewer.seen) = "success" <=> child[viewer.of] = "ok"
  BY DEF StreamComplete
<1>1. PICK r \in Runs : r = viewer.of
  BY DEF UpdInv, ViewOK
<1>2. PICK c \in ChildSteps, p \in Seq(Lines), u \in RunRecs, n \in ConnRecs, y \in RelayRecs :
              /\ RunOK(c, p, u, n, y)
              /\ c = child[r] /\ p = pipe[r] /\ u = run[r] /\ n = conn[r] /\ y = relay[r]
  BY OfRun
<1>3. y.at = "done" /\ viewer.seen = y.events /\ ~u.cut
  BY <1>1, <1>2 DEF UpdInv, ViewOK
<1>4. Heard(c, p, u) /\ Relayed(u, n, y)
  BY <1>2, <1>3 DEF RunOK, Unasked, NoRelay
<1>5. u.events \in Seq(Events) /\ y.events \in Seq(Events)
  BY DEF RunRecs, RelayRecs
<1>6. /\ u.done /\ Len(y.events) = Len(u.events) /\ 0 < Len(y.events)
      /\ \A i \in 1..Len(y.events) : y.events[i] = u.events[i]
  BY <1>3, <1>4 DEF Relayed
<1>7. y.events = u.events
  BY <1>5, <1>6
<1>8. Len(u.events) \in 1..Len(u.events)
  BY <1>5, <1>6
<1>9. IsResult(u.events[Len(u.events)]) /\ u.events[Len(u.events)] \in Events
  BY <1>4, <1>5, <1>6, <1>8 DEF Heard
<1>10. u.events[Len(u.events)] # "success" /\ c # "ok"
  BY <1>4, <1>9 DEF Heard, Events, Stages
<1> QED BY <1>1, <1>2, <1>3, <1>7, <1>9, <1>10 DEF Last

(* What the panel's stream shows to its end is the whole run and its verdict, *)
(* for any number of runs and shells, children that end in any way, restarts  *)
(* at any point and any speed of the three readers.                           *)
THEOREM StreamCorrect == UpdSpec => []StreamComplete
<1>1. UpdInit => UpdInv
  BY UpdInitInv
<1>2. UpdInv /\ [UpdNext]_updVars => UpdInv'
  BY UpdStep
<1>3. UpdInv => StreamComplete
  BY UpdInvComplete
<1> QED BY <1>1, <1>2, <1>3, PTL DEF UpdSpec

-----------------------------------------------------------------------------
(* The notification outbox.                                                *)

Status == {"none", "queued", "sending", "sent", "failed", "skipped"}
Whom == People \cup {"none", "staff", "phone"}
Reason == {"", "no_contact", "opted_out", "no_template", "cancelled"}
PassAt == {"idle", "claim", "work", "taken", "refused"}

MsgType == [st : Status, to : Whom, skip : Reason, tries : Nat, age : Nat, wait : Nat]
PassType == [at : PassAt, todo : SUBSET Messages, row : Messages \cup {0}, age : Nat]

NoteTypes == outbox \in [Messages -> MsgType] /\ passes \in [Dispatchers -> PassType]

\* The row a pass is about to write is one of those it still has to do.
RowOfPass == \A d \in Dispatchers : passes[d].at \in {"taken", "refused"} => passes[d].row \in passes[d].todo

\* A row was claimed by the pass that works on it: it cannot have been in
\* sending for longer than the pass has lasted.
ClaimedByPass ==
    \A d \in Dispatchers : InTime(d) =>
        \A r \in passes[d].todo : outbox[r].st = "sending" /\ outbox[r].age <= passes[d].age

Alone ==
    \A d, e \in Dispatchers : InTime(d) /\ InTime(e) /\ d # e => passes[d].todo \cap passes[e].todo = {}

NoteInv == NoteTypes /\ RowOfPass /\ ClaimedByPass /\ Alone

-----------------------------------------------------------------------------
\* What a statement leaves of a row is a row.
LEMMA RowUpdates ==
    ASSUME NEW m \in MsgType, NEW st \in Status, NEW skip \in Reason,
           NEW tries \in Nat, NEW age \in Nat, NEW wait \in Nat
    PROVE  /\ [m EXCEPT !.age = age, !.wait = wait] \in MsgType
           /\ [m EXCEPT !.st = st, !.age = age] \in MsgType
           /\ [m EXCEPT !.st = st, !.age = age, !.wait = wait] \in MsgType
           /\ [m EXCEPT !.st = st, !.tries = tries, !.age = age] \in MsgType
           /\ [m EXCEPT !.st = st, !.tries = tries, !.age = age, !.wait = wait] \in MsgType
           /\ [m EXCEPT !.st = st, !.tries = tries, !.wait = wait, !.age = age] \in MsgType
           /\ [m EXCEPT !.st = st, !.skip = skip, !.age = age] \in MsgType
BY DEF MsgType

\* What a step leaves of a pass is a pass.
LEMMA PassUpdates ==
    ASSUME NEW p \in PassType, NEW at \in PassAt, NEW todo \in SUBSET Messages,
           NEW row \in Messages \cup {0}, NEW age \in Nat
    PROVE  /\ [p EXCEPT !.at = at, !.todo = todo] \in PassType
           /\ [p EXCEPT !.at = at, !.row = row] \in PassType
           /\ [p EXCEPT !.at = at, !.row = row, !.todo = todo] \in PassType
           /\ [p EXCEPT !.age = age] \in PassType
BY DEF PassType

LEMMA EmptyTypes ==
    /\ NoMsg \in MsgType /\ NoPass \in PassType
    /\ [NoPass EXCEPT !.at = "claim"] \in PassType
BY DEF MsgType, PassType, NoMsg, NoPass, Status, Whom, Reason, PassAt

\* An UPDATE of one row by its id.
LEMMA OneRow ==
    ASSUME NoteTypes, NEW r \in Messages, NEW m \in MsgType, outbox' = [outbox EXCEPT ![r] = m]
    PROVE  outbox' \in [Messages -> MsgType] /\ outbox'[r] = m /\ \A q \in Messages \ {r} : outbox'[q] = outbox[q]
BY DEF NoteTypes

LEMMA OnePass ==
    ASSUME NoteTypes, NEW d \in Dispatchers, NEW p \in PassType, passes' = [passes EXCEPT ![d] = p]
    PROVE  passes' \in [Dispatchers -> PassType] /\ passes'[d] = p /\ \A e \in Dispatchers \ {d} : passes'[e] = passes[e]
BY DEF NoteTypes

\* Initially there is no row and no pass.
LEMMA NoteInvInit == NoteInit => NoteInv
<1> SUFFICES ASSUME NoteInit PROVE NoteInv
  OBVIOUS
<1>1. NoteTypes
  BY EmptyTypes DEF NoteInit, NoteTypes
<1>2. \A d \in Dispatchers : passes[d].todo = {} /\ passes[d].at = "idle"
  BY DEF NoteInit, NoPass
<1> QED
  BY <1>1, <1>2 DEF NoteInv, RowOfPass, ClaimedByPass, Alone

\* Whoever changes a row that is not in sending, and no pass, disturbs nobody.
LEMMA OtherRow ==
    ASSUME NoteInv, passes' = passes, outbox' \in [Messages -> MsgType],
           NEW r \in Messages, outbox[r].st # "sending",
           \A q \in Messages \ {r} : outbox'[q] = outbox[q]
    PROVE  NoteInv'
BY DEF NoteInv, NoteTypes, RowOfPass, ClaimedByPass, Alone, InTime, PassType

\* A step that leaves the outbox and the passes alone.
LEMMA SameRows == ASSUME NoteInv, UNCHANGED <<outbox, passes>> PROVE NoteInv'
BY DEF NoteInv, NoteTypes, RowOfPass, ClaimedByPass, Alone, InTime

\* What an enqueue writes is a row.
LEMMA PutRowType ==
    ASSUME NoteInv, NEW r \in Messages, NEW st \in {"queued", "skipped"}, NEW to \in People \cup {"staff", "phone"},
           NEW skip \in {"", "no_contact", "opted_out", "no_template"}, FreeRow(r), PutRow(r, st, to, skip),
           passes' = passes
    PROVE  NoteInv'
<1>1. outbox' \in [Messages -> MsgType]
  <2>1. [NoMsg EXCEPT !.st = st, !.to = to, !.skip = skip] \in MsgType
    BY DEF MsgType, NoMsg, Status, Whom, Reason
  <2> QED
    BY <2>1, OneRow DEF NoteInv, PutRow
<1>2. outbox[r].st # "sending" /\ \A q \in Messages \ {r} : outbox'[q] = outbox[q]
  BY DEF NoteInv, NoteTypes, PutRow, FreeRow
<1> QED
  BY <1>1, <1>2, OtherRow

\* Every way to enqueue writes one free row.
LEMMA EnqueueStep ==
    ASSUME NoteInv, NEW r \in Messages, NEW to \in People \cup {"staff", "phone"},
           NEW skip \in {"", "no_contact", "opted_out"}, NEW template \in BOOLEAN,
           Enqueue(r, to, skip, template), passes' = passes
    PROVE  NoteInv'
<1> DEFINE why == IF skip = "" /\ ~template THEN "no_template" ELSE skip
<1>1. CASE why = ""
  BY <1>1, PutRowType DEF Enqueue, InsertOutbox
<1>2. CASE why # ""
  BY <1>2, PutRowType DEF Enqueue, InsertSkipped
<1> QED
  BY <1>1, <1>2

LEMMA SkipReasons == \A s, ignore : ResolveSubscriberChannel(s, ignore) \in {"", "no_contact", "opted_out"}
BY DEF ResolveSubscriberChannel

-----------------------------------------------------------------------------
\* The reclaim takes nothing from a pass in time: the row has not been in
\* sending for longer than the pass has lasted, and the pass not for longer
\* than PassTimeout.
LEMMA ReclaimStep ==
    ASSUME NoteInv, NEW d \in Dispatchers, ReclaimStuckSending(d)
    PROVE  NoteInv'
<1>1. NoteTypes'
  <2>1. \A r \in Messages : [outbox[r] EXCEPT !.st = "queued", !.age = 0, !.wait = 0] \in MsgType
    BY RowUpdates, ZenonT(60) DEF NoteInv, NoteTypes, Status, Reason
  <2>2. outbox' \in [Messages -> MsgType]
    BY <2>1 DEF NoteInv, NoteTypes, ReclaimStuckSending
  <2> QED
    BY <2>2, EmptyTypes, OnePass DEF NoteInv, NoteTypes, ReclaimStuckSending
<1>2. \A e \in Dispatchers : passes'[e].todo \subseteq passes[e].todo
                             /\ (passes'[e].todo # {} => passes'[e] = passes[e])
  BY DEF NoteInv, NoteTypes, ReclaimStuckSending, NoPass, PassType
<1>3. RowOfPass'
  BY DEF NoteInv, NoteTypes, RowOfPass, ReclaimStuckSending, NoPass, PassType
<1>4. ClaimedByPass'
  <2> SUFFICES ASSUME NEW e \in Dispatchers, InTime(e)', NEW r \in passes'[e].todo
               PROVE  outbox'[r].st = "sending" /\ outbox'[r].age <= passes'[e].age
    BY DEF ClaimedByPass
  <2>1. passes'[e] = passes[e] /\ InTime(e) /\ r \in passes[e].todo /\ r \in Messages
    BY <1>2 DEF InTime, NoteInv, NoteTypes, PassType
  <2>2. outbox[r].st = "sending" /\ outbox[r].age <= passes[e].age
    BY <2>1 DEF NoteInv, ClaimedByPass
  <2>3. outbox[r].age \in Nat /\ passes[e].age \in Nat /\ passes[e].age <= PassTimeout
    BY <2>1 DEF NoteInv, NoteTypes, MsgType, PassType, InTime
  <2>4. ~(outbox[r].age > StuckAfter)
    BY <2>2, <2>3, NotifyAssumption
  <2>5. outbox'[r] = outbox[r]
    BY <2>1, <2>4 DEF ReclaimStuckSending
  <2> QED
    BY <2>1, <2>2, <2>5
<1>5. Alone'
  <2> SUFFICES ASSUME NEW a \in Dispatchers, NEW b \in Dispatchers, InTime(a)', InTime(b)', a # b,
                      NEW r \in passes'[a].todo, r \in passes'[b].todo
               PROVE  FALSE
    BY DEF Alone
  <2>1. passes'[a] = passes[a] /\ passes'[b] = passes[b]
    BY <1>2
  <2> QED
    BY <2>1 DEF NoteInv, Alone, InTime
<1> QED
  BY <1>1, <1>3, <1>4, <1>5 DEF NoteInv

\* The claim takes rows that are queued, so nobody else has them.
LEMMA ClaimStep ==
    ASSUME NoteInv, NEW d \in Dispatchers, ClaimBatch(d)
    PROVE  NoteInv'
<1> DEFINE due == {r \in Messages : outbox[r].st = "queued" /\ outbox[r].wait = 0}
<1>0. /\ outbox' = [r \in Messages |-> IF r \in due THEN [outbox[r] EXCEPT !.st = "sending", !.age = 0] ELSE outbox[r]]
      /\ passes' = [passes EXCEPT ![d].at = "work", ![d].todo = due]
  BY DEF ClaimBatch
<1>1. NoteTypes'
  <2>1. \A r \in Messages : [outbox[r] EXCEPT !.st = "sending", !.age = 0] \in MsgType
    BY RowUpdates, ZenonT(60) DEF NoteInv, NoteTypes, Status, Reason
  <2>2. outbox' \in [Messages -> MsgType]
    BY <1>0, <2>1 DEF NoteInv, NoteTypes
  <2>3. [passes[d] EXCEPT !.at = "work", !.todo = due] \in PassType
    BY PassUpdates DEF NoteInv, NoteTypes, PassAt
  <2>4. passes' = [passes EXCEPT ![d] = [passes[d] EXCEPT !.at = "work", !.todo = due]]
    BY <1>0
  <2> QED
    BY <2>2, <2>3, <2>4, OnePass DEF NoteInv, NoteTypes
<1>2. RowOfPass'
  BY <1>0 DEF NoteInv, NoteTypes, RowOfPass, PassType
<1>3. passes'[d].todo = due /\ passes'[d].age = passes[d].age /\ passes[d].age \in Nat
      /\ \A e \in Dispatchers \ {d} : passes'[e] = passes[e]
  BY <1>0 DEF NoteInv, NoteTypes, PassType
<1>4. \A e \in Dispatchers, r \in Messages : InTime(e) /\ r \in passes[e].todo => r \notin due
  BY DEF NoteInv, ClaimedByPass
<1>5. ClaimedByPass'
  <2> SUFFICES ASSUME NEW e \in Dispatchers, InTime(e)', NEW r \in passes'[e].todo
               PROVE  outbox'[r].st = "sending" /\ outbox'[r].age <= passes'[e].age
    BY DEF ClaimedByPass
  <2>1. r \in Messages
    BY <1>1 DEF NoteTypes, PassType
  <2>2. CASE e = d
    <3>1. r \in due
      BY <2>2, <1>3
    <3>2. outbox'[r] = [outbox[r] EXCEPT !.st = "sending", !.age = 0] /\ outbox[r] \in MsgType
      BY <2>1, <3>1, <1>0 DEF NoteInv, NoteTypes
    <3>3. outbox'[r].st = "sending" /\ outbox'[r].age = 0
      BY <3>2 DEF MsgType
    <3> QED
      BY <2>2, <3>3, <1>3
  <2>3. CASE e # d
    <3>1. passes'[e] = passes[e] /\ InTime(e) /\ r \in passes[e].todo
      BY <2>3, <1>3 DEF InTime
    <3>2. outbox'[r] = outbox[r]
      BY <3>1, <1>4, <1>0, <2>1
    <3> QED
      BY <3>1, <3>2 DEF NoteInv, ClaimedByPass
  <2> QED
    BY <2>2, <2>3
<1>6. Alone'
  <2> SUFFICES ASSUME NEW a \in Dispatchers, NEW b \in Dispatchers, InTime(a)', InTime(b)', a # b,
                      NEW r \in passes'[a].todo, r \in passes'[b].todo
               PROVE  FALSE
    BY DEF Alone
  <2>1. r \in Messages
    BY <1>1 DEF NoteTypes, PassType
  <2>2. CASE a = d
    BY <2>1, <2>2, <1>3, <1>4 DEF InTime
  <2>3. CASE b = d
    BY <2>1, <2>3, <1>3, <1>4 DEF InTime
  <2>4. CASE a # d /\ b # d
    BY <2>4, <1>3 DEF NoteInv, Alone, InTime
  <2> QED
    BY <2>2, <2>3, <2>4
<1> QED
  BY <1>1, <1>2, <1>5, <1>6 DEF NoteInv

\* A pass that writes its outcome is in time, so the row is its own.
LEMMA ResolveStep ==
    ASSUME NoteInv, NEW d \in Dispatchers, NEW written \in BOOLEAN, Resolve(d, written)
    PROVE  NoteInv'
<1> DEFINE r == passes[d].row
<1>0. r \in passes[d].todo /\ r \in Messages
  BY DEF NoteInv, NoteTypes, RowOfPass, Resolve, PassType
<1>1. /\ passes' = [passes EXCEPT ![d].at = "work", ![d].row = 0, ![d].todo = @ \ {r}]
      /\ passes' \in [Dispatchers -> PassType]
  <2>1. [passes[d] EXCEPT !.at = "work", !.row = 0, !.todo = passes[d].todo \ {r}] \in PassType
    <3>1. passes[d] \in PassType /\ passes[d].todo \ {r} \in SUBSET Messages
      BY DEF NoteInv, NoteTypes, PassType
    <3> QED
      BY <3>1, PassUpdates DEF PassAt
  <2>2. passes' = [passes EXCEPT ![d].at = "work", ![d].row = 0, ![d].todo = @ \ {r}]
    BY DEF Resolve
  <2>3. passes' = [passes EXCEPT ![d] = [passes[d] EXCEPT !.at = "work", !.row = 0, !.todo = passes[d].todo \ {r}]]
    BY <2>2
  <2> QED
    BY <2>1, <2>2, <2>3, OnePass DEF NoteInv
<1>2. /\ passes'[d].todo = passes[d].todo \ {r} /\ passes'[d].age = passes[d].age /\ passes'[d].at = "work"
      /\ \A e \in Dispatchers \ {d} : passes'[e] = passes[e]
  BY <1>1 DEF NoteInv, NoteTypes, PassType
<1>3. outbox' \in [Messages -> MsgType] /\ \A q \in Messages \ {r} : outbox'[q] = outbox[q]
  <2>1. CASE ~written
    BY <2>1 DEF Resolve, NoteInv, NoteTypes
  <2>2. CASE written /\ passes[d].at = "taken"
    <3>1. outbox[r] \in MsgType /\ outbox[r].tries + 1 \in Nat
      BY <1>0 DEF NoteInv, NoteTypes, MsgType
    <3>2. [outbox[r] EXCEPT !.st = "sent", !.tries = outbox[r].tries + 1, !.age = 0] \in MsgType
      BY <3>1, RowUpdates DEF Status, Reason
    <3>3. outbox' = [outbox EXCEPT ![r].st = "sent", ![r].tries = @ + 1, ![r].age = 0]
      BY <2>2 DEF Resolve, ResolveSent
    <3>4. outbox' = [outbox EXCEPT ![r] = [outbox[r] EXCEPT !.st = "sent", !.tries = outbox[r].tries + 1, !.age = 0]]
      BY <3>3
    <3> QED
      BY <1>0, <3>2, <3>4, OneRow DEF NoteInv
  <2>3. CASE written /\ passes[d].at # "taken"
    <3> DEFINE next == IF outbox[r].tries + 1 >= MaxAttempts THEN "failed" ELSE "queued"
    <3>1. outbox[r] \in MsgType /\ outbox[r].tries + 1 \in Nat
      BY <1>0 DEF NoteInv, NoteTypes, MsgType
    <3>2. outbox' = [outbox EXCEPT ![r].st = next, ![r].tries = @ + 1, ![r].age = 0, ![r].wait = 1]
      BY <2>3 DEF Resolve, ResolveFailedAttempt, BackoffSeconds
    <3>3. next \in Status
      BY DEF Status
    <3> HIDE DEF next
    <3>4. [outbox[r] EXCEPT !.st = next, !.tries = outbox[r].tries + 1, !.age = 0, !.wait = 1] \in MsgType
      BY <3>1, <3>3, RowUpdates DEF Reason
    <3>5. outbox' = [outbox EXCEPT ![r] = [outbox[r] EXCEPT !.st = next, !.tries = outbox[r].tries + 1, !.age = 0, !.wait = 1]]
      BY <3>2
    <3> QED
      BY <1>0, <3>4, <3>5, OneRow DEF NoteInv
  <2> QED
    BY <2>1, <2>2, <2>3
<1>4. outbox' = outbox \/ InTime(d)
  BY DEF Resolve
<1>5. RowOfPass'
  BY <1>2 DEF NoteInv, RowOfPass
<1>6. ClaimedByPass'
  <2> SUFFICES ASSUME NEW e \in Dispatchers, InTime(e)', NEW q \in passes'[e].todo
               PROVE  outbox'[q].st = "sending" /\ outbox'[q].age <= passes'[e].age
    BY DEF ClaimedByPass
  <2>1. InTime(e) /\ q \in passes[e].todo /\ q \in Messages /\ passes'[e].age = passes[e].age
    BY <1>2 DEF InTime, NoteInv, NoteTypes, PassType
  <2>2. outbox'[q] = outbox[q]
    <3>1. CASE outbox' = outbox
      BY <3>1
    <3>2. CASE InTime(d) /\ e = d
      BY <3>2, <1>2, <1>3, <2>1
    <3>3. CASE InTime(d) /\ e # d
      BY <3>3, <1>0, <1>3, <2>1 DEF NoteInv, Alone
    <3> QED
      BY <3>1, <3>2, <3>3, <1>4
  <2> QED
    BY <2>1, <2>2 DEF NoteInv, ClaimedByPass
<1>7. Alone'
  BY <1>2 DEF NoteInv, Alone, InTime
<1> QED
  BY <1>1, <1>3, <1>5, <1>6, <1>7 DEF NoteInv, NoteTypes

\* Time passes for a row and for the pass that claimed it alike.
LEMMA TickStep == ASSUME NoteInv, NoteTick PROVE NoteInv'
<1>1. outbox' \in [Messages -> MsgType]
  <2> SUFFICES ASSUME NEW r \in Messages PROVE outbox'[r] \in MsgType
    BY DEF NoteTick
  <2>1. outbox[r] \in MsgType /\ outbox[r].age \in Nat /\ outbox[r].wait \in Nat
    BY DEF NoteInv, NoteTypes, MsgType
  <2> DEFINE age == IF outbox[r].st = "sending" /\ outbox[r].age <= StuckAfter THEN outbox[r].age + 1 ELSE outbox[r].age
             wait == IF outbox[r].wait > 0 THEN outbox[r].wait - 1 ELSE 0
  <2>2. age \in Nat /\ wait \in Nat
    BY <2>1
  <2>3. outbox'[r] = [outbox[r] EXCEPT !.age = age, !.wait = wait]
    BY DEF NoteTick
  <2> HIDE DEF age, wait
  <2>4. [outbox[r] EXCEPT !.age = age, !.wait = wait] \in MsgType
    BY <2>1, <2>2 DEF MsgType
  <2> QED
    BY <2>3, <2>4
<1>2. passes' \in [Dispatchers -> PassType]
  <2> SUFFICES ASSUME NEW d \in Dispatchers PROVE passes'[d] \in PassType
    BY DEF NoteTick
  <2>1. passes[d] \in PassType /\ passes[d].age + 1 \in Nat
    BY DEF NoteInv, NoteTypes, PassType
  <2>2. [passes[d] EXCEPT !.age = passes[d].age + 1] \in PassType
    BY <2>1, PassUpdates DEF PassAt
  <2>3. passes'[d] = NoPass \/ passes'[d] = [passes[d] EXCEPT !.age = passes[d].age + 1]
    BY DEF NoteTick
  <2> QED
    BY <2>2, <2>3, EmptyTypes
<1>3. \A d \in Dispatchers : passes'[d].todo # {} \/ passes'[d].at \in {"taken", "refused"} =>
          /\ passes'[d].todo = passes[d].todo /\ passes'[d].at = passes[d].at /\ passes'[d].row = passes[d].row
          /\ passes'[d].age = passes[d].age + 1
  BY DEF NoteTick, NoteInv, NoteTypes, PassType, NoPass
<1>4. \A d \in Dispatchers : InTime(d)
  BY DEF NoteTick, InTime
<1>5. RowOfPass'
  BY <1>3 DEF NoteInv, RowOfPass
<1>6. ClaimedByPass'
  <2> SUFFICES ASSUME NEW d \in Dispatchers, NEW r \in passes'[d].todo
               PROVE  outbox'[r].st = "sending" /\ outbox'[r].age <= passes'[d].age
    BY DEF ClaimedByPass
  <2>1. r \in passes[d].todo /\ r \in Messages /\ passes'[d].age = passes[d].age + 1
    BY <1>3 DEF NoteInv, NoteTypes, PassType
  <2>2. outbox[r].st = "sending" /\ outbox[r].age <= passes[d].age
    BY <2>1, <1>4 DEF NoteInv, ClaimedByPass
  <2>3. outbox[r].age \in Nat /\ passes[d].age \in Nat
    BY <2>1 DEF NoteInv, NoteTypes, MsgType, PassType
  <2>4. outbox'[r].st = outbox[r].st /\ outbox'[r].age \in {outbox[r].age, outbox[r].age + 1}
    BY <2>1 DEF NoteTick, NoteInv, NoteTypes, MsgType
  <2> QED
    BY <2>1, <2>2, <2>3, <2>4
<1>7. Alone'
  <2> SUFFICES ASSUME NEW a \in Dispatchers, NEW b \in Dispatchers, a # b,
                      NEW r \in passes'[a].todo, r \in passes'[b].todo
               PROVE  FALSE
    BY DEF Alone
  <2> QED
    BY <1>3, <1>4 DEF NoteInv, Alone
<1> QED
  BY <1>1, <1>2, <1>5, <1>6, <1>7 DEF NoteInv, NoteTypes

-----------------------------------------------------------------------------
\* Every step keeps the invariant.
LEMMA NoteInvStep == ASSUME NoteInv, [NoteNext]_noteVars PROVE NoteInv'
<1>1. CASE UNCHANGED noteVars
  BY <1>1, SameRows DEF noteVars
<1>2. CASE NoteTick
  BY <1>2, TickStep
<1>3. CASE NewDay \/ (\E on \in BOOLEAN, ig \in BOOLEAN : HandlePutRule(on, ig)) \/ \E s \in People : PutPreferences(s)
  BY <1>3, SameRows DEF NewDay, HandlePutRule, PutPreferences
<1>4. ASSUME NEW r \in Messages, NEW s \in People, NEW ok \in BOOLEAN,
             HandleRenewed(r, s, ok) \/ NotifySubscriberTicket(r, s, ok)
      PROVE  NoteInv'
  BY <1>4, SkipReasons, EnqueueStep DEF HandleRenewed, NotifySubscriberTicket, EnqueueEvent
<1>5. ASSUME NEW r \in Messages, NEW s \in People, NEW ok \in BOOLEAN, ScanExpiryWindow(s, r, ok)
      PROVE  NoteInv'
  <2>1. CASE ok
    BY <1>5, <2>1, SkipReasons, EnqueueStep DEF ScanExpiryWindow
  <2>2. CASE ~ok
    BY <1>5, <2>2, SameRows DEF ScanExpiryWindow
  <2> QED
    BY <2>1, <2>2
<1>6. ASSUME NEW r \in Messages, NEW s \in People, HandleBroadcast(r, s)
      PROVE  NoteInv'
  BY <1>6, SkipReasons, EnqueueStep DEF HandleBroadcast, EnqueueBroadcast
<1>7. ASSUME NEW r \in Messages, NEW ok \in BOOLEAN, EnqueueAlert(r, ok) \/ EnqueuePasscode(r, ok)
      PROVE  NoteInv'
  BY <1>7, EnqueueStep DEF EnqueueAlert, EnqueuePasscode, ResolveAlertRecipients
<1>8. ASSUME NEW r \in Messages, HandleCancelOutbox(r) \/ HandleRetryOutbox(r)
      PROVE  NoteInv'
  <2>1. outbox' \in [Messages -> MsgType] /\ passes' = passes /\ outbox[r].st # "sending"
        /\ \A q \in Messages \ {r} : outbox'[q] = outbox[q]
    <3>0. outbox[r] \in MsgType
      BY DEF NoteInv, NoteTypes
    <3>1. CASE HandleCancelOutbox(r)
      <4>1. [outbox[r] EXCEPT !.st = "skipped", !.skip = "cancelled", !.age = 0] \in MsgType
        BY <3>0, RowUpdates DEF Status, Reason
      <4>2. outbox' = [outbox EXCEPT ![r] = [outbox[r] EXCEPT !.st = "skipped", !.skip = "cancelled", !.age = 0]]
            /\ passes' = passes /\ outbox[r].st = "queued"
        BY <3>1 DEF HandleCancelOutbox, CancelOutboxRow
      <4> QED
        BY <4>1, <4>2, OneRow DEF NoteInv
    <3>2. CASE HandleRetryOutbox(r)
      <4>1. [outbox[r] EXCEPT !.st = "queued", !.tries = 0, !.wait = 0, !.age = 0] \in MsgType
        BY <3>0, RowUpdates DEF Status, Reason
      <4>2. outbox' = [outbox EXCEPT ![r] = [outbox[r] EXCEPT !.st = "queued", !.tries = 0, !.wait = 0, !.age = 0]]
            /\ passes' = passes /\ outbox[r].st = "failed"
        BY <3>2 DEF HandleRetryOutbox, RetryOutboxRow
      <4> QED
        BY <4>1, <4>2, OneRow DEF NoteInv
    <3> QED
      BY <1>8, <3>1, <3>2
  <2> QED
    BY <2>1, OtherRow
<1>9. ASSUME NEW d \in Dispatchers, PassEnds(d)
      PROVE  NoteInv'
  <2>1. passes' = [passes EXCEPT ![d] = NoPass] /\ outbox' = outbox
    BY <1>9 DEF PassEnds
  <2>2. /\ passes' \in [Dispatchers -> PassType] /\ passes'[d] = NoPass
        /\ \A e \in Dispatchers \ {d} : passes'[e] = passes[e]
    BY <2>1, EmptyTypes, OnePass DEF NoteInv
  <2>3. passes'[d].at = "idle" /\ passes'[d].todo = {}
    BY <2>2 DEF NoPass
  <2>4. RowOfPass'
    BY <2>2, <2>3 DEF NoteInv, RowOfPass
  <2>5. ClaimedByPass' /\ Alone'
    BY <2>1, <2>2, <2>3 DEF NoteInv, ClaimedByPass, Alone, InTime
  <2> QED
    BY <2>1, <2>2, <2>4, <2>5 DEF NoteInv, NoteTypes
<1>10. ASSUME NEW d \in Dispatchers, NEW r \in Messages, NEW ok \in BOOLEAN, NEW out \in BOOLEAN, Attempt(d, r, ok, out)
       PROVE  NoteInv'
  <2> DEFINE at == IF ok THEN "taken" ELSE "refused"
  <2>1. at \in PassAt /\ passes[d] \in PassType
    BY DEF PassAt, NoteInv, NoteTypes
  <2>2. passes' = [passes EXCEPT ![d].at = at, ![d].row = r] /\ r \in passes[d].todo /\ outbox' = outbox
    BY <1>10 DEF Attempt
  <2> HIDE DEF at
  <2>3. [passes[d] EXCEPT !.at = at, !.row = r] \in PassType
    BY <2>1, PassUpdates
  <2>4. passes' = [passes EXCEPT ![d] = [passes[d] EXCEPT !.at = at, !.row = r]]
    BY <2>2
  <2>5. passes' \in [Dispatchers -> PassType] /\ \A e \in Dispatchers \ {d} : passes'[e] = passes[e]
    BY <2>3, <2>4, OnePass DEF NoteInv
  <2>6. passes'[d].row = r /\ passes'[d].todo = passes[d].todo /\ passes'[d].age = passes[d].age
    BY <2>1, <2>2 DEF PassType, NoteInv, NoteTypes
  <2>7. \A e \in Dispatchers : passes'[e].todo = passes[e].todo /\ passes'[e].age = passes[e].age
    BY <2>5, <2>6
  <2>8. RowOfPass'
    BY <2>2, <2>5, <2>6 DEF NoteInv, RowOfPass
  <2>9. ClaimedByPass' /\ Alone'
    BY <2>2, <2>7 DEF NoteInv, ClaimedByPass, Alone, InTime
  <2> QED
    BY <2>2, <2>5, <2>8, <2>9 DEF NoteInv, NoteTypes
<1> QED
  BY <1>1, <1>2, <1>3, <1>4, <1>5, <1>6, <1>7, <1>8, <1>9, <1>10, ReclaimStep, ClaimStep, ResolveStep
  DEF NoteNext

\* The invariant gives the property.
LEMMA NoteInvOneSender == NoteInv => OneSender
BY DEF NoteInv, ClaimedByPass, Alone, OneSender

\* No row has two senders, and a pass in time works on rows that are in
\* sending, for any number of messages and dispatchers and any two intervals
\* of which that of a pass is not the longer one (dispatcher.go: one Tick,
\* reclaimStuckSending).
THEOREM OneSenderCorrect == NoteSpec => []OneSender
<1>1. NoteInit => NoteInv
  BY NoteInvInit
<1>2. NoteInv /\ [NoteNext]_noteVars => NoteInv'
  BY NoteInvStep
<1>3. NoteInv => OneSender
  BY NoteInvOneSender
<1> QED
  BY <1>1, <1>2, <1>3, PTL DEF NoteSpec

-----------------------------------------------------------------------------
(* The monitor. Its log, its list of ICMP samples and the squashed feed are *)
(* folds; they are characterised once, by their first value and their step. *)

\* The three folds of the module, by the name of what they compute.
FoldStep(c, acc, x) == IF c = "log" THEN LogSample(acc, x)
                       ELSE IF c = "icmp" THEN KeepICMP(acc, x) ELSE Squash(acc, x)
FoldBase(c) == IF c = "log" THEN NoLog ELSE <<>>

\* The recursive function a fold over the first n elements of s is.
IsFold(c, g, s, n) ==
    g = [u \in SUBSET (1..n) |-> IF u = {} THEN FoldBase(c) ELSE FoldStep(c, g[u \ {Max(u)}], s[Max(u)])]

\* The largest index of a set of indices.
LEMMA TopIndex ==
    ASSUME NEW n \in Nat, NEW u \in SUBSET (1..(n + 1)), n + 1 \in u
    PROVE  Max(u) = n + 1 /\ u \ {n + 1} \in SUBSET (1..n)
<1>1. \A y \in u : y \in Nat /\ n + 1 >= y
  OBVIOUS
<1>2. PICK m : m = Max(u)
  OBVIOUS
<1>3. m \in u /\ \A y \in u : m >= y
  BY <1>1, <1>2 DEF Max
<1>4. m = n + 1
  BY <1>1, <1>3
<1>5. \A y \in u \ {n + 1} : y \in 1..n
  BY <1>1
<1> QED BY <1>2, <1>4, <1>5

\* The function exists for every length.
LEMMA FoldExists == ASSUME NEW c, NEW s, NEW m \in Nat PROVE \E g : IsFold(c, g, s, m)
<1> DEFINE T == {n \in Nat : \E g : IsFold(c, g, s, n)}
<1>1. 0 \in T
  <2>1. SUBSET (1..0) = {{}}
    OBVIOUS
  <2>2. IsFold(c, [u \in SUBSET (1..0) |-> FoldBase(c)], s, 0)
    BY <2>1 DEF IsFold
  <2> QED BY <2>2
<1>2. ASSUME NEW n \in Nat, n \in T PROVE n + 1 \in T
  <2>1. PICK g : IsFold(c, g, s, n)
    BY <1>2
  <2> DEFINE h == [u \in SUBSET (1..(n + 1)) |->
                     IF n + 1 \in u THEN FoldStep(c, g[u \ {n + 1}], s[n + 1]) ELSE g[u]]
  <2>2. \A u \in SUBSET (1..n) : u \in SUBSET (1..(n + 1)) /\ n + 1 \notin u
    OBVIOUS
  <2>3. \A u \in SUBSET (1..n) : h[u] = g[u]
    BY <2>2
  <2>4. ASSUME NEW u \in SUBSET (1..(n + 1))
        PROVE  h[u] = IF u = {} THEN FoldBase(c) ELSE FoldStep(c, h[u \ {Max(u)}], s[Max(u)])
    <3>1. CASE n + 1 \in u
      <4>1. Max(u) = n + 1 /\ u \ {n + 1} \in SUBSET (1..n) /\ u # {}
        BY <3>1, TopIndex
      <4>2. h[u] = FoldStep(c, g[u \ {n + 1}], s[n + 1])
        BY <3>1
      <4>3. h[u \ {n + 1}] = g[u \ {n + 1}]
        BY <2>3, <4>1
      <4> HIDE DEF h
      <4> QED BY <4>1, <4>2, <4>3
    <3>2. CASE n + 1 \notin u
      <4>1. u \in SUBSET (1..n)
        <5>1. \A y \in u : y \in 1..n
          BY <3>2
        <5> QED BY <5>1
      <4>2. h[u] = g[u]
        BY <2>3, <4>1
      <4>3. u # {} => u \ {Max(u)} \in SUBSET (1..n)
        BY <4>1
      <4>4. u # {} => h[u \ {Max(u)}] = g[u \ {Max(u)}]
        BY <2>3, <4>3
      <4>5. g[u] = IF u = {} THEN FoldBase(c) ELSE FoldStep(c, g[u \ {Max(u)}], s[Max(u)])
        BY <2>1, <4>1 DEF IsFold
      <4> HIDE DEF h
      <4> QED BY <4>2, <4>4, <4>5
    <3> QED BY <3>1, <3>2
  <2>5. h = [u \in SUBSET (1..(n + 1)) |-> h[u]]
    OBVIOUS
  <2>6. IsFold(c, h, s, n + 1)
    <3> HIDE DEF h
    <3> QED BY <2>4, <2>5 DEF IsFold
  <2>7. \E q : IsFold(c, q, s, n + 1)
    <3> HIDE DEF h
    <3> QED BY <2>6
  <2> HIDE DEF h
  <2> QED BY <2>7
<1>3. Nat \subseteq T
  <2> HIDE DEF T
  <2> QED BY <1>1, <1>2, UpTo
<1> QED BY <1>3

\* One step of the recursion on a prefix.
LEMMA FoldPrefix ==
    ASSUME NEW c, NEW g, NEW s, NEW n \in Nat, IsFold(c, g, s, n)
    PROVE  /\ g[{}] = FoldBase(c)
           /\ \A k \in Nat : k + 1 <= n => g[1..(k + 1)] = FoldStep(c, g[1..k], s[k + 1])
<1>1. {} \in SUBSET (1..n)
  OBVIOUS
<1>2. g[{}] = FoldBase(c)
  BY <1>1 DEF IsFold
<1>3. ASSUME NEW k \in Nat, k + 1 <= n
      PROVE  g[1..(k + 1)] = FoldStep(c, g[1..k], s[k + 1])
  <2>1. PICK u : u = 1..(k + 1)
    OBVIOUS
  <2>2. u \in SUBSET (1..n) /\ k + 1 \in u /\ u # {} /\ u \in SUBSET (1..(k + 1))
    BY <1>3, <2>1
  <2>3. Max(u) = k + 1
    BY <2>2, TopIndex
  <2>4. u \ {k + 1} = 1..k
    BY <2>1
  <2>5. g[u] = FoldStep(c, g[u \ {Max(u)}], s[Max(u)])
    BY <2>2 DEF IsFold
  <2> QED BY <2>1, <2>3, <2>4, <2>5
<1> QED BY <1>2, <1>3

\* Two sequences that begin alike fold alike so far.
LEMMA FoldAlike ==
    ASSUME NEW c, NEW g, NEW s, NEW n \in Nat, IsFold(c, g, s, n),
           NEW h, NEW z, NEW m \in Nat, IsFold(c, h, z, m),
           n <= m, \A i \in 1..n : s[i] = z[i]
    PROVE  g[1..n] = h[1..n]
<1> DEFINE T == {k \in Nat : k <= n => g[1..k] = h[1..k]}
<1>1. 0 \in T
  <2>1. 1..0 = {}
    OBVIOUS
  <2> QED BY <2>1, FoldPrefix
<1>2. ASSUME NEW k \in Nat, k \in T PROVE k + 1 \in T
  <2>1. ASSUME k + 1 <= n PROVE g[1..(k + 1)] = h[1..(k + 1)]
    <3>1. g[1..k] = h[1..k] /\ k + 1 <= m /\ s[k + 1] = z[k + 1]
      BY <1>2, <2>1
    <3>2. g[1..(k + 1)] = FoldStep(c, g[1..k], s[k + 1])
      BY <2>1, FoldPrefix
    <3>3. h[1..(k + 1)] = FoldStep(c, h[1..k], z[k + 1])
      BY <3>1, FoldPrefix
    <3> QED BY <3>1, <3>2, <3>3
  <2> QED BY <2>1
<1>3. Nat \subseteq T
  <2> HIDE DEF T
  <2> QED BY <1>1, <1>2, UpTo
<1> QED BY <1>3

\* A fold, as the value of that function.
FoldOf(c, s) == CASE c = "log" -> FoldLeft(LogSample, NoLog, s)
                  [] c = "icmp" -> FoldLeft(KeepICMP, <<>>, s)
                  [] c = "squash" -> FoldLeft(Squash, <<>>, s)
Folds3 == {"log", "icmp", "squash"}

\* A fold of the community modules is the value of that function.
LEMMA FoldIs ==
    ASSUME NEW c \in Folds3, NEW S, NEW s \in Seq(S)
    PROVE  \E g : IsFold(c, g, s, Len(s)) /\ FoldOf(c, s) = g[1..Len(s)]
<1>1. Len(s) \in Nat /\ DOMAIN s = 1..Len(s)
  OBVIOUS
<1>2. PICK g : IsFold(c, g, s, Len(s))
  BY <1>1, FoldExists
<1>3. CASE c = "log"
  <2> DEFINE R(f) == f = [u \in SUBSET (DOMAIN s) |-> IF u = {} THEN NoLog ELSE LogSample(f[u \ {Max(u)}], s[Max(u)])]
             h == CHOOSE f : R(f)
  <2>1. \A f : R(f) <=> IsFold(c, f, s, Len(s))
    BY <1>1, <1>3 DEF IsFold, FoldBase, FoldStep
  <2>2. R(h)
    BY <1>2, <2>1
  <2>3. FoldLeft(LogSample, NoLog, s) = h[DOMAIN s]
    BY DEF FoldLeft, MapThenFoldSet
  <2> HIDE DEF R, h
  <2>4. IsFold(c, h, s, Len(s)) /\ FoldOf(c, s) = h[1..Len(s)]
    BY <1>1, <1>3, <2>1, <2>2, <2>3 DEF FoldOf
  <2> QED BY <2>4
<1>4. CASE c = "icmp"
  <2> DEFINE R(f) == f = [u \in SUBSET (DOMAIN s) |-> IF u = {} THEN <<>> ELSE KeepICMP(f[u \ {Max(u)}], s[Max(u)])]
             h == CHOOSE f : R(f)
  <2>1. \A f : R(f) <=> IsFold(c, f, s, Len(s))
    BY <1>1, <1>4 DEF IsFold, FoldBase, FoldStep
  <2>2. R(h)
    BY <1>2, <2>1
  <2>3. FoldLeft(KeepICMP, <<>>, s) = h[DOMAIN s]
    BY DEF FoldLeft, MapThenFoldSet
  <2> HIDE DEF R, h
  <2>4. IsFold(c, h, s, Len(s)) /\ FoldOf(c, s) = h[1..Len(s)]
    BY <1>1, <1>4, <2>1, <2>2, <2>3 DEF FoldOf
  <2> QED BY <2>4
<1>5. CASE c = "squash"
  <2> DEFINE R(f) == f = [u \in SUBSET (DOMAIN s) |-> IF u = {} THEN <<>> ELSE Squash(f[u \ {Max(u)}], s[Max(u)])]
             h == CHOOSE f : R(f)
  <2>1. \A f : R(f) <=> IsFold(c, f, s, Len(s))
    BY <1>1, <1>5 DEF IsFold, FoldBase, FoldStep
  <2>2. R(h)
    BY <1>2, <2>1
  <2>3. FoldLeft(Squash, <<>>, s) = h[DOMAIN s]
    BY DEF FoldLeft, MapThenFoldSet
  <2> HIDE DEF R, h
  <2>4. IsFold(c, h, s, Len(s)) /\ FoldOf(c, s) = h[1..Len(s)]
    BY <1>1, <1>5, <2>1, <2>2, <2>3 DEF FoldOf
  <2> QED BY <2>4
<1> QED BY <1>3, <1>4, <1>5 DEF Folds3

\* What a fold is on the empty sequence, and what one element more does to it.
LEMMA FoldEmpty == ASSUME NEW c \in Folds3 PROVE FoldOf(c, <<>>) = FoldBase(c)
<1>1. <<>> \in Seq({}) /\ Len(<<>>) = 0
  OBVIOUS
<1>2. PICK g : IsFold(c, g, <<>>, 0) /\ FoldOf(c, <<>>) = g[1..0]
  BY <1>1, FoldIs
<1>3. g[{}] = FoldBase(c) /\ 1..0 = {}
  BY <1>2, FoldPrefix
<1> QED BY <1>2, <1>3

\* What one element more does to a fold.
LEMMA FoldAppend ==
    ASSUME NEW c \in Folds3, NEW S, NEW s \in Seq(S), NEW x \in S
    PROVE  FoldOf(c, Append(s, x)) = FoldStep(c, FoldOf(c, s), x)
<1>1. PICK z : z = Append(s, x)
  OBVIOUS
<1>2. /\ Len(s) \in Nat /\ z \in Seq(S) /\ Len(z) = Len(s) + 1 /\ z[Len(s) + 1] = x
      /\ \A i \in 1..Len(s) : z[i] = s[i]
  BY <1>1
<1>3. PICK n \in Nat : n = Len(s)
  BY <1>2
<1>4. PICK g : IsFold(c, g, s, n) /\ FoldOf(c, s) = g[1..n]
  BY <1>3, FoldIs
<1>5. PICK h : IsFold(c, h, z, n + 1) /\ FoldOf(c, z) = h[1..(n + 1)]
  BY <1>2, <1>3, FoldIs
<1>6. g[1..n] = h[1..n]
  <2>1. n <= n + 1 /\ n + 1 \in Nat /\ \A i \in 1..n : s[i] = z[i]
    BY <1>2, <1>3
  <2> QED BY <1>4, <1>5, <2>1, FoldAlike
<1>7. h[1..(n + 1)] = FoldStep(c, h[1..n], x)
  <2>1. n + 1 <= n + 1 /\ n + 1 \in Nat
    OBVIOUS
  <2> QED BY <1>2, <1>3, <1>5, <2>1, FoldPrefix
<1> QED BY <1>1, <1>4, <1>5, <1>6, <1>7

-----------------------------------------------------------------------------
Edges == {"firing", "resolved"}
Samples == [kind : {"icmp", "snmp"}, ok : BOOLEAN]
StateRecs == [status : {"unknown", "up", "down"}, miss : Nat]

\* The folds the property compares.
Logged(s) == FoldOf("log", s)
\* The definitions of the module, in these terms.
LEMMA FoldNames ==
    /\ \A s : DowntimeFromSeries(s) = Logged(s).log
    /\ \A s : SamplesICMP(s) = FoldOf("icmp", s)
    /\ \A s : Squashed(s) = FoldOf("squash", s)
<1>1. \A s : FoldOf("log", s) = FoldLeft(LogSample, NoLog, s)
  BY DEF FoldOf
<1>2. \A s : FoldOf("icmp", s) = FoldLeft(KeepICMP, <<>>, s)
  BY DEF FoldOf
<1>3. \A s : FoldOf("squash", s) = FoldLeft(Squash, <<>>, s)
  BY DEF FoldOf
<1> QED BY <1>1, <1>2, <1>3 DEF DowntimeFromSeries, SamplesICMP, Squashed, Logged

\* The misses counted are the failures at the end, up to the threshold, and a
\* target is down when there are as many as that.
Streak(st, ic) ==
    /\ st \in StateRecs /\ ic \in Seq(Samples)
    /\ st.miss <= Len(ic) /\ st.miss <= DownThreshold
    /\ \A i \in DOMAIN ic : i > Len(ic) - st.miss => ~ic[i].ok
    /\ st.miss < DownThreshold /\ st.miss < Len(ic) => ic[Len(ic) - st.miss].ok
    /\ st.status = "down" <=> st.miss = DownThreshold

\* Edges alternate: the log ends with "firing" exactly while the target is down.
Alternates(st, log) ==
    /\ log \in Seq(Edges)
    /\ log = <<>> => st.status # "down"
    /\ log # <<>> => (log[Len(log)] = "firing" <=> st.status = "down")

\* What was told is the log, or all of it but the edge about to be fired.
Announced(w, log, told) ==
    /\ told \in Seq(Edges)
    /\ w.pc \notin {"load", "fire"} => told = log
    /\ w.pc \in {"load", "fire"} =>
         /\ w.edge \in Edges /\ log = Append(told, w.edge)
         /\ told # <<>> => told[Len(told)] # w.edge

\* State, samples and feed of a target that agree.
Agree(st, w, s, e) ==
    /\ st = Logged(s).st
    /\ Streak(st, FoldOf("icmp", s))
    /\ Alternates(st, Logged(s).log)
    /\ Announced(w, Logged(s).log, FoldOf("squash", e))

\* The state machine before its first probe.
LEMMA FreshTyped == Fresh \in StateRecs /\ Fresh.miss = 0 /\ Fresh.status = "unknown"
  BY DEF Fresh, StateRecs

\* At the start of a life there is nothing.
LEMMA AgreeFresh == ASSUME NEW w, w.pc \notin {"load", "fire"} PROVE Agree(Fresh, w, <<>>, <<>>)
<1>1. Logged(<<>>) = NoLog /\ FoldOf("icmp", <<>>) = <<>> /\ FoldOf("squash", <<>>) = <<>>
  BY FoldEmpty DEF Logged, FoldBase, Folds3
<1>2. Logged(<<>>).st = Fresh /\ Logged(<<>>).log = <<>>
  BY <1>1 DEF NoLog
<1>3. Streak(Fresh, <<>>)
  BY FreshTyped, MonitorAssumption DEF Streak
<1>4. Alternates(Fresh, <<>>)
  BY FreshTyped DEF Alternates
<1>5. <<>> \in Seq(Edges)
  OBVIOUS
<1>6. Announced(w, <<>>, <<>>)
  BY <1>5 DEF Announced
<1> QED BY <1>1, <1>2, <1>3, <1>4, <1>6 DEF Agree

\* What observe does, by cases.
LEMMA Observed ==
    ASSUME NEW st \in StateRecs, NEW ok \in BOOLEAN, NEW o, o = Observe(st, ok)
    PROVE  /\ o.to \in StateRecs /\ o.edge \in Edges \union {"none"}
           /\ ok => /\ o.to.status = "up" /\ o.to.miss = 0
                    /\ o.edge = IF st.status = "down" THEN "resolved" ELSE "none"
           /\ ~ok => LET m == IF st.miss < DownThreshold THEN st.miss + 1 ELSE st.miss
                         falls == m >= DownThreshold /\ st.status # "down"
                     IN  /\ o.to.miss = m /\ o.to.status = (IF falls THEN "down" ELSE st.status)
                         /\ o.edge = IF falls THEN "firing" ELSE "none"
<1> DEFINE m == IF st.miss < DownThreshold THEN st.miss + 1 ELSE st.miss
<1>1. st.miss \in Nat /\ st.status \in {"unknown", "up", "down"} /\ m \in Nat
  BY MonitorAssumption DEF StateRecs
<1>2. CASE ok
  <2>1. o = [to |-> [status |-> "up", miss |-> 0], edge |-> IF st.status = "down" THEN "resolved" ELSE "none"]
    BY <1>2 DEF Observe
  <2>2. o.to = [status |-> "up", miss |-> 0] /\ o.edge = IF st.status = "down" THEN "resolved" ELSE "none"
    BY <2>1
  <2>3. o.to \in StateRecs /\ o.to.status = "up" /\ o.to.miss = 0
    BY <2>2 DEF StateRecs
  <2> QED BY <1>2, <2>2, <2>3 DEF Edges
<1>3. CASE ~ok
  <2> DEFINE falls == m >= DownThreshold /\ st.status # "down"
  <2>1. o = [to |-> [status |-> IF falls THEN "down" ELSE st.status, miss |-> m],
             edge |-> IF falls THEN "firing" ELSE "none"]
    BY <1>3 DEF Observe
  <2>2. PICK n \in Nat : n = m
    BY <1>1
  <2>3. o.to.miss = m /\ o.to.status = (IF falls THEN "down" ELSE st.status) /\ o.edge = (IF falls THEN "firing" ELSE "none")
    BY <2>1
  <2>4. o.to \in StateRecs
    <3>1. CASE falls
      <4>1. o.to = [status |-> "down", miss |-> m]
        BY <2>1, <3>1
      <4> QED BY <1>1, <4>1 DEF StateRecs
    <3>2. CASE ~falls
      <4>1. o.to = [status |-> st.status, miss |-> m]
        BY <2>1, <3>2
      <4> QED BY <1>1, <4>1 DEF StateRecs
    <3> QED BY <3>1, <3>2
  <2> QED BY <1>3, <2>3, <2>4 DEF Edges
<1> QED BY <1>2, <1>3

\* One more sample keeps the streak.
LEMMA StreakStep ==
    ASSUME NEW st, NEW ic, Streak(st, ic), NEW ok \in BOOLEAN, NEW x, x = [kind |-> "icmp", ok |-> ok],
           NEW o, o = Observe(st, ok)
    PROVE  Streak(o.to, Append(ic, x))
<1>1. st \in StateRecs /\ ic \in Seq(Samples) /\ DownThreshold \in Nat \ {0} /\ x \in Samples
  BY MonitorAssumption DEF Streak, Samples
<1>2. st.miss \in Nat
  BY <1>1 DEF StateRecs
<1>3. PICK j : j = Append(ic, x)
  OBVIOUS
<1>4. PICK n \in Nat : n = Len(ic)
  BY <1>1
<1>5. /\ j \in Seq(Samples) /\ Len(j) = n + 1 /\ j[n + 1] = x /\ (\A i \in 1..n : j[i] = ic[i])
      /\ DOMAIN j = 1..(n + 1) /\ DOMAIN ic = 1..n
  BY <1>1, <1>3, <1>4
<1>6. x.ok = ok
  BY DEF Samples
<1>7. CASE ok
  <2>1. o.to \in StateRecs /\ o.to.miss = 0 /\ o.to.status = "up"
    BY <1>1, <1>7, Observed
  <2>2. j[Len(j) - 0].ok
    BY <1>5, <1>6, <1>7
  <2>3. \A i \in DOMAIN j : ~(i > Len(j) - 0)
    BY <1>5
  <2> QED BY <1>1, <1>3, <1>5, <2>1, <2>2, <2>3 DEF Streak
<1>8. CASE ~ok
  <2>1. PICK k \in Nat : k = st.miss
    BY <1>2
  <2>2. PICK d \in Nat : d = DownThreshold /\ d > 0
    BY <1>1
  <2>3. PICK m : m = IF k < d THEN k + 1 ELSE k
    OBVIOUS
  <2>4. o.to \in StateRecs /\ o.to.miss = m /\ o.to.status = IF m >= d /\ st.status # "down" THEN "down" ELSE st.status
    BY <1>1, <1>8, <2>1, <2>2, <2>3, Observed
  <2>5. /\ k <= n /\ k <= d /\ (\A i \in 1..n : i > n - k => ~ic[i].ok)
        /\ (k < d /\ k < n => ic[n - k].ok) /\ (st.status = "down" <=> k = d)
    BY <1>4, <1>5, <2>1, <2>2 DEF Streak
  <2>6. m \in Nat /\ m <= n + 1 /\ m <= d
    BY <2>3, <2>5
  <2>7. \A i \in 1..(n + 1) : i > (n + 1) - m => ~j[i].ok
    <3> SUFFICES ASSUME NEW i \in 1..(n + 1), i > (n + 1) - m PROVE ~j[i].ok
      OBVIOUS
    <3>1. CASE i = n + 1
      BY <1>5, <1>6, <1>8, <3>1
    <3>2. CASE i # n + 1
      <4>1. i \in 1..n /\ i > n - k
        BY <2>3, <3>2
      <4> QED BY <1>5, <2>5, <4>1
    <3> QED BY <3>1, <3>2
  <2>8. m < d /\ m < n + 1 => j[(n + 1) - m].ok
    <3> SUFFICES ASSUME m < d, m < n + 1 PROVE j[(n + 1) - m].ok
      OBVIOUS
    <3>1. m = k + 1 /\ k < d /\ k < n
      BY <2>3, <2>5
    <3>2. (n + 1) - m = n - k /\ n - k \in 1..n
      BY <3>1
    <3> QED BY <1>5, <2>5, <3>1, <3>2
  <2>9. o.to.status = "down" <=> m = d
    <3>1. CASE m = d
      BY <2>3, <2>4, <2>5, <3>1
    <3>2. CASE m # d
      <4>1. ~(m >= d) /\ k # d
        BY <2>3, <2>5, <2>6, <3>2
      <4> QED BY <2>4, <2>5, <3>2, <4>1
    <3> QED BY <3>1, <3>2
  <2> QED BY <1>3, <1>5, <2>2, <2>4, <2>6, <2>7, <2>8, <2>9 DEF Streak
<1> QED BY <1>7, <1>8

\* An edge is the next one in the alternation.
LEMMA EdgeStep ==
    ASSUME NEW st \in StateRecs, NEW log, Alternates(st, log), NEW ok \in BOOLEAN, NEW o, o = Observe(st, ok)
    PROVE  /\ o.edge = "none" => Alternates(o.to, log)
           /\ o.edge # "none" => /\ o.edge \in Edges /\ Alternates(o.to, Append(log, o.edge))
                                 /\ log # <<>> => log[Len(log)] # o.edge
<1>0. o.to \in StateRecs /\ o.edge \in Edges \union {"none"} /\ log \in Seq(Edges)
  BY Observed DEF Alternates
<1>1. /\ o.edge = "none" => (o.to.status = "down" <=> st.status = "down")
      /\ o.edge = "firing" => o.to.status = "down" /\ st.status # "down"
      /\ o.edge = "resolved" => o.to.status # "down" /\ st.status = "down"
  <2>1. CASE ok
    BY <2>1, Observed
  <2>2. CASE ~ok
    BY <2>2, Observed
  <2> QED BY <2>1, <2>2
<1>2. o.edge = "none" => Alternates(o.to, log)
  BY <1>1 DEF Alternates
<1>3. ASSUME o.edge # "none"
      PROVE  /\ o.edge \in Edges /\ Alternates(o.to, Append(log, o.edge))
             /\ log # <<>> => log[Len(log)] # o.edge
  <2>1. o.edge \in Edges
    BY <1>0, <1>3
  <2>2. PICK z : z = Append(log, o.edge)
    OBVIOUS
  <2>3. z \in Seq(Edges) /\ z # <<>> /\ z[Len(z)] = o.edge
    BY <1>0, <2>1, <2>2
  <2>4. o.edge = "firing" <=> o.to.status = "down"
    BY <1>1, <2>1 DEF Edges
  <2>5. log # <<>> => log[Len(log)] # o.edge
    <3>1. log # <<>> => (log[Len(log)] = "firing" <=> st.status = "down")
      BY DEF Alternates
    <3> QED BY <1>1, <2>1, <3>1 DEF Edges
  <2> QED BY <2>1, <2>2, <2>3, <2>4, <2>5 DEF Alternates
<1> QED BY <1>2, <1>3

-----------------------------------------------------------------------------
\* What is behind a mark of a sequence that grows.
Since(s, b) == SubSeq(s, b + 1, Len(s))

\* Nothing is behind a mark set now.
LEMMA SinceNow == ASSUME NEW S, NEW s \in Seq(S) PROVE Since(s, Len(s)) = <<>>
  BY DEF Since

\* What is behind a mark is a sequence of the same kind.
LEMMA SinceTyped == ASSUME NEW S, NEW s \in Seq(S), NEW b \in Nat, b <= Len(s) PROVE Since(s, b) \in Seq(S)
  BY DEF Since

\* What is appended lies behind every earlier mark.
LEMMA SinceConcat ==
    ASSUME NEW S, NEW s \in Seq(S), NEW r \in Seq(S), NEW b \in Nat, b <= Len(s)
    PROVE  Since(s \o r, b) = Since(s, b) \o r
<1>1. PICK n \in Nat, m \in Nat : n = Len(s) /\ m = Len(r)
  OBVIOUS
<1>2. PICK z : z = s \o r
  OBVIOUS
<1>3. /\ z \in Seq(S) /\ Len(z) = n + m /\ (\A i \in 1..n : z[i] = s[i])
      /\ \A i \in (n + 1)..(n + m) : z[i] = r[i - n]
  BY <1>1, <1>2, ConcatProperties
<1>4. PICK u, v : u = SubSeq(z, b + 1, n + m) /\ v = SubSeq(s, b + 1, n)
  OBVIOUS
<1>5. /\ u \in Seq(S) /\ Len(u) = (n + m) - b /\ \A i \in 1..((n + m) - b) : u[i] = z[b + i]
  BY <1>1, <1>3, <1>4
<1>6. /\ v \in Seq(S) /\ Len(v) = n - b /\ \A i \in 1..(n - b) : v[i] = s[b + i]
  BY <1>1, <1>4
<1>7. PICK w : w = v \o r
  OBVIOUS
<1>8. /\ w \in Seq(S) /\ Len(w) = (n - b) + m /\ (\A i \in 1..(n - b) : w[i] = v[i])
      /\ \A i \in ((n - b) + 1)..((n - b) + m) : w[i] = r[i - (n - b)]
  <2>0. b <= n
    BY <1>1
  <2>1. PICK l \in Nat : l = n - b
    BY <2>0
  <2>2. Len(v) = l /\ v \in Seq(S)
    BY <1>6, <2>1
  <2>3. /\ w \in Seq(S) /\ Len(w) = l + m /\ (\A i \in 1..l : w[i] = v[i])
        /\ \A i \in (l + 1)..(l + m) : w[i] = r[i - l]
    <3>1. /\ v \o r \in Seq(S) /\ Len(v \o r) = Len(v) + Len(r)
          /\ \A i \in 1..(Len(v) + Len(r)) : (v \o r)[i] = IF i <= Len(v) THEN v[i] ELSE r[i - Len(v)]
      BY <2>2, ConcatProperties
    <3>2. w \in Seq(S) /\ Len(w) = l + m /\ \A i \in 1..(l + m) : w[i] = IF i <= l THEN v[i] ELSE r[i - l]
      BY <1>1, <1>7, <2>2, <3>1
    <3>3. \A i \in 1..l : i \in 1..(l + m) /\ i <= l
      OBVIOUS
    <3>4. \A i \in (l + 1)..(l + m) : i \in 1..(l + m) /\ ~(i <= l)
      OBVIOUS
    <3> QED BY <3>2, <3>3, <3>4
  <2> QED BY <2>1, <2>3
<1>9. ASSUME NEW i \in 1..Len(u) PROVE u[i] = w[i]
  <2>1. i \in 1..((n + m) - b) /\ u[i] = z[b + i]
    BY <1>5
  <2>2. CASE i <= n - b
    <3>1. i \in 1..(n - b) /\ b + i \in 1..n
      BY <1>1, <2>1, <2>2
    <3> QED BY <1>3, <1>6, <1>8, <2>1, <3>1
  <2>3. CASE i > n - b
    <3>0. i \in Nat /\ i > n - b /\ i <= (n + m) - b
      BY <2>1, <2>3
    <3>1. i \in ((n - b) + 1)..((n - b) + m) /\ b + i \in (n + 1)..(n + m) /\ (b + i) - n = i - (n - b)
      BY <3>0
    <3> QED BY <1>3, <1>8, <2>1, <3>1
  <2> QED BY <1>1, <2>1, <2>2, <2>3
<1>10. u = w
  <2>1. Len(u) = Len(w)
    BY <1>1, <1>5, <1>8
  <2> QED BY <1>5, <1>8, <1>9, <2>1, SeqEqual
<1> QED BY <1>1, <1>2, <1>3, <1>4, <1>7, <1>10 DEF Since

\* The same for one element.
LEMMA SinceAppend ==
    ASSUME NEW S, NEW s \in Seq(S), NEW x \in S, NEW b \in Nat, b <= Len(s)
    PROVE  Since(Append(s, x), b) = Append(Since(s, b), x)
<1>1. <<x>> \in Seq(S) /\ Since(s, b) \in Seq(S)
  BY SinceTyped
<1>2. Append(s, x) = s \o <<x>> /\ Append(Since(s, b), x) = Since(s, b) \o <<x>>
  BY <1>1, AppendIsConcat
<1> QED BY <1>1, <1>2, SinceConcat

-----------------------------------------------------------------------------
\* A sample that is not ICMP changes nothing.
LEMMA AgreeOther ==
    ASSUME NEW st, NEW w, NEW s \in Seq(Samples), NEW e, Agree(st, w, s, e), NEW x \in Samples, x.kind # "icmp"
    PROVE  Agree(st, w, Append(s, x), e)
<1>1. Logged(Append(s, x)) = Logged(s)
  BY FoldAppend DEF Logged, FoldStep, LogSample, Folds3
<1>2. FoldOf("icmp", Append(s, x)) = FoldOf("icmp", s)
  BY FoldAppend DEF FoldStep, KeepICMP, Folds3
<1> QED BY <1>1, <1>2 DEF Agree

\* A probe changes state and log alike.
LEMMA AgreeSample ==
    ASSUME NEW st, NEW w, NEW s \in Seq(Samples), NEW e, Agree(st, w, s, e), w.pc \notin {"load", "fire"},
           NEW ok \in BOOLEAN, NEW o, o = Observe(st, ok), NEW v,
           o.edge = "none" => v.pc \notin {"load", "fire"},
           o.edge # "none" => v.pc \in {"load", "fire"} /\ v.edge = o.edge
    PROVE  Agree(o.to, v, Append(s, [kind |-> "icmp", ok |-> ok]), e)
<1>1. PICK x \in Samples : x = [kind |-> "icmp", ok |-> ok] /\ x.kind = "icmp" /\ x.ok = ok
  <2>1. PICK x : x = [kind |-> "icmp", ok |-> ok]
    OBVIOUS
  <2>2. x \in Samples /\ x.kind = "icmp" /\ x.ok = ok
    BY <2>1 DEF Samples
  <2> QED BY <2>1, <2>2
<1>2. PICK z : z = Append(s, x)
  OBVIOUS
<1>3. PICK d : d = Logged(s)
  OBVIOUS
<1>4. /\ st = d.st /\ Streak(st, FoldOf("icmp", s)) /\ Alternates(st, d.log)
      /\ Announced(w, d.log, FoldOf("squash", e))
  BY <1>3 DEF Agree
<1>5. st \in StateRecs
  BY <1>4 DEF Streak
<1>6. Logged(z) = LogSample(d, x)
  BY <1>2, <1>3, FoldAppend DEF Logged, FoldStep, Folds3
<1>7. Logged(z) = [st |-> o.to, log |-> IF o.edge = "none" THEN d.log ELSE Append(d.log, o.edge)]
  BY <1>1, <1>4, <1>6 DEF LogSample
<1>8. Logged(z).st = o.to /\ Logged(z).log = IF o.edge = "none" THEN d.log ELSE Append(d.log, o.edge)
  BY <1>7
<1>9. FoldOf("icmp", z) = Append(FoldOf("icmp", s), x)
  BY <1>1, <1>2, FoldAppend DEF FoldStep, KeepICMP, Folds3
<1>10. Streak(o.to, FoldOf("icmp", z))
  BY <1>1, <1>4, <1>9, StreakStep
<1>11. /\ o.edge = "none" => Alternates(o.to, d.log)
       /\ o.edge # "none" => /\ o.edge \in Edges /\ Alternates(o.to, Append(d.log, o.edge))
                             /\ d.log # <<>> => d.log[Len(d.log)] # o.edge
  BY <1>4, <1>5, EdgeStep
<1>12. Alternates(o.to, Logged(z).log)
  BY <1>8, <1>11
<1>13. FoldOf("squash", e) = d.log /\ d.log \in Seq(Edges)
  BY <1>4 DEF Announced
<1>14. Announced(v, Logged(z).log, FoldOf("squash", e))
  <2>1. CASE o.edge = "none"
    BY <1>8, <1>13, <2>1 DEF Announced
  <2>2. CASE o.edge # "none"
    BY <1>8, <1>11, <1>13, <2>2 DEF Announced
  <2> QED BY <2>1, <2>2
<1> QED BY <1>1, <1>2, <1>8, <1>10, <1>12, <1>14 DEF Agree

\* The rules are loaded and the edge is still to be fired, or there is none.
LEMMA AgreeWork ==
    ASSUME NEW st, NEW w, NEW s, NEW e, Agree(st, w, s, e), NEW v,
           \/ w.pc \notin {"load", "fire"} /\ v.pc \notin {"load", "fire"}
           \/ w.pc \in {"load", "fire"} /\ v.pc \in {"load", "fire"} /\ v.edge = w.edge
    PROVE  Agree(st, v, s, e)
<1>1. Announced(v, Logged(s).log, FoldOf("squash", e))
  BY DEF Agree, Announced
<1> QED BY <1>1 DEF Agree

\* Repeats of an edge count once.
LEMMA SquashRepeats ==
    ASSUME NEW e \in Seq(Edges), NEW x \in Edges, NEW told \in Seq(Edges), told = FoldOf("squash", e),
           told # <<>> => told[Len(told)] # x, NEW k \in Nat \ {0}
    PROVE  FoldOf("squash", e \o Record(x, k)) = Append(told, x)
<1> DEFINE T == {n \in Nat : FoldOf("squash", e \o Record(x, n + 1)) = Append(told, x)}
<1>0. ASSUME NEW n \in Nat
      PROVE  /\ Record(x, n) \in Seq(Edges) /\ e \o Record(x, n) \in Seq(Edges)
             /\ e \o Record(x, n + 1) = Append(e \o Record(x, n), x)
  <2>1. \A i \in Nat : Record(x, i) \in Seq(Edges) /\ Len(Record(x, i)) = i
    <3>1. \A i \in Nat : [j \in 1..i |-> x] \in Seq(Edges) /\ Len([j \in 1..i |-> x]) = i
      OBVIOUS
    <3> QED BY <3>1 DEF Record
  <2>2. Record(x, n + 1) = Append(Record(x, n), x)
    <3>0. Record(x, n + 1) \in Seq(Edges) /\ Append(Record(x, n), x) \in Seq(Edges)
      BY <2>1
    <3>1. PICK p \in Seq(Edges), q \in Seq(Edges) : p = Record(x, n + 1) /\ q = Append(Record(x, n), x)
      BY <3>0
    <3>2. Len(p) = n + 1 /\ Len(q) = n + 1
      BY <2>1, <3>1
    <3>3. ASSUME NEW i \in 1..(n + 1) PROVE p[i] = x /\ q[i] = x
      <4>1. p[i] = x
        BY <3>1 DEF Record
      <4>2. CASE i = n + 1
        BY <2>1, <3>1, <4>1, <4>2
      <4>3. CASE i # n + 1
        <5>1. i \in 1..n
          BY <4>3
        <5>2. q[i] = Record(x, n)[i]
          BY <2>1, <3>1, <5>1
        <5> QED BY <4>1, <5>1, <5>2 DEF Record
      <4> QED BY <4>2, <4>3, <4>1
    <3>4. p = q
      BY <3>2, <3>3, SeqEqual
    <3> QED BY <3>1, <3>4
  <2>3. Record(x, n) \in Seq(Edges) /\ <<x>> \in Seq(Edges)
    BY <2>1
  <2>4. Append(Record(x, n), x) = Record(x, n) \o <<x>>
    BY <2>3, AppendIsConcat
  <2>5. e \o (Record(x, n) \o <<x>>) = (e \o Record(x, n)) \o <<x>>
    BY <2>3, ConcatAssociative
  <2>6. e \o Record(x, n) \in Seq(Edges)
    BY <2>3, ConcatProperties
  <2>7. (e \o Record(x, n)) \o <<x>> = Append(e \o Record(x, n), x)
    BY <2>6, AppendIsConcat
  <2> QED BY <2>2, <2>3, <2>4, <2>5, <2>6, <2>7
<1>1. ASSUME NEW n \in Nat
      PROVE  FoldOf("squash", e \o Record(x, n + 1)) = Squash(FoldOf("squash", e \o Record(x, n)), x)
  BY <1>0, FoldAppend DEF FoldStep, Folds3
<1>2. 0 \in T
  <2>1. e \o Record(x, 0) = e
    <3>1. Record(x, 0) = <<>>
      BY DEF Record
    <3> QED BY <3>1, ConcatEmptySeq
  <2>2. Squash(told, x) = Append(told, x)
    BY DEF Squash, Last
  <2>3. FoldOf("squash", e \o Record(x, 0 + 1)) = Squash(told, x)
    BY <1>1, <2>1
  <2> QED BY <2>2, <2>3
<1>3. ASSUME NEW n \in Nat, n \in T PROVE n + 1 \in T
  <2>1. FoldOf("squash", e \o Record(x, n + 1)) = Append(told, x) /\ n + 1 \in Nat
    BY <1>3
  <2>2. Squash(Append(told, x), x) = Append(told, x)
    <3>1. PICK z : z = Append(told, x)
      OBVIOUS
    <3>2. z # <<>> /\ z[Len(z)] = x
      BY <3>1
    <3>3. Squash(z, x) = z
      BY <3>2 DEF Squash, Last
    <3> QED BY <3>1, <3>3
  <2>3. FoldOf("squash", e \o Record(x, (n + 1) + 1)) = Squash(FoldOf("squash", e \o Record(x, n + 1)), x)
    BY <1>1, <2>1
  <2> QED BY <2>1, <2>2, <2>3
<1>4. Nat \subseteq T
  <2> HIDE DEF T
  <2> QED BY <1>2, <1>3, UpTo
<1>5. k - 1 \in T /\ (k - 1) + 1 = k
  BY <1>4
<1> QED BY <1>5

\* The edge is fired, in one row or more.
LEMMA AgreeFired ==
    ASSUME NEW st, NEW w, NEW s, NEW e \in Seq(Edges), Agree(st, w, s, e), w.pc = "fire",
           NEW k \in Nat \ {0}, NEW v, v.pc \notin {"load", "fire"}
    PROVE  Agree(st, v, s, e \o Record(w.edge, k))
<1>1. PICK told : told = FoldOf("squash", e)
  OBVIOUS
<1>2. /\ told \in Seq(Edges) /\ w.edge \in Edges /\ Logged(s).log = Append(told, w.edge)
      /\ told # <<>> => told[Len(told)] # w.edge
  BY <1>1 DEF Agree, Announced
<1>3. PICK z : z = FoldOf("squash", e \o Record(w.edge, k))
  OBVIOUS
<1>4. z = Append(told, w.edge)
  <2>1. PICK x \in Edges : x = w.edge
    BY <1>2
  <2> QED BY <1>1, <1>2, <1>3, <2>1, SquashRepeats
<1>5. z \in Seq(Edges)
  BY <1>2, <1>4
<1>6. Announced(v, Logged(s).log, z)
  BY <1>2, <1>4, <1>5 DEF Announced
<1> QED BY <1>3, <1>6 DEF Agree

-----------------------------------------------------------------------------
WorkSteps == {"idle", "ping", "load", "fire", "reconcile", "hget", "upsert"}
WorkRecs(L) == [pc : WorkSteps, edge : Edges \union {"none"}, loaded : L]
WorkType == \E L : work \in [Targets -> WorkRecs(L)]
BornRecs == [row : Nat, event : Nat]

MonType ==
    /\ states \in [Targets -> StateRecs] /\ WorkType /\ targets \subseteq Targets
    /\ probes \in [Targets -> Seq(Samples)] /\ feed \in [Targets \union {"system"} -> Seq(Edges)]
    /\ born \in [Targets -> BornRecs] /\ clean \in [Targets -> BOOLEAN]

\* A life began in the past.
LifeMarked(t) == born[t].row <= Len(probes[t]) /\ born[t].event <= Len(feed[t])

\* Who is not probed has no memory, and an edge under way is one.
EngineOrder(t) ==
    /\ t \notin targets => states[t] = Fresh
    /\ work[t].pc = "ping" => t \in targets
    /\ work[t].pc \in {"load", "fire"} => work[t].edge \in Edges
    /\ work[t].pc = "fire" => DOMAIN work[t].loaded \subseteq RuleIds

\* The memory, the samples and the feed of this life agree.
LifeAgrees(t) ==
    clean[t] => Agree(states[t], work[t], Since(probes[t], born[t].row), Since(feed[t], born[t].event))

TargetOK(t) == LifeMarked(t) /\ EngineOrder(t) /\ LifeAgrees(t)
MonInv == MonType /\ \A t \in Targets : TargetOK(t)

\* The records of a target at rest, and of one that only its step distinguishes.
LEMMA IdleTyped ==
    /\ \A L : <<>> \in L => Idle \in WorkRecs(L)
    /\ Idle.pc = "idle" /\ Idle.pc \notin {"load", "fire"}
    /\ \A p \in WorkSteps : /\ [Idle EXCEPT !.pc = p].pc = p
                            /\ \A L : <<>> \in L => [Idle EXCEPT !.pc = p] \in WorkRecs(L)
  BY DEF Idle, WorkRecs, WorkSteps, Edges

\* A life begins where samples and feed end.
LEMMA NewLifeOK ==
    ASSUME NEW t, NEW S, NEW R, probes[t] \in Seq(S), feed[t] \in Seq(R)
    PROVE  /\ NewLife(t) \in BornRecs /\ NewLife(t).row = Len(probes[t]) /\ NewLife(t).event = Len(feed[t])
           /\ Since(probes[t], NewLife(t).row) = <<>> /\ Since(feed[t], NewLife(t).event) = <<>>
<1>1. NewLife(t).row = Len(probes[t]) /\ NewLife(t).event = Len(feed[t]) /\ NewLife(t) \in BornRecs
  BY DEF NewLife, BornRecs
<1>2. PICK p \in Seq(S), f \in Seq(R) : p = probes[t] /\ f = feed[t]
  OBVIOUS
<1>3. Since(p, Len(p)) = <<>> /\ Since(f, Len(f)) = <<>>
  BY SinceNow
<1> QED BY <1>1, <1>2, <1>3

\* A target nothing happens to.
LEMMA TargetSame ==
    ASSUME NEW t \in Targets, TargetOK(t), states'[t] = states[t], work'[t] = work[t], probes'[t] = probes[t],
           feed'[t] = feed[t], born'[t] = born[t], clean'[t] = clean[t], t \in targets' <=> t \in targets
    PROVE  TargetOK(t)'
<1>1. LifeMarked(t)' /\ EngineOrder(t)'
  BY DEF TargetOK, LifeMarked, EngineOrder
<1>2. LifeAgrees(t)'
  BY DEF TargetOK, LifeAgrees
<1> QED BY <1>1, <1>2 DEF TargetOK

\* A life that begins.
LEMMA TargetFresh ==
    ASSUME NEW t \in Targets, MonType, probes'[t] = probes[t], feed'[t] = feed[t], states'[t] = Fresh,
           work'[t] = Idle, born'[t] = NewLife(t)
    PROVE  TargetOK(t)'
<1>1. probes[t] \in Seq(Samples) /\ feed[t] \in Seq(Edges)
  BY DEF MonType
<1>2. /\ born'[t].row = Len(probes[t]) /\ born'[t].event = Len(feed[t])
      /\ Since(probes'[t], born'[t].row) = <<>> /\ Since(feed'[t], born'[t].event) = <<>>
  BY <1>1, NewLifeOK
<1>3. Agree(Fresh, Idle, <<>>, <<>>)
  BY AgreeFresh, IdleTyped
<1>4. LifeAgrees(t)'
  BY <1>2, <1>3 DEF LifeAgrees
<1>5. LifeMarked(t)'
  BY <1>1, <1>2 DEF LifeMarked
<1>6. EngineOrder(t)'
  BY IdleTyped DEF EngineOrder
<1> QED BY <1>4, <1>5, <1>6 DEF TargetOK

\* The engine starts with nothing remembered, sampled or told.
LEMMA MonInvInit == MonInit => MonInv
<1> SUFFICES ASSUME MonInit PROVE MonInv
  OBVIOUS
<1>1. WorkType
  BY IdleTyped DEF MonInit, WorkType
<1>2. MonType
  <2>1. states \in [Targets -> StateRecs]
    BY FreshTyped DEF MonInit
  <2>2. probes \in [Targets -> Seq(Samples)] /\ feed \in [Targets \union {"system"} -> Seq(Edges)]
    BY DEF MonInit
  <2>3. born \in [Targets -> BornRecs] /\ clean \in [Targets -> BOOLEAN] /\ targets \subseteq Targets
    BY DEF MonInit, BornRecs
  <2> QED BY <1>1, <2>1, <2>2, <2>3 DEF MonType
<1>3. ASSUME NEW t \in Targets PROVE TargetOK(t)
  <2>1. /\ states[t] = Fresh /\ work[t] = Idle /\ probes[t] = <<>> /\ feed[t] = <<>>
        /\ born[t].row = 0 /\ born[t].event = 0
    BY <1>3 DEF MonInit
  <2>2. <<>> \in Seq({}) /\ Len(<<>>) = 0
    OBVIOUS
  <2>3. Since(<<>>, 0) = <<>>
    BY <2>2, SinceNow
  <2>4. Agree(Fresh, Idle, <<>>, <<>>)
    BY AgreeFresh, IdleTyped
  <2>5. LifeAgrees(t)
    BY <2>1, <2>3, <2>4 DEF LifeAgrees
  <2>6. LifeMarked(t) /\ EngineOrder(t)
    BY <2>1, <2>2, IdleTyped DEF LifeMarked, EngineOrder
  <2> QED BY <2>5, <2>6 DEF TargetOK
<1> QED BY <1>2, <1>3 DEF MonInv

\* The engine reads its targets again.
LEMMA ReloadKeeps == MonInv /\ ReloadTargets => MonInv'
<1> SUFFICES ASSUME MonInv, ReloadTargets PROVE MonInv'
  OBVIOUS
<1>0. MonType /\ (\A t \in Targets : TargetOK(t) /\ work[t] = Idle)
  BY DEF MonInv, ReloadTargets, Resting
<1>1. work' = work /\ probes' = probes /\ feed' = feed
  BY DEF ReloadTargets
<1>2. targets' \subseteq Targets
  BY DEF ReloadTargets, LoadTargets
<1>3. MonType'
  <2>1. WorkType'
    BY <1>0, <1>1 DEF MonType, WorkType
  <2>2. states' \in [Targets -> StateRecs]
    BY <1>0, FreshTyped DEF ReloadTargets, MonType
  <2>3. \A t \in Targets : NewLife(t) \in BornRecs
    <3>1. \A t \in Targets : probes[t] \in Seq(Samples) /\ feed[t] \in Seq(Edges)
      BY <1>0 DEF MonType
    <3> QED BY <3>1, NewLifeOK
  <2>4. born' \in [Targets -> BornRecs]
    BY <1>0, <2>3 DEF ReloadTargets, MonType
  <2>5. clean' \in [Targets -> BOOLEAN]
    BY <1>0 DEF ReloadTargets, MonType
  <2> QED BY <1>0, <1>1, <1>2, <2>1, <2>2, <2>4, <2>5 DEF MonType
<1>4. ASSUME NEW t \in Targets PROVE TargetOK(t)'
  <2>1. TargetOK(t) /\ work[t] = Idle
    BY <1>0
  <2>2. CASE t \in targets' /\ t \in targets
    <3>1. states'[t] = states[t] /\ born'[t] = born[t] /\ clean'[t] = clean[t]
      BY <2>2 DEF ReloadTargets
    <3> QED BY <1>1, <2>1, <2>2, <3>1, TargetSame
  <2>3. CASE ~(t \in targets' /\ t \in targets)
    <3>1. born'[t] = NewLife(t)
      BY <2>3 DEF ReloadTargets
    <3>2. states'[t] = Fresh
      <4>1. CASE t \in targets'
        BY <2>1, <2>3, <4>1 DEF ReloadTargets, TargetOK, EngineOrder
      <4>2. CASE t \notin targets'
        BY <4>2 DEF ReloadTargets
      <4> QED BY <4>1, <4>2
    <3> QED BY <1>0, <1>1, <2>1, <3>1, <3>2, TargetFresh
  <2> QED BY <2>2, <2>3
<1> QED BY <1>3, <1>4 DEF MonInv

\* The monitor restarts.
LEMMA MonRestartKeeps == MonInv /\ MonRestart => MonInv'
<1> SUFFICES ASSUME MonInv, MonRestart PROVE MonInv'
  OBVIOUS
<1>0. MonType
  BY DEF MonInv
<1>1. probes' = probes /\ feed' = feed /\ targets' \subseteq Targets
  BY DEF MonRestart, LoadTargets
<1>2. MonType'
  <2>1. WorkType'
    BY IdleTyped DEF MonRestart, WorkType
  <2>2. states' \in [Targets -> StateRecs]
    BY FreshTyped DEF MonRestart
  <2>3. \A t \in Targets : NewLife(t) \in BornRecs
    <3>1. \A t \in Targets : probes[t] \in Seq(Samples) /\ feed[t] \in Seq(Edges)
      BY <1>0 DEF MonType
    <3> QED BY <3>1, NewLifeOK
  <2>4. born' \in [Targets -> BornRecs] /\ clean' \in [Targets -> BOOLEAN]
    BY <2>3 DEF MonRestart
  <2> QED BY <1>0, <1>1, <2>1, <2>2, <2>4 DEF MonType
<1>3. ASSUME NEW t \in Targets PROVE TargetOK(t)'
  <2>1. states'[t] = Fresh /\ work'[t] = Idle /\ born'[t] = NewLife(t)
    BY DEF MonRestart
  <2> QED BY <1>0, <1>1, <2>1, TargetFresh
<1> QED BY <1>2, <1>3 DEF MonInv

\* The rows of one Fire.
LEMMA RecordTyped == ASSUME NEW x \in Edges, NEW n \in Nat PROVE Record(x, n) \in Seq(Edges)
<1>1. [j \in 1..n |-> x] \in Seq(Edges)
  OBVIOUS
<1> QED BY <1>1 DEF Record

\* An edge of reachability always leaves a row.
LEMMA RowsCounted ==
    ASSUME NEW l, DOMAIN l \subseteq RuleIds
    PROVE  RowsWritten(l, TRUE) \in Nat \ {0} /\ RowsWritten(l, FALSE) \in Nat
<1>1. PICK A : A = Answering(l)
  OBVIOUS
<1>2. A \subseteq RuleIds
  BY <1>1 DEF Answering
<1>3. IsFiniteSet(A)
  BY <1>2, MonitorAssumption, FS_Subset
<1>4. Cardinality(A) \in Nat /\ (Cardinality(A) = 0 <=> A = {})
  BY <1>3, FS_CardinalityType, FS_EmptySet
<1>5. PICK n \in Nat \ {0} : n = IF A = {} THEN 1 ELSE Cardinality(A)
  BY <1>4
<1>6. RowsWritten(l, TRUE) = n /\ RowsWritten(l, FALSE) = Cardinality(A)
  BY <1>1, <1>5 DEF RowsWritten
<1> QED BY <1>4, <1>5, <1>6, Zenon

\* All targets are probed at once.
LEMMA SweepKeeps == MonInv /\ SweepICMP => MonInv'
<1> SUFFICES ASSUME MonInv, SweepICMP PROVE MonInv'
  OBVIOUS
<1>0. MonType /\ \A t \in Targets : TargetOK(t) /\ work[t] = Idle
  BY DEF MonInv, SweepICMP, Resting
<1>1. /\ states' = states /\ targets' = targets /\ probes' = probes /\ feed' = feed /\ born' = born /\ clean' = clean
      /\ work' = [t \in Targets |-> IF t \in targets THEN [Idle EXCEPT !.pc = "ping"] ELSE work[t]]
  BY DEF SweepICMP, marks
<1>2. WorkType'
  <2>1. PICK P : P = [Idle EXCEPT !.pc = "ping"]
    OBVIOUS
  <2>2. P \in WorkRecs({<<>>}) /\ Idle \in WorkRecs({<<>>})
    BY <2>1, IdleTyped DEF WorkSteps
  <2>3. work' \in [Targets -> WorkRecs({<<>>})]
    BY <1>0, <1>1, <2>1, <2>2
  <2> QED BY <2>3 DEF WorkType
<1>3. MonType'
  BY <1>0, <1>1, <1>2 DEF MonType
<1>4. ASSUME NEW t \in Targets PROVE TargetOK(t)'
  <2>1. TargetOK(t) /\ work[t] = Idle
    BY <1>0
  <2>2. CASE t \in targets
    <3>1. work'[t].pc = "ping"
      BY <1>1, <2>2, IdleTyped DEF WorkSteps
    <3>2. LifeMarked(t)' /\ EngineOrder(t)'
      BY <1>1, <2>1, <2>2, <3>1 DEF TargetOK, LifeMarked, EngineOrder
    <3>3. ASSUME clean[t]
          PROVE  Agree(states[t], work'[t], Since(probes[t], born[t].row), Since(feed[t], born[t].event))
      <4>1. Agree(states[t], Idle, Since(probes[t], born[t].row), Since(feed[t], born[t].event))
        BY <2>1, <3>3 DEF TargetOK, LifeAgrees
      <4>2. PICK st, v, s, e : /\ st = states[t] /\ v = work'[t] /\ s = Since(probes[t], born[t].row)
                               /\ e = Since(feed[t], born[t].event)
        OBVIOUS
      <4>3. v.pc \notin {"load", "fire"}
        BY <3>1, <4>2
      <4>4. Agree(st, v, s, e)
        BY <4>1, <4>2, <4>3, IdleTyped, AgreeWork
      <4> QED BY <4>2, <4>4
    <3>4. LifeAgrees(t)'
      BY <1>1, <3>3 DEF LifeAgrees
    <3> QED BY <3>2, <3>4 DEF TargetOK
  <2>3. CASE t \notin targets
    <3>1. work'[t] = work[t]
      BY <1>1, <2>3
    <3> QED BY <1>1, <2>1, <3>1, TargetSame
  <2> QED BY <2>2, <2>3
<1> QED BY <1>3, <1>4 DEF MonInv

\* Steps of the API, the clock and the accounting leave the engine, the samples
\* and the feed alone.
EngineSame ==
    /\ states' = states /\ work' = work /\ targets' = targets /\ probes' = probes
    /\ feed' = feed /\ born' = born /\ clean' = clean

LEMMA EngineUntouched == ASSUME MonInv, EngineSame PROVE MonInv'
<1>1. MonType'
  BY DEF MonInv, MonType, WorkType, EngineSame
<1>2. ASSUME NEW t \in Targets PROVE TargetOK(t)'
  <2>1. TargetOK(t)
    BY DEF MonInv
  <2> QED BY <2>1, TargetSame DEF EngineSame
<1> QED BY <1>1, <1>2 DEF MonInv

\* The conditions write under a source of their own.
LEMMA SystemFires ==
    ASSUME MonInv, states' = states, work' = work, targets' = targets, probes' = probes, born' = born, clean' = clean,
           NEW l, DOMAIN l \subseteq RuleIds, Fire("system", "firing", l, FALSE)
    PROVE  MonInv'
<1>1. PICK n \in Nat : n = RowsWritten(l, FALSE)
  BY RowsCounted
<1>2. PICK r \in Seq(Edges) : r = Record("firing", n)
  <2>1. Record("firing", n) \in Seq(Edges)
    BY RecordTyped DEF Edges
  <2> QED BY <2>1
<1>3. feed' = [feed EXCEPT !["system"] = @ \o r]
  BY <1>1, <1>2 DEF Fire
<1>4. feed \in [Targets \union {"system"} -> Seq(Edges)]
  BY DEF MonInv, MonType
<1>5. feed["system"] \o r \in Seq(Edges)
  <2>1. PICK f \in Seq(Edges) : f = feed["system"]
    BY <1>4
  <2>2. f \o r \in Seq(Edges)
    BY ConcatProperties
  <2> QED BY <2>1, <2>2
<1>6. feed' \in [Targets \union {"system"} -> Seq(Edges)]
  BY <1>3, <1>4, <1>5
<1>7. \A t \in Targets : feed'[t] = feed[t]
  BY <1>3, <1>4, MonitorAssumption
<1>8. MonType'
  BY <1>6 DEF MonInv, MonType, WorkType
<1>9. ASSUME NEW t \in Targets PROVE TargetOK(t)'
  <2>1. TargetOK(t)
    BY DEF MonInv
  <2> QED BY <1>7, <2>1, TargetSame
<1> QED BY <1>8, <1>9 DEF MonInv

\* Only rules are loaded.
LEMMA RulesLoaded == ASSUME NEW c PROVE DOMAIN LoadRules(c) \subseteq RuleIds
  BY DEF LoadRules

\* The digest and the polled conditions.
LEMMA PolledKeeps == ASSUME MonInv, Digests \/ \E c \in Conds : Evaluate(c) PROVE MonInv'
<1>1. CASE Digests
  <2>1. PICK l : l = LoadRules("expiring_digest")
    OBVIOUS
  <2>2. DOMAIN l \subseteq RuleIds
    BY <2>1, RulesLoaded
  <2>3. states' = states /\ work' = work /\ targets' = targets /\ probes' = probes /\ born' = born /\ clean' = clean
    BY <1>1 DEF Digests, engine, marks
  <2>4. Fire("system", "firing", l, FALSE)
    BY <1>1, <2>1 DEF Digests
  <2> QED BY <2>2, <2>3, <2>4, SystemFires
<1>2. ASSUME NEW c \in Conds, Evaluate(c) PROVE MonInv'
  <2>1. PICK v \in 0..MaxReading, ok \in BOOLEAN :
          /\ Fire("system", "firing", MatchedRules(c, v, ok), FALSE)
          /\ UNCHANGED <<registry, engine, probes, rules, quiet, claimed, views, marks, monFaults, monEdits>>
    BY <1>2 DEF Evaluate
  <2>2. PICK l : l = MatchedRules(c, v, ok)
    OBVIOUS
  <2>3. DOMAIN l \subseteq RuleIds
    <3>1. DOMAIN l \subseteq DOMAIN LoadRules(c)
      BY <2>2 DEF MatchedRules, Restrict
    <3> QED BY <3>1, RulesLoaded
  <2>4. states' = states /\ work' = work /\ targets' = targets /\ probes' = probes /\ born' = born /\ clean' = clean
    BY <2>1 DEF engine, marks
  <2>5. Fire("system", "firing", l, FALSE)
    BY <2>1, <2>2
  <2> QED BY <2>3, <2>4, <2>5, SystemFires
<1> QED BY <1>1, <1>2

\* Work on a target that is about no edge, or brings the edge one step on.
LEMMA WorkKeeps ==
    ASSUME MonInv, NEW t \in Targets, NEW v, NEW L, v \in WorkRecs(L), work' = [work EXCEPT ![t] = v],
           states' = states, targets' = targets, probes' = probes, feed' = feed, born' = born,
           clean' \in [Targets -> BOOLEAN], \A u \in Targets : u # t => clean'[u] = clean[u], clean'[t] => clean[t],
           v.pc # "ping", v.pc = "fire" => DOMAIN v.loaded \subseteq RuleIds,
           clean'[t] \/ v.pc \in {"load", "fire"} =>
             \/ work[t].pc \notin {"load", "fire"} /\ v.pc \notin {"load", "fire"}
             \/ work[t].pc \in {"load", "fire"} /\ v.pc \in {"load", "fire"} /\ v.edge = work[t].edge
    PROVE  MonInv'
<1>0. MonType /\ \A u \in Targets : TargetOK(u)
  BY DEF MonInv
<1>1. WorkType'
  <2>1. PICK M : work \in [Targets -> WorkRecs(M)]
    BY <1>0 DEF MonType, WorkType
  <2>2. work' \in [Targets -> WorkRecs(M \union L)]
    BY <2>1 DEF WorkRecs
  <2> QED BY <2>2 DEF WorkType
<1>2. MonType'
  BY <1>0, <1>1 DEF MonType
<1>3. DOMAIN work = Targets
  BY <1>0 DEF MonType, WorkType
<1>4. ASSUME NEW u \in Targets PROVE TargetOK(u)'
  <2>1. TargetOK(u)
    BY <1>0
  <2>2. CASE u # t
    <3>1. work'[u] = work[u] /\ clean'[u] = clean[u]
      BY <1>3, <2>2
    <3> QED BY <2>1, <3>1, TargetSame
  <2>3. CASE u = t
    <3>1. work'[t] = v /\ TargetOK(t)
      BY <1>3, <2>1, <2>3
    <3>2. LifeMarked(t)' /\ EngineOrder(t)'
      BY <3>1 DEF TargetOK, LifeMarked, EngineOrder
    <3>3. ASSUME clean'[t]
          PROVE  Agree(states[t], v, Since(probes[t], born[t].row), Since(feed[t], born[t].event))
      <4>1. Agree(states[t], work[t], Since(probes[t], born[t].row), Since(feed[t], born[t].event))
        BY <3>1, <3>3 DEF TargetOK, LifeAgrees
      <4>2. PICK st, w, s, e : /\ st = states[t] /\ w = work[t] /\ s = Since(probes[t], born[t].row)
                               /\ e = Since(feed[t], born[t].event)
        OBVIOUS
      <4>3. \/ w.pc \notin {"load", "fire"} /\ v.pc \notin {"load", "fire"}
            \/ w.pc \in {"load", "fire"} /\ v.pc \in {"load", "fire"} /\ v.edge = w.edge
        BY <3>3, <4>2
      <4>4. Agree(st, v, s, e)
        BY <4>1, <4>2, <4>3, AgreeWork
      <4> QED BY <4>2, <4>4
    <3>4. LifeAgrees(t)'
      BY <3>1, <3>3 DEF LifeAgrees
    <3> QED BY <2>3, <3>2, <3>4 DEF TargetOK
  <2> QED BY <2>2, <2>3
<1> QED BY <1>2, <1>4 DEF MonInv

\* What is left to do once an edge was fired.
LEMMA AfterFireTyped ==
    ASSUME NEW t PROVE AfterFire(t) \in WorkRecs({<<>>}) /\ AfterFire(t).pc \in {"idle", "reconcile"}
<1>1. PICK p, q : p = [Idle EXCEPT !.pc = "reconcile"] /\ q = Idle
  OBVIOUS
<1>2. p \in WorkRecs({<<>>}) /\ p.pc = "reconcile" /\ q \in WorkRecs({<<>>}) /\ q.pc = "idle"
  BY <1>1, IdleTyped DEF WorkSteps
<1>3. AfterFire(t) = p \/ AfterFire(t) = q
  BY <1>1 DEF AfterFire
<1> QED BY <1>2, <1>3

\* The rules are read, or the read fails and the edge is dropped.
LEMMA OnEdgeKeeps == ASSUME MonInv, NEW t \in Targets, OnEdge(t) PROVE MonInv'
<1>0. MonType /\ TargetOK(t)
  BY DEF MonInv
<1>1. /\ work[t].pc = "load" /\ states' = states /\ targets' = targets /\ probes' = probes /\ feed' = feed /\ born' = born
  BY DEF OnEdge
<1>2. clean \in [Targets -> BOOLEAN] /\ work[t].edge \in Edges
  BY <1>0, <1>1 DEF MonType, TargetOK, EngineOrder
<1>3. PICK M : work \in [Targets -> WorkRecs(M)]
  BY <1>0 DEF MonType, WorkType
<1>4. CASE /\ work' = [work EXCEPT ![t].pc = "fire", ![t].loaded = LoadRules(RuleType(t, work[t].edge))]
           /\ UNCHANGED <<clean, monFaults>>
  <2>1. PICK l : l = LoadRules(RuleType(t, work[t].edge))
    OBVIOUS
  <2>2. DOMAIN l \subseteq RuleIds
    BY <2>1, RulesLoaded
  <2>3. PICK w : w = work[t]
    OBVIOUS
  <2>4. w \in WorkRecs(M) /\ w.pc = "load"
    BY <1>1, <1>3, <2>3
  <2>5. PICK v : v = [w EXCEPT !.pc = "fire", !.loaded = l]
    OBVIOUS
  <2>6. v \in WorkRecs({l}) /\ v.pc = "fire" /\ v.loaded = l /\ v.edge = w.edge
    BY <2>4, <2>5 DEF WorkRecs, WorkSteps
  <2>7. work' = [work EXCEPT ![t] = v]
    BY <1>3, <1>4, <2>1, <2>3, <2>5
  <2>8. \A u \in Targets : u # t => clean'[u] = clean[u]
    BY <1>4
  <2>9. clean' \in [Targets -> BOOLEAN] /\ (clean'[t] => clean[t])
    BY <1>2, <1>4
  <2>10. work[t].pc \in {"load", "fire"} /\ v.pc \in {"load", "fire"} /\ v.edge = work[t].edge /\ v.pc # "ping"
    BY <1>1, <2>3, <2>6
  <2> QED BY <1>1, <2>2, <2>6, <2>7, <2>8, <2>9, <2>10, WorkKeeps
<1>5. CASE Fault(t) /\ work' = [work EXCEPT ![t] = AfterFire(t)]
  <2>1. PICK v : v = AfterFire(t)
    OBVIOUS
  <2>2. v \in WorkRecs({<<>>}) /\ v.pc \in {"idle", "reconcile"}
    BY <2>1, AfterFireTyped
  <2>3. clean' = [clean EXCEPT ![t] = FALSE]
    BY <1>5 DEF Fault
  <2>4. clean' \in [Targets -> BOOLEAN] /\ ~clean'[t] /\ \A u \in Targets : u # t => clean'[u] = clean[u]
    BY <1>2, <2>3
  <2>5. v.pc # "ping" /\ v.pc \notin {"load", "fire"}
    BY <2>2
  <2>6. work' = [work EXCEPT ![t] = v]
    BY <1>5, <2>1
  <2> QED BY <1>1, <2>2, <2>4, <2>5, <2>6, WorkKeeps
<1> QED BY <1>4, <1>5 DEF OnEdge

\* The sessions of a router that is back are flagged.
LEMMA ReconcileKeeps ==
    ASSUME MonInv, NEW t \in Targets, NEW v \in WorkRecs({<<>>}), v.pc \in {"idle", "hget", "upsert"},
           work[t].pc \in {"reconcile", "hget", "upsert"}, work' = [work EXCEPT ![t] = v],
           states' = states, targets' = targets, probes' = probes, feed' = feed, born' = born, clean' = clean
    PROVE  MonInv'
<1>1. clean' \in [Targets -> BOOLEAN] /\ (clean'[t] => clean[t])
  BY DEF MonInv, MonType
<1>2. \A u \in Targets : u # t => clean'[u] = clean[u]
  OBVIOUS
<1>3. v.pc # "ping" /\ v.pc \notin {"load", "fire"} /\ work[t].pc \notin {"load", "fire"}
  OBVIOUS
<1> QED BY <1>1, <1>2, <1>3, WorkKeeps

\* The three steps of the recovery.
LEMMA RecoveryKeeps ==
    ASSUME MonInv, NEW n \in Nases, ReconcileMissingStops(n) \/ ReadLive(n) \/ UpsertLive(n) PROVE MonInv'
<1>1. n \in Targets
  BY DEF Targets
<1>2. PICK i, h, p : i = Idle /\ h = [Idle EXCEPT !.pc = "hget"] /\ p = [Idle EXCEPT !.pc = "upsert"]
  OBVIOUS
<1>3. /\ i \in WorkRecs({<<>>}) /\ h \in WorkRecs({<<>>}) /\ p \in WorkRecs({<<>>})
      /\ i.pc = "idle" /\ h.pc = "hget" /\ p.pc = "upsert"
  BY <1>2, IdleTyped DEF WorkSteps
<1>4. states' = states /\ targets' = targets /\ probes' = probes /\ feed' = feed /\ born' = born /\ clean' = clean
  BY DEF ReconcileMissingStops, ReadLive, UpsertLive, marks
<1>5. work[n].pc \in {"reconcile", "hget", "upsert"}
  BY DEF ReconcileMissingStops, ReadLive, UpsertLive
<1>6. PICK v : v \in {i, h, p} /\ work' = [work EXCEPT ![n] = v]
  <2>1. CASE ReconcileMissingStops(n)
    BY <1>2, <2>1 DEF ReconcileMissingStops
  <2>2. CASE ReadLive(n)
    BY <1>2, <2>2 DEF ReadLive
  <2>3. CASE UpsertLive(n)
    BY <1>2, <2>3 DEF UpsertLive
  <2> QED BY <2>1, <2>2, <2>3
<1>7. v \in WorkRecs({<<>>}) /\ v.pc \in {"idle", "hget", "upsert"}
  BY <1>3, <1>6
<1> QED BY <1>1, <1>4, <1>5, <1>6, <1>7, ReconcileKeeps

-----------------------------------------------------------------------------
\* The row of a probe is stored, or the memory is no longer clean.
LEMMA ProbeWritten ==
    ASSUME MonType, NEW t \in Targets, NEW x \in Samples, WriteProbe(t, x)
    PROVE  /\ probes' \in [Targets -> Seq(Samples)] /\ clean' \in [Targets -> BOOLEAN]
           /\ \A u \in Targets : u # t => probes'[u] = probes[u] /\ clean'[u] = clean[u]
           /\ \/ probes'[t] = Append(probes[t], x) /\ clean'[t] = clean[t]
              \/ probes'[t] = probes[t] /\ clean'[t] = FALSE
<1>1. probes \in [Targets -> Seq(Samples)] /\ clean \in [Targets -> BOOLEAN]
  BY DEF MonType
<1>2. CASE clean' = [clean EXCEPT ![t] = FALSE] /\ probes' = probes
  BY <1>1, <1>2
<1>3. CASE probes' = [probes EXCEPT ![t] = Append(@, x)] /\ clean' = clean
  <2>1. probes[t] \in Seq(Samples)
    BY <1>1
  <2>2. Append(probes[t], x) \in Seq(Samples)
    BY <2>1
  <2> QED BY <1>1, <1>3, <2>2
<1> QED BY <1>2, <1>3 DEF WriteProbe, Fault

\* A probe's row and the life it belongs to.
LEMMA SampleSince ==
    ASSUME MonType, NEW t \in Targets, LifeMarked(t), NEW x \in Samples, probes'[t] = Append(probes[t], x), born' = born
    PROVE  /\ Since(probes[t], born[t].row) \in Seq(Samples)
           /\ Since(probes'[t], born'[t].row) = Append(Since(probes[t], born[t].row), x)
           /\ Len(probes'[t]) = Len(probes[t]) + 1 /\ Len(probes[t]) \in Nat
<1>1. probes[t] \in Seq(Samples) /\ born[t] \in BornRecs
  BY DEF MonType
<1>2. PICK s \in Seq(Samples), b \in Nat : s = probes[t] /\ b = born[t].row
  BY <1>1 DEF BornRecs
<1>3. b <= Len(s)
  BY <1>2 DEF LifeMarked
<1>4. Since(s, b) \in Seq(Samples) /\ Since(Append(s, x), b) = Append(Since(s, b), x)
  BY <1>3, SinceTyped, SinceAppend
<1>5. Len(Append(s, x)) = Len(s) + 1 /\ Len(s) \in Nat
  OBVIOUS
<1> QED BY <1>2, <1>4, <1>5

\* A row more, or none, leaves the mark in the past.
LEMMA LifeMarkedOn ==
    ASSUME MonType, NEW t \in Targets, LifeMarked(t), NEW x \in Samples, born' = born, feed' = feed,
           probes'[t] = Append(probes[t], x) \/ probes'[t] = probes[t]
    PROVE  LifeMarked(t)'
<1>1. CASE probes'[t] = probes[t]
  BY <1>1 DEF LifeMarked
<1>2. CASE probes'[t] = Append(probes[t], x)
  <2>1. Len(probes'[t]) = Len(probes[t]) + 1 /\ Len(probes[t]) \in Nat
    BY <1>2, SampleSince
  <2>2. born[t] \in BornRecs
    BY DEF MonType
  <2>3. PICK b \in Nat, n \in Nat : b = born[t].row /\ n = Len(probes[t])
    BY <2>1, <2>2 DEF BornRecs
  <2>4. b <= n /\ Len(probes'[t]) = n + 1
    BY <2>1, <2>3 DEF LifeMarked
  <2>5. b <= n + 1
    BY <2>4
  <2> QED BY <2>3, <2>4, <2>5 DEF LifeMarked
<1> QED BY <1>1, <1>2

\* A reading over SNMP counts for nothing in the log.
LEMMA ProbeSNMPKeeps == ASSUME MonInv, NEW t \in Targets, ProbeSNMP(t) PROVE MonInv'
<1>0. MonType /\ \A u \in Targets : TargetOK(u)
  BY DEF MonInv
<1>1. /\ states' = states /\ work' = work /\ targets' = targets /\ feed' = feed /\ born' = born
  BY DEF ProbeSNMP, engine
<1>2. PICK x : x = [kind |-> "snmp", ok |-> TRUE]
  OBVIOUS
<1>3. x \in Samples /\ x.kind # "icmp"
  BY <1>2 DEF Samples
<1>4. WriteProbe(t, x)
  BY <1>2 DEF ProbeSNMP
<1>5. /\ probes' \in [Targets -> Seq(Samples)] /\ clean' \in [Targets -> BOOLEAN]
      /\ \A u \in Targets : u # t => probes'[u] = probes[u] /\ clean'[u] = clean[u]
      /\ \/ probes'[t] = Append(probes[t], x) /\ clean'[t] = clean[t]
         \/ probes'[t] = probes[t] /\ clean'[t] = FALSE
  BY <1>0, <1>3, <1>4, ProbeWritten
<1>6. MonType'
  BY <1>0, <1>1, <1>5 DEF MonType, WorkType
<1>7. TargetOK(t)'
  <2>1. LifeMarked(t) /\ EngineOrder(t)
    BY <1>0 DEF TargetOK
  <2>2. LifeMarked(t)'
    BY <1>0, <1>1, <1>3, <1>5, <2>1, LifeMarkedOn
  <2>3. EngineOrder(t)'
    BY <1>1, <2>1 DEF EngineOrder
  <2>4. LifeAgrees(t)'
    <3>1. ASSUME clean'[t] PROVE Agree(states[t], work[t], Since(probes'[t], born[t].row), Since(feed[t], born[t].event))
      <4>1. probes'[t] = Append(probes[t], x) /\ clean[t]
        BY <1>5, <3>1
      <4>2. Agree(states[t], work[t], Since(probes[t], born[t].row), Since(feed[t], born[t].event))
        BY <1>0, <4>1 DEF TargetOK, LifeAgrees
      <4>3. /\ Since(probes[t], born[t].row) \in Seq(Samples)
            /\ Since(probes'[t], born[t].row) = Append(Since(probes[t], born[t].row), x)
        BY <1>0, <1>1, <1>3, <2>1, <4>1, SampleSince
      <4>4. PICK st, w, s, e : /\ st = states[t] /\ w = work[t] /\ s = Since(probes[t], born[t].row)
                               /\ e = Since(feed[t], born[t].event)
        OBVIOUS
      <4>5. Agree(st, w, Append(s, x), e)
        BY <1>3, <4>2, <4>3, <4>4, AgreeOther
      <4> QED BY <4>3, <4>4, <4>5
    <3> QED BY <1>1, <3>1 DEF LifeAgrees
  <2> QED BY <2>2, <2>3, <2>4 DEF TargetOK
<1>8. ASSUME NEW u \in Targets, u # t PROVE TargetOK(u)'
  <2>1. TargetOK(u) /\ probes'[u] = probes[u] /\ clean'[u] = clean[u]
    BY <1>0, <1>5, <1>8
  <2> QED BY <1>1, <2>1, TargetSame
<1> QED BY <1>6, <1>7, <1>8 DEF MonInv

\* What a probe leaves to do.
EdgeWork(e) == IF e = "none" THEN Idle ELSE [Idle EXCEPT !.pc = "load", !.edge = e]

\* It is to rest, or to fire the edge.
LEMMA EdgeWorkTyped ==
    ASSUME NEW e \in Edges \union {"none"}
    PROVE  /\ EdgeWork(e) \in WorkRecs({<<>>})
           /\ e = "none" => EdgeWork(e).pc = "idle"
           /\ e # "none" => EdgeWork(e).pc = "load" /\ EdgeWork(e).edge = e
<1>1. CASE e = "none"
  BY <1>1, IdleTyped DEF EdgeWork
<1>2. CASE e # "none"
  BY <1>2 DEF EdgeWork, Idle, WorkRecs, WorkSteps
<1> QED BY <1>1, <1>2

\* A probe counts in memory and log alike, or its row is missing and says so.
LEMMA ProbeICMPKeeps == ASSUME MonInv, NEW t \in Targets, ProbeICMP(t) PROVE MonInv'
<1>0. MonType /\ \A u \in Targets : TargetOK(u)
  BY DEF MonInv
<1>1. PICK ok \in BOOLEAN :
        /\ work[t].pc = "ping" /\ WriteProbe(t, [kind |-> "icmp", ok |-> ok])
        /\ states' = [states EXCEPT ![t] = Observe(states[t], ok).to]
        /\ work' = [work EXCEPT ![t] = EdgeWork(Observe(states[t], ok).edge)]
        /\ targets' = targets /\ feed' = feed /\ born' = born
  BY DEF ProbeICMP, EdgeWork
<1>2. states \in [Targets -> StateRecs] /\ TargetOK(t) /\ t \in targets
  BY <1>0, <1>1 DEF MonType, TargetOK, EngineOrder
<1>3. PICK st \in StateRecs : st = states[t]
  BY <1>2
<1>4. PICK o : o = Observe(st, ok)
  OBVIOUS
<1>5. o.to \in StateRecs /\ o.edge \in Edges \union {"none"}
  BY <1>4, Observed
<1>6. PICK v : v = EdgeWork(o.edge)
  OBVIOUS
<1>7. /\ v \in WorkRecs({<<>>}) /\ (o.edge = "none" => v.pc = "idle")
      /\ o.edge # "none" => v.pc = "load" /\ v.edge = o.edge
  BY <1>5, <1>6, EdgeWorkTyped
<1>8. states' = [states EXCEPT ![t] = o.to] /\ work' = [work EXCEPT ![t] = v]
  BY <1>1, <1>3, <1>4, <1>6
<1>9. PICK x : x = [kind |-> "icmp", ok |-> ok]
  OBVIOUS
<1>10. x \in Samples /\ WriteProbe(t, x)
  BY <1>1, <1>9 DEF Samples
<1>11. /\ probes' \in [Targets -> Seq(Samples)] /\ clean' \in [Targets -> BOOLEAN]
       /\ \A u \in Targets : u # t => probes'[u] = probes[u] /\ clean'[u] = clean[u]
       /\ \/ probes'[t] = Append(probes[t], x) /\ clean'[t] = clean[t]
          \/ probes'[t] = probes[t] /\ clean'[t] = FALSE
  BY <1>0, <1>10, ProbeWritten
<1>12. PICK M : work \in [Targets -> WorkRecs(M)]
  BY <1>0 DEF MonType, WorkType
<1>13. MonType'
  <2>1. work' \in [Targets -> WorkRecs(M \union {<<>>})]
    BY <1>7, <1>8, <1>12 DEF WorkRecs
  <2>2. WorkType'
    BY <2>1 DEF WorkType
  <2>3. states' \in [Targets -> StateRecs]
    BY <1>2, <1>5, <1>8
  <2> QED BY <1>0, <1>1, <1>11, <2>2, <2>3 DEF MonType
<1>14. states'[t] = o.to /\ work'[t] = v
  BY <1>2, <1>8, <1>12
<1>15. TargetOK(t)'
  <2>1. LifeMarked(t) /\ EngineOrder(t)
    BY <1>0 DEF TargetOK
  <2>2. LifeMarked(t)'
    BY <1>0, <1>1, <1>10, <1>11, <2>1, LifeMarkedOn
  <2>3. EngineOrder(t)'
    <3>1. v.pc \in {"load", "idle"} /\ (v.pc \in {"load", "fire"} => v.edge \in Edges)
      BY <1>5, <1>7
    <3> QED BY <1>1, <1>2, <1>14, <3>1 DEF EngineOrder
  <2>4. LifeAgrees(t)'
    <3>1. ASSUME clean'[t] PROVE Agree(o.to, v, Since(probes'[t], born[t].row), Since(feed[t], born[t].event))
      <4>1. probes'[t] = Append(probes[t], x) /\ clean[t]
        BY <1>11, <3>1
      <4>2. Agree(states[t], work[t], Since(probes[t], born[t].row), Since(feed[t], born[t].event))
        BY <1>0, <4>1 DEF TargetOK, LifeAgrees
      <4>3. /\ Since(probes[t], born[t].row) \in Seq(Samples)
            /\ Since(probes'[t], born[t].row) = Append(Since(probes[t], born[t].row), x)
        BY <1>0, <1>1, <1>10, <2>1, <4>1, SampleSince
      <4>4. PICK w, s, e : /\ w = work[t] /\ s = Since(probes[t], born[t].row) /\ e = Since(feed[t], born[t].event)
        OBVIOUS
      <4>5. w.pc \notin {"load", "fire"} /\ s \in Seq(Samples) /\ Agree(st, w, s, e)
        BY <1>1, <1>3, <4>2, <4>3, <4>4
      <4>6. /\ o.edge = "none" => v.pc \notin {"load", "fire"}
            /\ o.edge # "none" => v.pc \in {"load", "fire"} /\ v.edge = o.edge
        BY <1>7
      <4>7. Agree(o.to, v, Append(s, x), e)
        BY <1>4, <1>9, <4>5, <4>6, AgreeSample
      <4> QED BY <4>3, <4>4, <4>7
    <3> QED BY <1>1, <1>14, <3>1 DEF LifeAgrees
  <2> QED BY <2>2, <2>3, <2>4 DEF TargetOK
<1>16. ASSUME NEW u \in Targets, u # t PROVE TargetOK(u)'
  <2>1. TargetOK(u) /\ probes'[u] = probes[u] /\ clean'[u] = clean[u]
    BY <1>0, <1>11, <1>16
  <2>2. states'[u] = states[u] /\ work'[u] = work[u]
    BY <1>2, <1>8, <1>12, <1>16
  <2> QED BY <1>1, <2>1, <2>2, TargetSame
<1> QED BY <1>13, <1>15, <1>16 DEF MonInv

\* The edge is fired.
LEMMA FireEdgeKeeps == ASSUME MonInv, NEW t \in Targets, FireEdge(t) PROVE MonInv'
<1>0. MonType /\ \A u \in Targets : TargetOK(u)
  BY DEF MonInv
<1>1. /\ work[t].pc = "fire" /\ Fire(t, work[t].edge, work[t].loaded, TRUE)
      /\ work' = [work EXCEPT ![t] = AfterFire(t)]
      /\ states' = states /\ targets' = targets /\ probes' = probes /\ born' = born /\ clean' = clean
  BY DEF FireEdge, marks
<1>2. PICK v : v = AfterFire(t)
  OBVIOUS
<1>3. v \in WorkRecs({<<>>}) /\ v.pc \in {"idle", "reconcile"}
  BY <1>2, AfterFireTyped
<1>4. PICK w, l : w = work[t] /\ l = work[t].loaded
  OBVIOUS
<1>5. w.edge \in Edges /\ w.pc = "fire" /\ DOMAIN l \subseteq RuleIds
  BY <1>0, <1>1, <1>4 DEF TargetOK, EngineOrder
<1>6. PICK k \in Nat \ {0} : k = RowsWritten(l, TRUE)
  BY <1>5, RowsCounted
<1>7. PICK y \in Edges : y = w.edge
  BY <1>5
<1>8. PICK r \in Seq(Edges) : r = Record(y, k)
  BY <1>6, RecordTyped
<1>9. feed' = [feed EXCEPT ![t] = @ \o r]
  BY <1>1, <1>4, <1>6, <1>7, <1>8 DEF Fire
<1>10. feed \in [Targets \union {"system"} -> Seq(Edges)] /\ born[t] \in BornRecs
  BY <1>0 DEF MonType
<1>11. PICK f \in Seq(Edges), b \in Nat : f = feed[t] /\ b = born[t].event
  BY <1>10 DEF BornRecs
<1>12. f \o r \in Seq(Edges) /\ Len(f \o r) = Len(f) + Len(r) /\ Len(f) \in Nat /\ Len(r) \in Nat
  BY ConcatProperties
<1>13. feed' \in [Targets \union {"system"} -> Seq(Edges)] /\ feed'[t] = f \o r
  BY <1>9, <1>10, <1>11, <1>12
<1>14. PICK M : work \in [Targets -> WorkRecs(M)]
  BY <1>0 DEF MonType, WorkType
<1>15. work' = [work EXCEPT ![t] = v] /\ work'[t] = v
  BY <1>1, <1>2, <1>14
<1>16. MonType'
  <2>1. work' \in [Targets -> WorkRecs(M \union {<<>>})]
    BY <1>3, <1>14, <1>15 DEF WorkRecs
  <2>2. WorkType'
    BY <2>1 DEF WorkType
  <2> QED BY <1>0, <1>1, <1>13, <2>2 DEF MonType
<1>17. b <= Len(f) /\ LifeMarked(t)
  BY <1>0, <1>11 DEF TargetOK, LifeMarked
<1>18. TargetOK(t)'
  <2>1. b <= Len(f \o r)
    BY <1>12, <1>17
  <2>2. LifeMarked(t)'
    BY <1>1, <1>11, <1>13, <1>17, <2>1 DEF LifeMarked
  <2>3. EngineOrder(t)'
    BY <1>0, <1>1, <1>3, <1>15 DEF TargetOK, EngineOrder
  <2>4. LifeAgrees(t)'
    <3>1. ASSUME clean[t] PROVE Agree(states[t], v, Since(probes[t], born[t].row), Since(f \o r, b))
      <4>1. Agree(states[t], w, Since(probes[t], born[t].row), Since(f, b))
        BY <1>0, <1>4, <1>11, <3>1 DEF TargetOK, LifeAgrees
      <4>2. Since(f, b) \in Seq(Edges) /\ Since(f \o r, b) = Since(f, b) \o r
        BY <1>17, SinceTyped, SinceConcat
      <4>3. PICK st, s, e : st = states[t] /\ s = Since(probes[t], born[t].row) /\ e = Since(f, b)
        OBVIOUS
      <4>4. v.pc \notin {"load", "fire"} /\ e \in Seq(Edges) /\ Agree(st, w, s, e)
        BY <1>3, <4>1, <4>2, <4>3
      <4>5. Agree(st, v, s, e \o Record(w.edge, k))
        BY <1>5, <4>4, AgreeFired
      <4> QED BY <1>7, <1>8, <4>2, <4>3, <4>5
    <3> QED BY <1>1, <1>11, <1>13, <1>15, <3>1 DEF LifeAgrees
  <2> QED BY <2>2, <2>3, <2>4 DEF TargetOK
<1>19. ASSUME NEW u \in Targets, u # t PROVE TargetOK(u)'
  <2>1. TargetOK(u) /\ work'[u] = work[u] /\ feed'[u] = feed[u]
    BY <1>0, <1>9, <1>10, <1>14, <1>15, <1>19
  <2> QED BY <1>1, <2>1, TargetSame
<1> QED BY <1>16, <1>18, <1>19 DEF MonInv

-----------------------------------------------------------------------------
\* The status page counts what the state machine counts.
LEMMA StatusAgrees ==
    ASSUME NEW st, NEW s, Streak(st, FoldOf("icmp", s))
    PROVE  st.status = "down" <=> StatusFromProbes(s) = "down"
<1>1. PICK ic : ic = SamplesICMP(s)
  OBVIOUS
<1>2. Streak(st, ic)
  BY <1>1, FoldNames
<1>3. PICK d \in Nat : d = DownThreshold /\ d > 0
  BY MonitorAssumption
<1>4. ic \in Seq(Samples) /\ st.miss \in Nat
  BY <1>2 DEF Streak, StateRecs
<1>5. PICK n \in Nat, k \in Nat : n = Len(ic) /\ k = st.miss
  BY <1>4
<1>6. /\ k <= n /\ k <= d /\ (\A i \in 1..n : i > n - k => ~ic[i].ok)
      /\ (k < d /\ k < n => ic[n - k].ok) /\ (st.status = "down" <=> k = d)
  BY <1>2, <1>3, <1>4, <1>5 DEF Streak
<1>7. PICK l : l = SubSeq(ic, IF n < d THEN 1 ELSE (n - d) + 1, n)
  OBVIOUS
<1>8. n >= d => Len(l) = d /\ DOMAIN l = 1..d /\ \A i \in 1..d : l[i] = ic[(n - d) + i]
  <2> SUFFICES ASSUME n >= d PROVE Len(l) = d /\ DOMAIN l = 1..d /\ \A i \in 1..d : l[i] = ic[(n - d) + i]
    OBVIOUS
  <2>1. PICK b \in Nat : b = n - d
    OBVIOUS
  <2>2. b + 1 \in 1..n /\ (n - b) = d /\ ~(n < d)
    BY <1>3, <2>1
  <2>3. l = SubSeq(ic, b + 1, n)
    BY <1>7, <2>1, <2>2
  <2>4. l \in Seq(Samples) /\ Len(l) = n - b /\ \A i \in 1..(n - b) : l[i] = ic[b + i]
    BY <1>4, <1>5, <2>2, <2>3
  <2> QED BY <2>1, <2>2, <2>4
<1>9. n > 0 => Last(ic) = ic[n]
  BY <1>5 DEF Last
<1>10. StatusFromProbes(s) =
         CASE ic = <<>> -> "unknown"
           [] ic # <<>> /\ Last(ic).ok -> "up"
           [] n >= d /\ (\A i \in DOMAIN l : ~l[i].ok) -> "down"
           [] OTHER -> "unknown"
  BY <1>1, <1>3, <1>5, <1>7 DEF StatusFromProbes
<1>11. CASE k = d
  <2>1. n >= d /\ n > 0 /\ ic # <<>> /\ n \in 1..n /\ n > n - k
    BY <1>3, <1>4, <1>5, <1>6, <1>11
  <2>2. ~Last(ic).ok
    BY <1>6, <1>9, <2>1
  <2>3. \A i \in 1..d : (n - d) + i \in 1..n /\ (n - d) + i > n - k
    BY <1>11, <2>1
  <2>4. \A i \in DOMAIN l : ~l[i].ok
    BY <1>6, <1>8, <2>1, <2>3
  <2>5. StatusFromProbes(s) = "down"
    BY <1>10, <2>1, <2>2, <2>4
  <2> QED BY <1>6, <1>11, <2>5
<1>12. CASE k # d
  <2>1. StatusFromProbes(s) # "down"
    <3>1. CASE ic = <<>>
      <4>1. ~(n >= d)
        BY <1>3, <1>5, <3>1
      <4> QED BY <1>10, <3>1, <4>1
    <3>2. CASE ic # <<>> /\ Last(ic).ok
      <4>1. n > 0
        BY <1>4, <1>5, <3>2
      <4>2. n >= d => d \in DOMAIN l /\ l[d] = ic[n]
        <5>1. d \in 1..d /\ (n - d) + d = n
          BY <1>3
        <5> QED BY <1>8, <5>1
      <4>3. ~(n >= d /\ \A i \in DOMAIN l : ~l[i].ok)
        BY <1>9, <3>2, <4>1, <4>2
      <4> QED BY <1>10, <3>2, <4>3
    <3>3. CASE ic # <<>> /\ ~Last(ic).ok
      <4>1. n >= d => \E i \in DOMAIN l : l[i].ok
        <5> SUFFICES ASSUME n >= d PROVE \E i \in DOMAIN l : l[i].ok
          OBVIOUS
        <5>1. k < d /\ k < n
          BY <1>6, <1>12
        <5>2. d - k \in 1..d /\ (n - d) + (d - k) = n - k
          BY <5>1
        <5>3. l[d - k] = ic[n - k] /\ d - k \in DOMAIN l
          BY <1>8, <5>2
        <5> QED BY <1>6, <5>1, <5>3
      <4>2. ~(n >= d /\ \A i \in DOMAIN l : ~l[i].ok)
        BY <4>1
      <4> QED BY <1>10, <3>3, <4>2
    <3> QED BY <3>1, <3>2, <3>3
  <2> QED BY <1>6, <1>12, <2>1
<1> QED BY <1>11, <1>12

\* Every step keeps the invariant.
LEMMA MonStep == ASSUME MonInv, [MonNext]_monVars PROVE MonInv'
<1>1. CASE UNCHANGED monVars
  <2>1. EngineSame
    BY <1>1 DEF monVars, engine, marks, EngineSame
  <2> QED BY <2>1, EngineUntouched
<1>2. CASE ReloadTargets \/ SweepICMP \/ MonRestart
  BY <1>2, ReloadKeeps, SweepKeeps, MonRestartKeeps
<1>3. CASE CooldownExpires \/ HourTurns
  <2>1. EngineSame
    BY <1>3 DEF CooldownExpires, HourTurns, engine, marks, EngineSame
  <2> QED BY <2>1, EngineUntouched
<1>4. CASE Digests \/ \E c \in Conds : Evaluate(c)
  BY <1>4, PolledKeeps
<1>5. ASSUME NEW t \in Targets, ProbeICMP(t) \/ ProbeSNMP(t) \/ OnEdge(t) \/ FireEdge(t) PROVE MonInv'
  BY <1>5, ProbeICMPKeeps, ProbeSNMPKeeps, OnEdgeKeeps, FireEdgeKeeps
<1>6. ASSUME NEW n \in Nases, ReconcileMissingStops(n) \/ ReadLive(n) \/ UpsertLive(n) PROVE MonInv'
  BY <1>6, RecoveryKeeps
<1>7. ASSUME NEW n \in Nases, ConsumerStop(n) PROVE MonInv'
  <2>1. EngineSame
    BY <1>7 DEF ConsumerStop, engine, marks, EngineSame
  <2> QED BY <2>1, EngineUntouched
<1>8. ASSUME NEW t \in Devices, CreateDevice(t) \/ UpdateDevice(t) \/ DeleteDevice(t) PROVE MonInv'
  <2>1. EngineSame
    BY <1>8 DEF CreateDevice, UpdateDevice, DeleteDevice, SetRegistry, engine, marks, EngineSame
  <2> QED BY <2>1, EngineUntouched
<1>9. ASSUME NEW r \in RuleIds, CreateAlertRule(r) \/ UpdateAlertRule(r) PROVE MonInv'
  <2>1. EngineSame
    BY <1>9 DEF CreateAlertRule, UpdateAlertRule, PutRule, engine, marks, EngineSame
  <2> QED BY <2>1, EngineUntouched
<1> QED BY <1>1, <1>2, <1>3, <1>4, <1>5, <1>6, <1>7, <1>8, <1>9 DEF MonNext

\* The invariant gives the property.
LEMMA MonSafe == MonInv => FeedMatchesLog
<1> SUFFICES ASSUME MonInv, NEW t \in Targets, clean[t]
             PROVE  /\ work[t].pc \notin {"load", "fire"} => Told(t) = DowntimeFromSeries(Sampled(t))
                    /\ states[t].status = "down" <=> StatusFromProbes(Sampled(t)) = "down"
  BY DEF FeedMatchesLog
<1>1. Agree(states[t], work[t], Since(probes[t], born[t].row), Since(feed[t], born[t].event))
  BY DEF MonInv, TargetOK, LifeAgrees
<1>2. PICK st, w, s, e : /\ st = states[t] /\ w = work[t] /\ s = Since(probes[t], born[t].row)
                         /\ e = Since(feed[t], born[t].event)
  OBVIOUS
<1>3. Sampled(t) = s /\ Told(t) = FoldOf("squash", e)
  BY <1>2, FoldNames DEF Sampled, Told, Since
<1>4. /\ Streak(st, FoldOf("icmp", s)) /\ w.pc \notin {"load", "fire"} => FoldOf("squash", e) = Logged(s).log
  BY <1>1, <1>2 DEF Agree, Announced
<1>5. Streak(st, FoldOf("icmp", s))
  BY <1>1, <1>2 DEF Agree
<1>6. st.status = "down" <=> StatusFromProbes(s) = "down"
  BY <1>5, StatusAgrees
<1>7. w.pc \notin {"load", "fire"} => FoldOf("squash", e) = DowntimeFromSeries(s)
  BY <1>4, <1>5, FoldNames
<1> QED BY <1>2, <1>3, <1>6, <1>7

(* FeedMatchesLog: while the engine remembers a target and no write of it    *)
(* failed, observe and Fire left in the alert feed exactly the transitions   *)
(* that downtimeFromSeries computes from the stored samples, and             *)
(* statusFromProbes says "down" exactly when the engine does; for any        *)
(* targets, rules, threshold and number of samples.                          *)
THEOREM FeedCorrect == MonSpec => []FeedMatchesLog
<1>1. MonInv /\ [MonNext]_monVars => MonInv'
  BY MonStep
<1> QED BY <1>1, MonInvInit, MonSafe, PTL DEF MonSpec

=============================================================================
