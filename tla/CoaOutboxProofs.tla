-------------------------- MODULE CoaOutboxProofs --------------------------
(***************************************************************************)
(* For any number of rows, any retry limit and any number of operator      *)
(* requests, crashes and outages: the retry budget of a row holds, a row   *)
(* that is done is never touched again and was acknowledged or its session *)
(* is over, an update falls back only after its refusals, and a cancelled  *)
(* row is not sent.                                                        *)
(*                                                                         *)
(* None is inductive alone.  resolveDone, resolveNack and               *)
(* applyNackDecision update a row by its id, without a condition on its    *)
(* state, so the proof has to carry where the row can be when they run:    *)
(* a row with a goroutine is sent, and a row with a pending decision is    *)
(* one the sweep listed or the operator has put back since.                *)
(***************************************************************************)
EXTENDS CoaOutbox, TLAPS

\* A row in flight is sent, and only while the tick dispatches.
Flying == \A r \in Rows : fly[r] # "none" => row[r].st = "sent" /\ phase = "run"

\* A decision waits only in the sweep, on a row that is not sent nor done;
\* a retry was decided for a row with budget left.
Decided ==
    \A r \in Rows : dec[r] # "none" =>
        /\ phase = "sweep"
        /\ row[r].st \in {"nack", "pending", "failed"}
        /\ dec[r] = "retry" => row[r].att < RetryMax

BudgetInv == TypeOK /\ BudgetHolds /\ Flying /\ Decided

USE OutboxAssumption

\* A fault leaves its kind in the history.
LEMMA FaultType ==
    ASSUME TypeOK, NEW k, Fault(k)
    PROVE  faults' \in Seq(FaultKinds)
<1>1. k \in FaultKinds /\ faults \in Seq(FaultKinds) /\ faults' = Append(faults, k)
  BY DEF Fault, TypeOK, FaultKinds
<1> QED
  BY <1>1

\* The initial rows satisfy the invariant.
LEMMA InitBudget == Init => BudgetInv
<1> SUFFICES ASSUME Init PROVE BudgetInv
  OBVIOUS
<1>1. Absent \in RowType
  BY DEF Absent, RowType, States, Outcomes
<1>2. TypeOK
  BY <1>1 DEF Init, TypeOK, Rows
<1>3. BudgetHolds
  BY DEF Init, BudgetHolds, Absent, Rows
<1>4. Flying /\ Decided
  BY DEF Init, Flying, Decided
<1> QED
  BY <1>2, <1>3, <1>4 DEF BudgetInv

\* A step that changes at most the row r, which it leaves well-typed and
\* within its budget, keeps the rows typed and the budget of every row.
LEMMA OneRow ==
    ASSUME TypeOK, BudgetHolds, NEW r \in Rows, NEW w,
           row' = [row EXCEPT ![r] = w],
           w \in RowType, w.att <= RetryMax,
           w.st \in {"pending", "sent"} => w.att < RetryMax
    PROVE  /\ row' \in [Rows -> RowType] /\ BudgetHolds'
           /\ row'[r] = w
           /\ \A q \in Rows : q # r => row'[q] = row[q]
<1>1. row \in [Rows -> RowType]
  BY DEF TypeOK
<1>2. row' \in [Rows -> RowType]
  BY <1>1
<1>3. row'[r] = w /\ \A q \in Rows : q # r => row'[q] = row[q]
  BY <1>1
<1>4. ASSUME NEW q \in Rows
      PROVE  /\ row'[q].att <= RetryMax
             /\ row'[q].st \in {"pending", "sent"} => row'[q].att < RetryMax
  <2>1. CASE q = r
    BY <2>1, <1>3
  <2>2. CASE q # r
    BY <2>2, <1>3 DEF BudgetHolds
  <2> QED
    BY <2>1, <2>2
<1> QED
  BY <1>2, <1>3, <1>4 DEF BudgetHolds

\* The fields of a row.
LEMMA RowFields ==
    ASSUME TypeOK, NEW r \in Rows
    PROVE  /\ row[r] \in RowType /\ row[r].att \in Nat
           /\ row[r].action \in {"update", "disconnect"}
           /\ row[r].op \in {"update", "disconnect"}
           /\ row[r].fb \in {"no", "yes"} /\ row[r].out \in Outcomes
           /\ row[r].st \in States /\ row[r].due \in {"no", "yes"}
BY DEF TypeOK, RowType

-----------------------------------------------------------------------------
\* A new row starts with its whole budget.
LEMMA EnqueueBudget ==
    ASSUME BudgetInv, NEW r \in Rows, NEW a \in Actions, Enqueue(r, a)
    PROVE  BudgetInv'
<1> DEFINE w == [Absent EXCEPT !.st = "pending", !.action = a, !.op = a]
<1>1. a \in {"update", "disconnect"}
  OBVIOUS
<1>2. w \in RowType /\ w.att = 0 /\ w.st = "pending"
  BY <1>1 DEF Absent, RowType, States, Outcomes
<1>3. row' = [row EXCEPT ![r] = w]
  BY DEF Enqueue
<1> HIDE DEF w
<1>4. TypeOK /\ BudgetHolds
  BY DEF BudgetInv
<1>20. w.att <= RetryMax /\ w.att < RetryMax
  BY <1>2
<1>5. /\ row' \in [Rows -> RowType] /\ BudgetHolds'
      /\ row'[r] = w
      /\ \A q \in Rows : q # r => row'[q] = row[q]
  BY <1>2, <1>3, <1>4, <1>20, OneRow
<1>6. TypeOK'
  BY <1>4, <1>5 DEF Enqueue, TypeOK
<1>7. fly[r] = "none" /\ dec[r] = "none"
  BY DEF BudgetInv, Flying, Decided, Enqueue
<1>8. Flying' /\ Decided'
  BY <1>5, <1>7 DEF Enqueue, Flying, Decided, BudgetInv
<1> QED
  BY <1>5, <1>6, <1>8 DEF BudgetInv

\* The operator's retry gives the row a new budget, whether or not the sweep
\* has already decided about it.
LEMMA RetryBudget ==
    ASSUME BudgetInv, NEW r \in Rows, RetryRow(r)
    PROVE  BudgetInv'
<1> DEFINE w == [Absent EXCEPT !.st = "pending", !.action = row[r].action,
                               !.op = row[r].action]
<1>1. TypeOK /\ BudgetHolds
  BY DEF BudgetInv
<1>2. row[r].action \in {"update", "disconnect"}
  BY <1>1, RowFields
<1>3. w \in RowType /\ w.att = 0 /\ w.st = "pending"
  BY <1>2 DEF Absent, RowType, States, Outcomes
<1>4. row' = [row EXCEPT ![r] = w]
  BY DEF RetryRow
<1> HIDE DEF w
<1>20. w.att <= RetryMax /\ w.att < RetryMax
  BY <1>3
<1>5. /\ row' \in [Rows -> RowType] /\ BudgetHolds'
      /\ row'[r] = w
      /\ \A q \in Rows : q # r => row'[q] = row[q]
  BY <1>1, <1>3, <1>4, <1>20, OneRow
<1>6. tries' \in [Rows -> Nat]
  BY <1>1 DEF RetryRow, TypeOK
<1>7. TypeOK'
  BY <1>1, <1>5, <1>6 DEF RetryRow, TypeOK
<1>8. fly[r] = "none"
  BY DEF BudgetInv, Flying, RetryRow
<1>9. Flying'
  BY <1>5, <1>8 DEF RetryRow, Flying, BudgetInv
<1>10. Decided'
  BY <1>3, <1>5 DEF RetryRow, Decided, BudgetInv
<1> QED
  BY <1>5, <1>7, <1>9, <1>10 DEF BudgetInv

\* A cancelled row keeps the count it had.
LEMMA CancelBudget ==
    ASSUME BudgetInv, NEW r \in Rows, CancelRow(r)
    PROVE  BudgetInv'
<1> DEFINE w == [row[r] EXCEPT !.st = "failed", !.out = "cancelled"]
<1>1. TypeOK /\ BudgetHolds
  BY DEF BudgetInv
<1>2. w \in RowType /\ w.att = row[r].att /\ w.st = "failed"
  BY <1>1, RowFields DEF RowType, States, Outcomes
<1>3. w.att <= RetryMax
  BY <1>1, <1>2 DEF BudgetHolds
<1>4. row' = [row EXCEPT ![r] = w]
  BY <1>1 DEF CancelRow, TypeOK
<1> HIDE DEF w
<1>5. /\ row' \in [Rows -> RowType] /\ BudgetHolds'
      /\ row'[r] = w
      /\ \A q \in Rows : q # r => row'[q] = row[q]
  BY <1>1, <1>2, <1>3, <1>4, OneRow
<1>6. TypeOK'
  BY <1>1, <1>5 DEF CancelRow, TypeOK
<1>7. fly[r] = "none"
  BY DEF BudgetInv, Flying, CancelRow
<1>8. Flying'
  BY <1>5, <1>7 DEF CancelRow, Flying, BudgetInv
<1>9. Decided'
  BY <1>2, <1>5 DEF CancelRow, Decided, BudgetInv
<1> QED
  BY <1>5, <1>6, <1>8, <1>9 DEF BudgetInv

-----------------------------------------------------------------------------
\* Reclaiming moves sent rows to pending; both have budget left.
LEMMA ReclaimBudget ==
    ASSUME BudgetInv, Reclaim
    PROVE  BudgetInv'
<1> DEFINE stuck(r) == row[r].st = "sent" /\ row[r].due = "yes"
<1>1. TypeOK /\ BudgetHolds /\ Flying /\ Decided /\ phase = "idle"
  BY DEF BudgetInv, Reclaim
<1>2. ASSUME NEW r \in Rows
      PROVE  /\ row'[r] \in RowType /\ row'[r].att = row[r].att
             /\ row'[r].st = IF stuck(r) THEN "pending" ELSE row[r].st
  <2>1. row'[r] = IF stuck(r) THEN [row[r] EXCEPT !.st = "pending"] ELSE row[r]
    BY DEF Reclaim
  <2> QED
    BY <2>1, <1>1, RowFields DEF RowType, States
<1>3. row' \in [Rows -> RowType]
  BY <1>2 DEF Reclaim
<1>4. TypeOK'
  BY <1>1, <1>3 DEF Reclaim, TypeOK
<1>5. BudgetHolds'
  BY <1>1, <1>2 DEF BudgetHolds
<1>6. \A r \in Rows : fly'[r] = "none" /\ dec'[r] = "none"
  BY <1>1 DEF Reclaim, Flying, Decided
<1> QED
  BY <1>4, <1>5, <1>6 DEF BudgetInv, Flying, Decided

\* What claiming makes of the rows.
LEMMA ClaimedRows ==
    ASSUME TypeOK, BudgetHolds
    PROVE  /\ Claimed \in [Rows -> RowType]
           /\ \A r \in Rows : /\ Claimed[r].att = row[r].att
                              /\ r \in Due => row[r].st = "pending" /\ Claimed[r].st = "sent"
                              /\ r \notin Due => Claimed[r] = row[r]
<1>1. ASSUME NEW r \in Rows
      PROVE  /\ Claimed[r] \in RowType /\ Claimed[r].att = row[r].att
             /\ r \in Due => row[r].st = "pending" /\ Claimed[r].st = "sent"
             /\ r \notin Due => Claimed[r] = row[r]
  <2>1. Claimed[r] = IF r \in Due THEN [row[r] EXCEPT !.st = "sent", !.due = "no"] ELSE row[r]
    BY DEF Claimed
  <2>2. r \in Due => row[r].st = "pending"
    BY DEF Due, In
  <2> QED
    BY <2>1, <2>2, RowFields DEF RowType, States
<1> QED
  BY <1>1 DEF Claimed

\* Claiming moves due pending rows to sent and gives them a goroutine.
LEMMA ClaimBudget ==
    ASSUME BudgetInv, Claim
    PROVE  BudgetInv'
<1>1. TypeOK /\ BudgetHolds /\ Flying /\ Decided /\ phase = "claim" /\ phase' = "run"
  BY DEF BudgetInv, Claim
<1>2. ASSUME NEW r \in Rows
      PROVE  /\ row'[r].att = row[r].att
             /\ r \in Due => row[r].st = "pending" /\ row'[r].st = "sent"
             /\ r \notin Due => row'[r] = row[r] /\ fly'[r] = fly[r]
  <2>1. row' = Claimed /\ fly'[r] = IF r \in Due THEN "check" ELSE fly[r]
    BY DEF Claim
  <2>2. /\ Claimed[r].att = row[r].att
        /\ r \in Due => row[r].st = "pending" /\ Claimed[r].st = "sent"
        /\ r \notin Due => Claimed[r] = row[r]
    BY <1>1, ClaimedRows
  <2> QED
    BY <2>1, <2>2
<1>3. row' \in [Rows -> RowType]
  BY <1>1, ClaimedRows DEF Claim
<1>4. fly' \in [Rows -> {"none", "check", "send", "ack", "nak"}]
  BY <1>1 DEF Claim, TypeOK
<1>5. TypeOK'
  BY <1>1, <1>3, <1>4 DEF Claim, TypeOK
<1>6. BudgetHolds'
  BY <1>1, <1>2 DEF BudgetHolds
<1>7. \A r \in Rows : fly[r] = "none" /\ dec'[r] = "none"
  BY <1>1 DEF Claim, Flying, Decided
<1>8. Flying'
  BY <1>1, <1>2, <1>7 DEF Flying
<1> QED
  BY <1>5, <1>6, <1>7, <1>8 DEF BudgetInv, Decided

\* A row whose time has come is otherwise unchanged.
LEMMA DueBudget ==
    ASSUME BudgetInv, NEW r \in Rows, BecomesDue(r)
    PROVE  BudgetInv'
<1> DEFINE w == [row[r] EXCEPT !.due = "yes"]
<1>1. TypeOK /\ BudgetHolds
  BY DEF BudgetInv
<1>2. w \in RowType /\ w.att = row[r].att /\ w.st = row[r].st
  BY <1>1, RowFields DEF RowType
<1>3. w.att <= RetryMax /\ (w.st \in {"pending", "sent"} => w.att < RetryMax)
  BY <1>1, <1>2 DEF BudgetHolds
<1>4. row' = [row EXCEPT ![r] = w]
  BY <1>1 DEF BecomesDue, TypeOK
<1> HIDE DEF w
<1>5. /\ row' \in [Rows -> RowType] /\ BudgetHolds'
      /\ row'[r] = w
      /\ \A q \in Rows : q # r => row'[q] = row[q]
  BY <1>1, <1>2, <1>3, <1>4, OneRow
<1>6. TypeOK'
  BY <1>1, <1>5 DEF BecomesDue, TypeOK
<1>7. Flying'
  BY <1>2, <1>5 DEF BecomesDue, Flying, BudgetInv
<1>8. Decided'
  BY <1>2, <1>5 DEF BecomesDue, Decided, BudgetInv
<1> QED
  BY <1>5, <1>6, <1>7, <1>8 DEF BudgetInv

\* The live check leaves the count alone.
LEMMA CheckBudget ==
    ASSUME BudgetInv, NEW r \in Rows, CheckLive(r)
    PROVE  BudgetInv'
<1>1. TypeOK /\ BudgetHolds /\ Flying /\ Decided
  BY DEF BudgetInv
<1>2. row[r].st = "sent" /\ phase = "run" /\ phase' = "run" /\ dec' = dec
  BY <1>1 DEF Flying, CheckLive
<1>3. \A q \in Rows : dec'[q] = "none"
  BY <1>1, <1>2 DEF Decided
<1>4. CASE row' = row
  <2>1. fly' = [fly EXCEPT ![r] = "send"] \/ fly' = [fly EXCEPT ![r] = "none"]
    BY DEF CheckLive
  <2>2. TypeOK' /\ BudgetHolds'
    BY <1>1, <1>4, <2>1 DEF CheckLive, TypeOK, BudgetHolds
  <2>3. Flying'
    BY <1>1, <1>2, <1>4, <2>1 DEF Flying, TypeOK
  <2> QED
    BY <2>2, <2>3, <1>3 DEF BudgetInv, Decided
<1>5. CASE row' # row
  <2> DEFINE w == [row[r] EXCEPT !.st = "done", !.out = "reaped"]
  <2>1. w \in RowType /\ w.att = row[r].att /\ w.st = "done"
    BY <1>1, RowFields DEF RowType, States, Outcomes
  <2>2. w.att <= RetryMax
    BY <1>1, <2>1 DEF BudgetHolds
  <2>3. row' = [row EXCEPT ![r] = w] /\ fly' = [fly EXCEPT ![r] = "none"]
    BY <1>1, <1>5 DEF CheckLive, TypeOK
  <2> HIDE DEF w
  <2>4. /\ row' \in [Rows -> RowType] /\ BudgetHolds'
        /\ row'[r] = w
        /\ \A q \in Rows : q # r => row'[q] = row[q]
    BY <1>1, <2>1, <2>2, <2>3, OneRow
  <2>5. TypeOK'
    BY <1>1, <2>3, <2>4 DEF CheckLive, TypeOK
  <2>6. Flying'
    BY <1>1, <1>2, <2>3, <2>4 DEF Flying, TypeOK
  <2> QED
    BY <2>4, <2>5, <2>6, <1>3 DEF BudgetInv, Decided
<1> QED
  BY <1>4, <1>5

\* The exchange with the NAS writes no row.
LEMMA SendBudget ==
    ASSUME BudgetInv, NEW r \in Rows, SendAck(r) \/ SendNak(r)
    PROVE  BudgetInv'
<1>1. TypeOK /\ BudgetHolds /\ Flying /\ Decided
  BY DEF BudgetInv
<1>2. /\ row' = row /\ phase' = phase /\ dec' = dec
      /\ fly[r] = "send"
      /\ (fly' = [fly EXCEPT ![r] = "ack"] \/ fly' = [fly EXCEPT ![r] = "nak"])
  BY DEF SendAck, SendNak
<1>3. r \in 0..NRows
  BY DEF Rows
<1>4. policy' \in 0..NRows /\ session' \in {"live", "gone"}
  BY <1>1, <1>3 DEF SendAck, SendNak, TypeOK
<1>5. fly' \in [Rows -> {"none", "check", "send", "ack", "nak"}]
  BY <1>1, <1>2 DEF TypeOK
<1>6. TypeOK'
  BY <1>1, <1>2, <1>4, <1>5 DEF SendAck, SendNak, TypeOK
<1>7. Flying'
  BY <1>1, <1>2 DEF Flying, TypeOK
<1>8. BudgetHolds' /\ Decided'
  BY <1>1, <1>2 DEF BudgetHolds, Decided
<1> QED
  BY <1>6, <1>7, <1>8 DEF BudgetInv

\* The attempt is counted: the row was sent, so it had budget left.
LEMMA ResolveBudget ==
    ASSUME BudgetInv, NEW r \in Rows, Resolve(r)
    PROVE  BudgetInv'
<1> DEFINE w == [row[r] EXCEPT !.st = IF fly[r] = "ack" THEN "done" ELSE "nack",
                               !.out = fly[r], !.att = row[r].att + 1]
<1>1. TypeOK /\ BudgetHolds /\ Flying /\ Decided
  BY DEF BudgetInv
<1>2. row[r].st = "sent" /\ phase = "run" /\ phase' = "run" /\ dec' = dec
  BY <1>1 DEF Flying, Resolve
<1>3. row[r].att \in Nat /\ row[r].att < RetryMax
  BY <1>1, <1>2, RowFields DEF BudgetHolds
<1>4. fly[r] \in {"ack", "nak"}
  BY DEF Resolve
<1>5. w \in RowType /\ w.att = row[r].att + 1 /\ w.st \in {"done", "nack"}
  <2> DEFINE s == IF fly[r] = "ack" THEN "done" ELSE "nack"
             n == row[r].att + 1
  <2>1. s \in {"done", "nack"} /\ n \in Nat /\ fly[r] \in Outcomes
    BY <1>3, <1>4 DEF Outcomes
  <2> HIDE DEF s, n
  <2>2. LET v == [row[r] EXCEPT !.st = s, !.out = fly[r], !.att = n]
        IN  v \in RowType /\ v.att = n /\ v.st = s
    BY <1>1, <2>1, RowFields DEF RowType, States
  <2> QED
    BY <2>1, <2>2 DEF s, n
<1>6. row' = [row EXCEPT ![r] = w]
  BY <1>1 DEF Resolve, TypeOK
<1> HIDE DEF w
<1>7. w.att <= RetryMax /\ (w.st \in {"pending", "sent"} => w.att < RetryMax)
  BY <1>3, <1>5
<1>8. /\ row' \in [Rows -> RowType] /\ BudgetHolds'
      /\ row'[r] = w
      /\ \A q \in Rows : q # r => row'[q] = row[q]
  BY <1>1, <1>5, <1>6, <1>7, OneRow
<1>9. fly' \in [Rows -> {"none", "check", "send", "ack", "nak"}]
  BY <1>1 DEF Resolve, TypeOK
<1>10. tries' \in [Rows -> Nat]
  BY <1>1 DEF Resolve, TypeOK
<1>11. TypeOK'
  BY <1>1, <1>8, <1>9, <1>10 DEF Resolve, TypeOK
<1>12. Flying'
  BY <1>1, <1>2, <1>8 DEF Resolve, Flying, TypeOK
<1>13. Decided'
  BY <1>1, <1>2 DEF Decided
<1> QED
  BY <1>8, <1>11, <1>12, <1>13 DEF BudgetInv

-----------------------------------------------------------------------------
\* The sweep decides to retry only a row that has budget left.
LEMMA ListBudget ==
    ASSUME BudgetInv, SweepList
    PROVE  BudgetInv'
<1>1. TypeOK /\ BudgetHolds /\ Flying /\ Decided
  BY DEF BudgetInv
<1>2. ASSUME NEW r \in Rows
      PROVE  /\ dec'[r] \in {"none", "retry", "fallback", "fail"}
             /\ dec'[r] # "none" => row[r].st = "nack"
             /\ dec'[r] = "retry" => row[r].att < RetryMax
  BY DEF SweepList, DecideNack
<1>3. dec' \in [Rows -> {"none", "retry", "fallback", "fail"}]
  BY <1>2 DEF SweepList
<1>4. TypeOK'
  BY <1>1, <1>3 DEF SweepList, TypeOK
<1>5. BudgetHolds'
  BY <1>1 DEF SweepList, BudgetHolds
<1>6. Flying' /\ Decided'
  BY <1>2 DEF SweepList, Flying, Decided
<1> QED
  BY <1>4, <1>5, <1>6 DEF BudgetInv

\* A decision applied, even to a row that has changed since it was listed.
LEMMA ApplyBudget ==
    ASSUME BudgetInv, NEW r \in Rows, SweepApply(r)
    PROVE  BudgetInv' /\ row[r].st # "done"
<1> DEFINE w == IF dec[r] = "retry" THEN [row[r] EXCEPT !.st = "pending", !.due = "no"]
                ELSE IF dec[r] = "fallback"
                THEN [row[r] EXCEPT !.st = "pending", !.op = "disconnect", !.att = 0,
                                    !.fb = "yes", !.due = "yes"]
                ELSE [row[r] EXCEPT !.st = "failed"]
<1>1. TypeOK /\ BudgetHolds /\ Flying /\ Decided
  BY DEF BudgetInv
<1>2. /\ row[r].st \in {"nack", "pending", "failed"}
      /\ phase = "sweep" /\ phase' = "sweep"
      /\ dec[r] = "retry" => row[r].att < RetryMax
  BY <1>1 DEF SweepApply, Decided
<1>3. row[r].att \in Nat /\ row[r].att <= RetryMax
  BY <1>1, RowFields DEF BudgetHolds
<1>4. w \in RowType
  BY <1>1, RowFields DEF RowType, States, Outcomes
<1>5. /\ w.st \in {"pending", "failed"}
      /\ w.att = row[r].att \/ w.att = 0
      /\ w.st = "pending" => w.att < RetryMax
  BY <1>1, <1>2, <1>3, RowFields DEF RowType
<1>6. row' = [row EXCEPT ![r] = w]
  BY <1>1 DEF SweepApply, TypeOK
<1> HIDE DEF w
<1>20. w.att <= RetryMax /\ (w.st \in {"pending", "sent"} => w.att < RetryMax)
  BY <1>3, <1>5
<1>7. /\ row' \in [Rows -> RowType] /\ BudgetHolds'
      /\ row'[r] = w
      /\ \A q \in Rows : q # r => row'[q] = row[q]
  BY <1>1, <1>4, <1>6, <1>20, OneRow
<1>8. /\ dec' \in [Rows -> {"none", "retry", "fallback", "fail"}]
      /\ dec'[r] = "none" /\ \A q \in Rows : q # r => dec'[q] = dec[q]
  BY <1>1 DEF SweepApply, TypeOK
<1>9. TypeOK'
  BY <1>1, <1>7, <1>8 DEF SweepApply, TypeOK
<1>10. Flying'
  BY <1>1, <1>2 DEF SweepApply, Flying
<1>11. Decided'
  BY <1>1, <1>2, <1>7, <1>8 DEF Decided
<1> QED
  BY <1>2, <1>7, <1>9, <1>10, <1>11 DEF BudgetInv

\* The other steps write no row.
LEMMA OtherBudget ==
    ASSUME BudgetInv,
           \/ TickEnds \/ TickDies \/ SessionEnds \/ RedisDown \/ RedisBack
           \/ UNCHANGED ovars
    PROVE  BudgetInv' /\ row' = row
<1>1. TypeOK /\ BudgetHolds /\ Flying /\ Decided
  BY DEF BudgetInv
<1>2. CASE TickEnds
  <2>1. TypeOK' /\ BudgetHolds' /\ row' = row
    BY <1>1, <1>2 DEF TickEnds, TypeOK, BudgetHolds
  <2>2. Flying' /\ Decided'
    BY <1>1, <1>2 DEF TickEnds, Flying, Decided
  <2> QED
    BY <2>1, <2>2 DEF BudgetInv
<1>3. CASE TickDies
  <2>1. TypeOK' /\ BudgetHolds' /\ row' = row
    BY <1>1, <1>3, FaultType DEF TickDies, TypeOK, BudgetHolds
  <2>2. Flying' /\ Decided'
    BY <1>1, <1>3 DEF TickDies, Flying, Decided
  <2> QED
    BY <2>1, <2>2 DEF BudgetInv
<1>4. CASE SessionEnds \/ RedisDown \/ RedisBack \/ UNCHANGED ovars
  <2>1. row' = row /\ fly' = fly /\ dec' = dec /\ phase' = phase
    BY <1>4 DEF SessionEnds, RedisDown, RedisBack, ovars
  <2>2. TypeOK'
    BY <1>1, <1>4, FaultType DEF SessionEnds, RedisDown, RedisBack, ovars, TypeOK
  <2> QED
    BY <1>1, <2>1, <2>2 DEF BudgetInv, BudgetHolds, Flying, Decided
<1> QED
  BY <1>2, <1>3, <1>4

\* A statement that fails leaves its row where it was or, at worst, sent
\* without a goroutine.
LEMMA FailsBudget ==
    ASSUME BudgetInv, DbFails
    PROVE  BudgetInv' /\ \A r \in Rows : row[r].st = "done" => row'[r] = row[r]
<1>1. TypeOK /\ BudgetHolds /\ Flying /\ Decided
  BY DEF BudgetInv
<1>2. CASE ReclaimFails
  <2>1. TypeOK' /\ BudgetHolds' /\ row' = row
    BY <1>1, <1>2, FaultType DEF ReclaimFails, TypeOK, BudgetHolds
  <2>2. Flying' /\ Decided'
    BY <1>1, <1>2 DEF ReclaimFails, Flying, Decided
  <2> QED
    BY <2>1, <2>2 DEF BudgetInv
<1>3. CASE ClaimFails
  <2>1. row' = row \/ row' = Claimed
    BY <1>3 DEF ClaimFails
  <2>2. /\ row' \in [Rows -> RowType]
        /\ \A r \in Rows : /\ row'[r].att = row[r].att
                           /\ row'[r] = row[r] \/ (row[r].st = "pending" /\ row'[r].st = "sent")
    <3>1. CASE row' = row
      BY <1>1, <3>1 DEF TypeOK
    <3>2. CASE row' = Claimed
      <4>1. /\ Claimed \in [Rows -> RowType]
            /\ \A r \in Rows : /\ Claimed[r].att = row[r].att
                               /\ r \in Due => row[r].st = "pending" /\ Claimed[r].st = "sent"
                               /\ r \notin Due => Claimed[r] = row[r]
        BY <1>1, ClaimedRows
      <4> QED
        BY <3>2, <4>1
    <3> QED
      BY <2>1, <3>1, <3>2
  <2>3. TypeOK'
    BY <1>1, <1>3, <2>2, FaultType DEF ClaimFails, TypeOK
  <2>4. BudgetHolds'
    BY <1>1, <2>2 DEF BudgetHolds
  <2>5. \A r \in Rows : fly'[r] = "none" /\ dec'[r] = "none"
    BY <1>1, <1>3 DEF ClaimFails, Flying, Decided
  <2> QED
    BY <2>2, <2>3, <2>4, <2>5 DEF BudgetInv, Flying, Decided
<1>4. ASSUME NEW r \in Rows, ResolveFails(r)
      PROVE  BudgetInv' /\ row' = row
  <2>1. row' = row /\ phase' = phase /\ dec' = dec /\ fly' = [fly EXCEPT ![r] = "none"]
    BY <1>4 DEF ResolveFails
  <2>2. TypeOK'
    BY <1>1, <1>4, <2>1, FaultType DEF ResolveFails, TypeOK
  <2>3. BudgetHolds' /\ Flying' /\ Decided'
    BY <1>1, <2>1 DEF BudgetHolds, Flying, Decided, TypeOK
  <2> QED
    BY <2>1, <2>2, <2>3 DEF BudgetInv
<1>5. ASSUME NEW r \in Rows, SweepFails(r)
      PROVE  BudgetInv' /\ row' = row
  <2>1. row' = row /\ phase' = phase /\ fly' = fly /\ dec' = [dec EXCEPT ![r] = "none"]
    BY <1>5 DEF SweepFails
  <2>2. TypeOK'
    BY <1>1, <1>5, <2>1, FaultType DEF SweepFails, TypeOK
  <2>3. BudgetHolds' /\ Flying' /\ Decided'
    BY <1>1, <2>1 DEF BudgetHolds, Flying, Decided, TypeOK
  <2> QED
    BY <2>1, <2>2, <2>3 DEF BudgetInv
<1> QED
  BY <1>2, <1>3, <1>4, <1>5 DEF DbFails

\* Every step keeps the invariant.
LEMMA NextBudget == BudgetInv /\ [Next]_ovars => BudgetInv'
<1> SUFFICES ASSUME BudgetInv, [Next]_ovars PROVE BudgetInv'
  OBVIOUS
<1>1. CASE Request
  BY <1>1, EnqueueBudget, RetryBudget, CancelBudget DEF Request
<1>2. CASE Reclaim \/ Claim
  BY <1>2, ReclaimBudget, ClaimBudget
<1>3. CASE Dispatch
  BY <1>3, CheckBudget, SendBudget, ResolveBudget DEF Dispatch
<1>4. CASE SweepList \/ \E r \in Rows : SweepApply(r)
  BY <1>4, ListBudget, ApplyBudget
<1>5. CASE \E r \in Rows : BecomesDue(r)
  BY <1>5, DueBudget
<1>6. CASE \/ TickEnds \/ TickDies \/ SessionEnds \/ RedisDown \/ RedisBack
           \/ UNCHANGED ovars
  BY <1>6, OtherBudget
<1>7. CASE DbFails
  BY <1>7, FailsBudget
<1> QED
  BY <1>1, <1>2, <1>3, <1>4, <1>5, <1>6, <1>7 DEF Next, Sweep

\* The retry budget of every row holds, whatever operators, crashes and NAS
\* refusals do, for any number of rows and any retry limit.
THEOREM BudgetCorrect == Spec => [](TypeOK /\ BudgetHolds)
<1>1. BudgetInv => TypeOK /\ BudgetHolds
  BY DEF BudgetInv
<1> QED
  BY <1>1, InitBudget, NextBudget, PTL DEF Spec

-----------------------------------------------------------------------------
\* No step writes a row that is done.
LEMMA DoneStep ==
    ASSUME BudgetInv, [Next]_ovars, NEW r \in Rows, row[r].st = "done"
    PROVE  row'[r] = row[r]
<1>1. TypeOK /\ Flying /\ Decided /\ row \in [Rows -> RowType]
  BY DEF BudgetInv, TypeOK
<1>2. ASSUME NEW q \in Rows, NEW w, q # r, row' = [row EXCEPT ![q] = w]
      PROVE  row'[r] = row[r]
  BY <1>1, <1>2
<1>3. CASE Request
  <2>1. PICK q \in Rows : (\E a \in Actions : Enqueue(q, a)) \/ RetryRow(q) \/ CancelRow(q)
    BY <1>3 DEF Request
  <2>2. q # r /\ \E w : row' = [row EXCEPT ![q] = w]
    BY <2>1, <1>1 DEF Enqueue, RetryRow, CancelRow
  <2> QED
    BY <2>2, <1>2
<1>4. CASE Reclaim
  BY <1>4 DEF Reclaim
<1>5. CASE Claim
  BY <1>5 DEF Claim, Claimed, Due, In
<1>6. CASE Dispatch
  <2>1. PICK q \in Rows : CheckLive(q) \/ SendAck(q) \/ SendNak(q) \/ Resolve(q)
    BY <1>6 DEF Dispatch
  <2>2. row[q].st = "sent"
    BY <2>1, <1>1 DEF CheckLive, SendAck, SendNak, Resolve, Flying
  <2>3. CASE row' = row
    BY <2>3
  <2>4. CASE row' # row
    <3>1. \E w : row' = [row EXCEPT ![q] = w]
      BY <2>1, <2>4 DEF CheckLive, SendAck, SendNak, Resolve
    <3> QED
      BY <3>1, <2>2, <1>2
  <2> QED
    BY <2>3, <2>4
<1>7. CASE SweepList
  BY <1>7 DEF SweepList
<1>8. CASE \E q \in Rows : SweepApply(q)
  <2>1. PICK q \in Rows : SweepApply(q)
    BY <1>8
  <2>2. row[q].st # "done"
    BY <2>1, ApplyBudget
  <2>3. \E w : row' = [row EXCEPT ![q] = w]
    BY <2>1 DEF SweepApply
  <2> QED
    BY <2>2, <2>3, <1>2
<1>9. CASE \E q \in Rows : BecomesDue(q)
  <2>1. PICK q \in Rows : BecomesDue(q)
    BY <1>9
  <2>2. q # r /\ \E w : row' = [row EXCEPT ![q] = w]
    BY <2>1 DEF BecomesDue
  <2> QED
    BY <2>2, <1>2
<1>10. CASE \/ TickEnds \/ TickDies \/ SessionEnds \/ RedisDown \/ RedisBack
            \/ UNCHANGED ovars
  BY <1>10, OtherBudget
<1>11. CASE DbFails
  BY <1>11, FailsBudget
<1> QED
  BY <1>3, <1>4, <1>5, <1>6, <1>7, <1>8, <1>9, <1>10, <1>11 DEF Next, Sweep

\* A row that is done is never sent, retried or failed again, although the
\* updates of the dispatcher have no condition on the state of the row.
THEOREM DoneStays == Spec => DoneFinal
<1>1. BudgetInv /\ [Next]_ovars =>
        [\A r \in Rows : row[r].st = "done" => row'[r] = row[r]]_ovars
  BY DoneStep
<1> QED
  BY <1>1, InitBudget, NextBudget, PTL DEF Spec, DoneFinal

-----------------------------------------------------------------------------
(* What a step does to one row.  The three remaining invariants are about  *)
(* one row each, so they are proved from this list of effects instead of   *)
(* from the actions.                                                       *)

\* What the row asks for and has used up is as it was.
Demand(r) ==
    /\ row'[r].action = row[r].action /\ row'[r].op = row[r].op
    /\ row'[r].att = row[r].att /\ row'[r].fb = row[r].fb

\* The row is left alone, or its time comes; a decision may be dropped.
Untouched(r) ==
    /\ Demand(r) /\ row'[r].st = row[r].st /\ row'[r].out = row[r].out
    /\ tries'[r] = tries[r] /\ dec'[r] \in {dec[r], "none"}

\* The sweep decides about the row from what it reads.
Listed(r) ==
    /\ row'[r] = row[r] /\ tries'[r] = tries[r]
    /\ dec'[r] = IF row[r].st = "nack" THEN DecideNack(row[r]) ELSE "none"

\* A new row.
Queued(r) ==
    /\ row[r].st = "absent" /\ dec'[r] = dec[r]
    /\ row'[r].st = "pending" /\ row'[r].op = row'[r].action
    /\ row'[r].att = 0 /\ row'[r].out = "none" /\ tries'[r] = tries[r]

\* The operator's retry and cancel.
Retried(r) ==
    /\ ops' = ops + 1
    /\ row'[r].st = "pending" /\ row'[r].out = "none"

Withdrawn(r) ==
    /\ ops' = ops + 1 /\ row[r].st = "pending" /\ dec'[r] = dec[r]
    /\ row'[r].st = "failed"

\* Claimed or reclaimed.
Moved(r) ==
    /\ Demand(r) /\ row'[r].out = row[r].out /\ tries'[r] = tries[r]
    /\ <<row[r].st, row'[r].st>> \in {<<"pending", "sent">>, <<"sent", "pending">>}
    /\ dec'[r] = "none"

\* Resolved without being sent.
Reaped(r) ==
    /\ row[r].st = "sent" /\ dec'[r] = "none" /\ tries'[r] = tries[r]
    /\ Demand(r) /\ row'[r].st = "done" /\ row'[r].out = "reaped"
    /\ redis = "down" \/ session = "gone"

\* Resolved by the answer of the NAS.
Answered(r) ==
    /\ row[r].st = "sent" /\ dec'[r] = "none"
    /\ row'[r].action = row[r].action /\ row'[r].op = row[r].op
    /\ row'[r].fb = row[r].fb /\ row'[r].att = row[r].att + 1
    /\ \/ row'[r].st = "done" /\ row'[r].out = "ack" /\ tries'[r] = tries[r]
       \/ /\ row'[r].st = "nack" /\ row'[r].out = "nak"
          /\ tries'[r] = IF row[r].op = "update" THEN tries[r] + 1 ELSE tries[r]

\* The decision of the sweep is written.
Applied(r) ==
    /\ dec[r] # "none" /\ dec'[r] = "none" /\ tries'[r] = tries[r]
    /\ row'[r].out = row[r].out /\ row'[r].action = row[r].action
    /\ \/ dec[r] = "fallback" /\ row'[r].op = "disconnect" /\ row'[r].fb = "yes"
          /\ row'[r].att = 0 /\ row'[r].st = "pending"
       \/ dec[r] # "fallback" /\ Demand(r) /\ row'[r].st \in {"pending", "failed"}

RowStep(r) ==
    \/ ops' = ops /\ (Listed(r) \/ Queued(r) \/ Moved(r) \/ Reaped(r) \/ Answered(r) \/ Applied(r))
    \/ ops' \in {ops, ops + 1} /\ Untouched(r)
    \/ Retried(r) \/ Withdrawn(r)

\* A step that writes another row leaves this one untouched.
LEMMA OtherRow ==
    ASSUME TypeOK, NEW r \in Rows, NEW q \in Rows, NEW w, q # r,
           row' = [row EXCEPT ![q] = w], tries'[r] = tries[r],
           dec'[r] = dec[r], ops' \in {ops, ops + 1}
    PROVE  RowStep(r)
<1>1. row'[r] = row[r]
  BY DEF TypeOK
<1> QED
  BY <1>1 DEF RowStep, Untouched, Demand

\* The requests of writers and operators.
LEMMA RequestRows ==
    ASSUME BudgetInv, Request, NEW r \in Rows
    PROVE  RowStep(r)
<1>1. TypeOK /\ row \in [Rows -> RowType] /\ tries \in [Rows -> Nat]
  BY DEF BudgetInv, TypeOK
<1>2. ASSUME NEW q \in Rows, NEW a \in Actions, Enqueue(q, a)
      PROVE  RowStep(r)
  <2> DEFINE w == [Absent EXCEPT !.st = "pending", !.action = a, !.op = a]
  <2>1. w.st = "pending" /\ w.op = w.action /\ w.att = 0 /\ w.out = "none"
    BY DEF Absent
  <2>2. /\ row' = [row EXCEPT ![q] = w] /\ row[q].st = "absent"
        /\ tries' = tries /\ dec' = dec /\ ops' = ops
    BY <1>2 DEF Enqueue
  <2> HIDE DEF w
  <2>3. CASE q = r
    BY <1>1, <2>1, <2>2, <2>3 DEF RowStep, Queued
  <2>4. CASE q # r
    BY <1>1, <2>2, <2>4, OtherRow
  <2> QED
    BY <2>3, <2>4
<1>3. ASSUME NEW q \in Rows, RetryRow(q)
      PROVE  RowStep(r)
  <2> DEFINE w == [Absent EXCEPT !.st = "pending", !.action = row[q].action,
                                 !.op = row[q].action]
  <2>1. w.st = "pending" /\ w.out = "none"
    BY DEF Absent
  <2>2. /\ row' = [row EXCEPT ![q] = w] /\ tries' = [tries EXCEPT ![q] = 0]
        /\ dec' = dec /\ ops' = ops + 1
    BY <1>3 DEF RetryRow
  <2> HIDE DEF w
  <2>3. CASE q = r
    BY <1>1, <2>1, <2>2, <2>3 DEF RowStep, Retried
  <2>4. CASE q # r
    <3>1. tries'[r] = tries[r]
      BY <1>1, <2>2, <2>4
    <3> QED
      BY <1>1, <2>2, <2>4, <3>1, OtherRow
  <2> QED
    BY <2>3, <2>4
<1>4. ASSUME NEW q \in Rows, CancelRow(q)
      PROVE  RowStep(r)
  <2> DEFINE w == [row[q] EXCEPT !.st = "failed", !.out = "cancelled"]
  <2>1. w.st = "failed"
    BY <1>1 DEF RowType
  <2>2. /\ row' = [row EXCEPT ![q] = w] /\ tries' = tries
        /\ dec' = dec /\ ops' = ops + 1 /\ row[q].st = "pending"
    BY <1>1, <1>4 DEF CancelRow
  <2> HIDE DEF w
  <2>3. CASE q = r
    BY <1>1, <2>1, <2>2, <2>3 DEF RowStep, Withdrawn
  <2>4. CASE q # r
    BY <1>1, <2>2, <2>4, OtherRow
  <2> QED
    BY <2>3, <2>4
<1> QED
  BY <1>2, <1>3, <1>4 DEF Request

\* Reclaiming, claiming and the passing of time, failed statements included.
LEMMA ClaimRows ==
    ASSUME BudgetInv, NEW r \in Rows,
           Reclaim \/ Claim \/ ClaimFails \/ \E q \in Rows : BecomesDue(q)
    PROVE  RowStep(r)
<1>1. TypeOK /\ row \in [Rows -> RowType] /\ BudgetHolds /\ Flying /\ Decided
  BY DEF BudgetInv, TypeOK
<1>2. row[r] \in RowType
  BY <1>1
<1>3. CASE Reclaim
  <2>1. row'[r] = IF row[r].st = "sent" /\ row[r].due = "yes"
                  THEN [row[r] EXCEPT !.st = "pending"] ELSE row[r]
    BY <1>3 DEF Reclaim
  <2>2. dec[r] = "none" /\ dec' = dec /\ tries' = tries /\ ops' = ops
    BY <1>1, <1>3 DEF Reclaim, Decided
  <2>3. CASE row'[r] = row[r]
    BY <2>2, <2>3 DEF RowStep, Untouched, Demand
  <2>4. CASE row'[r] # row[r]
    <3>1. row[r].st = "sent" /\ row'[r] = [row[r] EXCEPT !.st = "pending"]
      BY <2>1, <2>4
    <3>2. Demand(r) /\ row'[r].out = row[r].out /\ row'[r].st = "pending"
      BY <1>2, <3>1 DEF Demand, RowType
    <3> QED
      BY <2>2, <3>1, <3>2 DEF RowStep, Moved
  <2> QED
    BY <2>3, <2>4
<1>4. CASE Claim \/ ClaimFails
  <2>1. row'[r] = row[r] \/ row'[r] = Claimed[r]
    BY <1>4 DEF Claim, ClaimFails
  <2>2. dec[r] = "none" /\ dec' = dec /\ tries' = tries /\ ops' = ops
    BY <1>1, <1>4 DEF Claim, ClaimFails, Decided
  <2>3. CASE row'[r] = row[r]
    BY <2>2, <2>3 DEF RowStep, Untouched, Demand
  <2>4. CASE row'[r] # row[r]
    <3>1. row[r].st = "pending" /\ row'[r] = [row[r] EXCEPT !.st = "sent", !.due = "no"]
      BY <2>1, <2>4 DEF Claimed, Due, In
    <3>2. Demand(r) /\ row'[r].out = row[r].out /\ row'[r].st = "sent"
      BY <1>2, <3>1 DEF Demand, RowType
    <3> QED
      BY <2>2, <3>1, <3>2 DEF RowStep, Moved
  <2> QED
    BY <2>3, <2>4
<1>5. ASSUME NEW q \in Rows, BecomesDue(q)
      PROVE  RowStep(r)
  <2>1. /\ row' = [row EXCEPT ![q] = [row[q] EXCEPT !.due = "yes"]]
        /\ tries' = tries /\ dec' = dec /\ ops' = ops
    BY <1>1, <1>5 DEF BecomesDue
  <2>2. CASE q = r
    <3>1. row'[r] = [row[r] EXCEPT !.due = "yes"]
      BY <1>1, <2>1, <2>2
    <3>2. Demand(r) /\ row'[r].out = row[r].out /\ row'[r].st = row[r].st
      BY <1>2, <3>1 DEF Demand, RowType
    <3> QED
      BY <2>1, <3>2 DEF RowStep, Untouched
  <2>3. CASE q # r
    BY <1>1, <2>1, <2>3, OtherRow
  <2> QED
    BY <2>2, <2>3
<1> QED
  BY <1>3, <1>4, <1>5

\* The goroutines.
LEMMA DispatchRows ==
    ASSUME BudgetInv, Dispatch, NEW r \in Rows
    PROVE  RowStep(r)
<1>1. /\ TypeOK /\ row \in [Rows -> RowType] /\ Flying /\ Decided
      /\ tries \in [Rows -> Nat]
  BY DEF BudgetInv, TypeOK
<1>2. ASSUME NEW q \in Rows, CheckLive(q)
      PROVE  RowStep(r)
  <2> DEFINE w == [row[q] EXCEPT !.st = "done", !.out = "reaped"]
  <2>1. dec' = dec /\ tries' = tries /\ ops' = ops /\ row[q].st = "sent"
    BY <1>1, <1>2 DEF CheckLive, Flying
  <2>2. CASE row' = row
    BY <2>1, <2>2 DEF RowStep, Untouched, Demand
  <2>3. CASE row' # row
    <3>1. row' = [row EXCEPT ![q] = w] /\ (redis = "down" \/ session = "gone")
      BY <1>1, <1>2, <2>3 DEF CheckLive, TypeOK
    <3>2. /\ w.st = "done" /\ w.out = "reaped" /\ w.action = row[q].action
          /\ w.op = row[q].op /\ w.att = row[q].att /\ w.fb = row[q].fb
      BY <1>1 DEF RowType
    <3> HIDE DEF w
    <3>3. CASE q = r
      <4>1. dec[r] = "none"
        BY <1>1, <2>1, <3>3 DEF Decided
      <4> QED
        BY <1>1, <2>1, <3>1, <3>2, <3>3, <4>1 DEF RowStep, Reaped, Demand
    <3>4. CASE q # r
      BY <1>1, <2>1, <3>1, <3>4, OtherRow
    <3> QED
      BY <3>3, <3>4
  <2> QED
    BY <2>2, <2>3
<1>3. ASSUME NEW q \in Rows, SendAck(q) \/ SendNak(q)
      PROVE  RowStep(r)
  BY <1>3 DEF SendAck, SendNak, RowStep, Untouched, Demand
<1>4. ASSUME NEW q \in Rows, Resolve(q)
      PROVE  RowStep(r)
  <2> DEFINE s == IF fly[q] = "ack" THEN "done" ELSE "nack"
             n == row[q].att + 1
             w == [row[q] EXCEPT !.st = s, !.out = fly[q], !.att = n]
             t == IF fly[q] = "nak" /\ row[q].op = "update"
                  THEN tries[q] + 1 ELSE tries[q]
  <2>1. /\ dec' = dec /\ ops' = ops /\ row[q].st = "sent"
        /\ fly[q] \in {"ack", "nak"}
    BY <1>1, <1>4 DEF Resolve, Flying
  <2>2. row' = [row EXCEPT ![q] = w]
    BY <1>1, <1>4 DEF Resolve
  <2>3. tries' = [tries EXCEPT ![q] = t]
    BY <1>1, <1>4 DEF Resolve
  <2>4. /\ w.st = s /\ w.out = fly[q] /\ w.att = n /\ w.action = row[q].action
        /\ w.op = row[q].op /\ w.fb = row[q].fb
    <3> HIDE DEF s, n
    <3> QED
      BY <1>1 DEF RowType
  <2> HIDE DEF w
  <2>5. CASE q = r
    <3>1. dec[r] = "none"
      BY <1>1, <2>1, <2>5 DEF Decided
    <3>2. row'[r] = w /\ tries'[r] = t
      BY <1>1, <2>2, <2>3, <2>5
    <3>3. \/ w.st = "done" /\ w.out = "ack" /\ t = tries[r]
          \/ /\ w.st = "nack" /\ w.out = "nak"
             /\ t = IF row[r].op = "update" THEN tries[r] + 1 ELSE tries[r]
      BY <2>1, <2>4, <2>5
    <3> HIDE DEF s, t
    <3> QED
      BY <2>1, <2>4, <2>5, <3>1, <3>2, <3>3 DEF RowStep, Answered
  <2>6. CASE q # r
    <3>1. tries'[r] = tries[r]
      BY <1>1, <2>3, <2>6
    <3> QED
      BY <1>1, <2>1, <2>2, <2>6, <3>1, OtherRow
  <2> QED
    BY <2>5, <2>6
<1> QED
  BY <1>2, <1>3, <1>4 DEF Dispatch

\* The sweep.
LEMMA SweepRows ==
    ASSUME BudgetInv, NEW r \in Rows, SweepList \/ \E q \in Rows : SweepApply(q)
    PROVE  RowStep(r)
<1>1. /\ TypeOK /\ row \in [Rows -> RowType]
      /\ dec \in [Rows -> {"none", "retry", "fallback", "fail"}]
  BY DEF BudgetInv, TypeOK
<1>2. CASE SweepList
  BY <1>2 DEF SweepList, RowStep, Listed
<1>3. ASSUME NEW q \in Rows, SweepApply(q)
      PROVE  RowStep(r)
  <2>1. /\ dec[q] # "none" /\ dec' = [dec EXCEPT ![q] = "none"]
        /\ tries' = tries /\ ops' = ops
    BY <1>3 DEF SweepApply
  <2>2. PICK w : /\ row' = [row EXCEPT ![q] = w]
                 /\ \/ dec[q] = "retry" /\ w = [row[q] EXCEPT !.st = "pending", !.due = "no"]
                    \/ /\ dec[q] = "fallback"
                       /\ w = [row[q] EXCEPT !.st = "pending", !.op = "disconnect",
                                             !.att = 0, !.fb = "yes", !.due = "yes"]
                    \/ dec[q] = "fail" /\ w = [row[q] EXCEPT !.st = "failed"]
    <3>1. row' = [row EXCEPT ![q] =
                 IF dec[q] = "retry" THEN [row[q] EXCEPT !.st = "pending", !.due = "no"]
                 ELSE IF dec[q] = "fallback"
                 THEN [row[q] EXCEPT !.st = "pending", !.op = "disconnect", !.att = 0,
                                     !.fb = "yes", !.due = "yes"]
                 ELSE [row[q] EXCEPT !.st = "failed"]]
      BY <1>1, <1>3 DEF SweepApply
    <3>2. dec[q] \in {"retry", "fallback", "fail"}
      BY <1>1, <2>1
    <3> QED
      BY <3>1, <3>2
  <2>3. CASE q = r
    <3>1. row'[r] = w /\ dec'[r] = "none"
      BY <1>1, <2>1, <2>2, <2>3
    <3>2. row[r] \in RowType
      BY <1>1
    <3>3. CASE dec[r] = "retry"
      <4>1. w = [row[r] EXCEPT !.st = "pending", !.due = "no"]
        BY <2>2, <2>3, <3>3
      <4>2. Demand(r) /\ w.st = "pending" /\ w.out = row[r].out
        BY <3>1, <3>2, <4>1 DEF Demand, RowType
      <4> QED
        BY <2>1, <3>1, <3>3, <4>2 DEF RowStep, Applied, Demand
    <3>4. CASE dec[r] = "fallback"
      <4>1. w = [row[r] EXCEPT !.st = "pending", !.op = "disconnect",
                               !.att = 0, !.fb = "yes", !.due = "yes"]
        BY <2>2, <2>3, <3>4
      <4>2. /\ w.st = "pending" /\ w.op = "disconnect" /\ w.att = 0 /\ w.fb = "yes"
            /\ w.out = row[r].out /\ w.action = row[r].action
        BY <3>2, <4>1 DEF RowType
      <4> QED
        BY <2>1, <3>1, <3>4, <4>2 DEF RowStep, Applied
    <3>5. CASE dec[r] = "fail"
      <4>1. w = [row[r] EXCEPT !.st = "failed"]
        BY <2>2, <2>3, <3>5
      <4>2. Demand(r) /\ w.st = "failed" /\ w.out = row[r].out
        BY <3>1, <3>2, <4>1 DEF Demand, RowType
      <4> QED
        BY <2>1, <3>1, <3>5, <4>2 DEF RowStep, Applied, Demand
    <3> QED
      BY <1>1, <2>1, <2>3, <3>3, <3>4, <3>5
  <2>4. CASE q # r
    <3>1. dec'[r] = dec[r]
      BY <1>1, <2>1, <2>4
    <3> QED
      BY <1>1, <2>1, <2>2, <2>4, <3>1, OtherRow
  <2> QED
    BY <2>3, <2>4
<1> QED
  BY <1>2, <1>3

\* Every step has one of these effects on every row.
LEMMA EveryRow ==
    ASSUME BudgetInv, [Next]_ovars, NEW r \in Rows
    PROVE  RowStep(r)
<1>1. dec \in [Rows -> {"none", "retry", "fallback", "fail"}]
  BY DEF BudgetInv, TypeOK
<1>2. CASE Request
  BY <1>2, RequestRows
<1>3. CASE Reclaim \/ Claim \/ ClaimFails \/ \E q \in Rows : BecomesDue(q)
  BY <1>3, ClaimRows
<1>4. CASE Dispatch
  BY <1>4, DispatchRows
<1>5. CASE SweepList \/ \E q \in Rows : SweepApply(q)
  BY <1>5, SweepRows
<1>6. CASE \/ TickEnds \/ TickDies \/ SessionEnds \/ RedisDown \/ RedisBack
           \/ ReclaimFails \/ (\E q \in Rows : ResolveFails(q) \/ SweepFails(q))
           \/ UNCHANGED ovars
  <2>1. row' = row /\ tries' = tries /\ ops' = ops
    BY <1>6 DEF TickEnds, TickDies, SessionEnds, RedisDown, RedisBack, ReclaimFails,
                ResolveFails, SweepFails, ovars
  <2>2. dec'[r] \in {dec[r], "none"}
    BY <1>1, <1>6 DEF TickEnds, TickDies, SessionEnds, RedisDown, RedisBack, ReclaimFails,
                      ResolveFails, SweepFails, ovars
  <2> QED
    BY <2>1, <2>2 DEF RowStep, Untouched, Demand
<1> QED
  BY <1>2, <1>3, <1>4, <1>5, <1>6 DEF Next, Sweep, DbFails

-----------------------------------------------------------------------------
\* Before any operator request a decision waits only on a row still in nack,
\* and the refusals of an update are all counted against it.
Earned(r) ==
    ops = 0 =>
        /\ row[r].action = "update" /\ row[r].op = "disconnect" =>
               row[r].fb = "yes" /\ tries[r] >= RetryMax
        /\ row[r].op = "update" /\ row[r].st # "done" => tries[r] >= row[r].att
        /\ dec[r] # "none" => row[r].st = "nack"
        /\ dec[r] = "fallback" => row[r].op = "update" /\ row[r].att >= RetryMax

\* A cancel is the only request there was, and it found no decision waiting.
Settled(r) ==
    /\ ops = 0 => row[r].out # "cancelled"
    /\ ops <= 1 => (row[r].out = "cancelled" => row[r].st = "failed" /\ dec[r] = "none")

RowsInv == \A r \in Rows : Earned(r) /\ Settled(r)

\* The part of a row's types that its effects need.
LEMMA RowTypes ==
    ASSUME BudgetInv, NEW r \in Rows
    PROVE  /\ row[r].att \in Nat /\ tries[r] \in Nat /\ ops \in Nat
           /\ row[r].op \in {"update", "disconnect"}
           /\ row[r].st \in States
           /\ dec[r] # "none" => row[r].st \in {"nack", "pending", "failed"}
<1>1. TypeOK /\ Decided
  BY DEF BudgetInv
<1>2. tries[r] \in Nat /\ ops \in Nat
  BY <1>1 DEF TypeOK
<1> QED
  BY <1>1, <1>2, RowFields DEF Decided

\* A step keeps what is known of a row.
LEMMA RowKeeps ==
    ASSUME BudgetInv, BudgetInv', NEW r \in Rows, Earned(r), Settled(r), RowStep(r)
    PROVE  Earned(r)' /\ Settled(r)'
<1>1. /\ row[r].att \in Nat /\ tries[r] \in Nat /\ ops \in Nat /\ ops' \in Nat
      /\ row[r].op \in {"update", "disconnect"}
      /\ dec[r] # "none" => row[r].st \in {"nack", "pending", "failed"}
  <2>1. ops' \in Nat
    BY DEF BudgetInv, TypeOK
  <2> QED
    BY <2>1, RowTypes
<1>2. CASE ops' = ops /\ Listed(r)
  BY <1>1, <1>2 DEF Listed, DecideNack, Earned, Settled
<1>3. CASE ops' = ops /\ Queued(r)
  BY <1>1, <1>3 DEF Queued, Earned, Settled
<1>4. CASE ops' = ops /\ Moved(r)
  <2>1. row[r].st \in {"pending", "sent"} /\ row'[r].st \in {"pending", "sent"}
    BY <1>4 DEF Moved
  <2> QED
    BY <1>1, <1>4, <2>1 DEF Moved, Demand, Earned, Settled
<1>5. CASE ops' = ops /\ Reaped(r)
  BY <1>1, <1>5 DEF Reaped, Demand, Earned, Settled
<1>6. CASE ops' = ops /\ Answered(r)
  BY <1>1, <1>6 DEF Answered, Earned, Settled
<1>7. CASE ops' = ops /\ Applied(r)
  BY <1>1, <1>7 DEF Applied, Demand, Earned, Settled
<1>8. CASE ops' \in {ops, ops + 1} /\ Untouched(r)
  BY <1>1, <1>8 DEF Untouched, Demand, Earned, Settled
<1>9. CASE Retried(r)
  BY <1>1, <1>9 DEF Retried, Earned, Settled
<1>10. CASE Withdrawn(r)
  BY <1>1, <1>10 DEF Withdrawn, Earned, Settled
<1> QED
  BY <1>2, <1>3, <1>4, <1>5, <1>6, <1>7, <1>8, <1>9, <1>10 DEF RowStep

\* Both facts hold of every row at all times.
LEMMA RowsKept == Spec => [](BudgetInv /\ RowsInv)
<1>1. Init => BudgetInv /\ RowsInv
  <2> SUFFICES ASSUME Init PROVE RowsInv
    BY InitBudget
  <2>1. ASSUME NEW r \in Rows
        PROVE  Earned(r) /\ Settled(r)
    BY DEF Init, Absent, Earned, Settled
  <2> QED
    BY <2>1 DEF RowsInv
<1>2. BudgetInv /\ RowsInv /\ [Next]_ovars => BudgetInv' /\ RowsInv'
  <2> SUFFICES ASSUME BudgetInv, RowsInv, [Next]_ovars PROVE BudgetInv' /\ RowsInv'
    OBVIOUS
  <2>1. BudgetInv'
    BY NextBudget
  <2>2. ASSUME NEW r \in Rows
        PROVE  Earned(r)' /\ Settled(r)'
    BY <2>1, RowKeeps, EveryRow DEF RowsInv
  <2> QED
    BY <2>1, <2>2 DEF RowsInv
<1> QED
  BY <1>1, <1>2, PTL DEF Spec

\* FR-151: an update becomes a Disconnect only after the NAS has refused it
\* coa_retry_max times, whatever crashes and lost statements do in between.
THEOREM FallbackCorrect == Spec => []FallbackEarned
<1>1. RowsInv => FallbackEarned
  BY DEF RowsInv, Earned, FallbackEarned
<1> QED
  BY <1>1, RowsKept, PTL

\* A row the operator has cancelled is not sent, wherever the tick stands when
\* the cancel arrives: a decision of the sweep that is still to be written
\* cannot be about a row that was pending.
THEOREM CancelCorrect == Spec => []CancelHolds
<1>1. BudgetInv /\ RowsInv => CancelHolds
  BY DEF RowsInv, Settled, CancelHolds, BudgetInv, Flying
<1> QED
  BY <1>1, RowsKept, PTL

-----------------------------------------------------------------------------
\* Redis is up until it has failed, and done is honest until then.
HonestInv == DoneHonest /\ (redis = "down" => Happened("redis"))

\* The history of faults only grows.
LEMMA HistoryGrows ==
    ASSUME TypeOK, NEW k, faults' = Append(faults, k)
    PROVE  /\ Happened("redis") => Happened("redis")'
           /\ k = "redis" => Happened("redis")'
<1>1. faults \in Seq(FaultKinds)
  BY DEF TypeOK
<1>2. /\ Len(faults) \in Nat /\ Len(faults') = Len(faults) + 1
      /\ DOMAIN faults = 1..Len(faults) /\ DOMAIN faults' = 1..(Len(faults) + 1)
      /\ \A i \in 1..Len(faults) : faults'[i] = faults[i]
      /\ faults'[Len(faults) + 1] = k
  BY <1>1
<1> QED
  BY <1>2 DEF Happened

\* What a step does to the surroundings.
LEMMA Surroundings ==
    ASSUME BudgetInv, [Next]_ovars
    PROVE  /\ session = "gone" => session' = "gone"
           /\ Happened("redis") => Happened("redis")'
           /\ redis' = "down" => redis = "down" \/ Happened("redis")'
<1>1. TypeOK
  BY DEF BudgetInv
<1>2. CASE RedisDown
  <2>1. faults' = Append(faults, "redis") /\ session' = session
    BY <1>2 DEF RedisDown, Fault
  <2> QED
    BY <1>1, <2>1, HistoryGrows
<1>3. CASE DbFails \/ TickDies
  <2>1. session' = session /\ redis' = redis /\ \E k : faults' = Append(faults, k)
    BY <1>3 DEF DbFails, ReclaimFails, ClaimFails, ResolveFails, SweepFails, TickDies, Fault
  <2> QED
    BY <1>1, <2>1, HistoryGrows
<1>4. CASE \/ Request \/ Reclaim \/ Claim \/ Dispatch \/ Sweep
           \/ (\E r \in Rows : BecomesDue(r)) \/ SessionEnds \/ RedisBack
           \/ UNCHANGED ovars
  <2>1. faults' = faults /\ (redis' = redis \/ redis' = "up")
    BY <1>4 DEF Request, Enqueue, RetryRow, CancelRow, Reclaim, Claim, Dispatch,
                CheckLive, SendAck, SendNak, Resolve, Sweep, SweepList, SweepApply,
                TickEnds, BecomesDue, SessionEnds, RedisBack, ovars
  <2>2. session' = session \/ session' = "gone"
    BY <1>4 DEF Request, Enqueue, RetryRow, CancelRow, Reclaim, Claim, Dispatch,
                CheckLive, SendAck, SendNak, Resolve, Sweep, SweepList, SweepApply,
                TickEnds, BecomesDue, SessionEnds, RedisBack, ovars
  <2> QED
    BY <2>1, <2>2 DEF Happened
<1> QED
  BY <1>2, <1>3, <1>4 DEF Next

\* A step that resolves a row as done has an answer or a session that is over.
LEMMA HonestStep ==
    ASSUME BudgetInv, HonestInv, [Next]_ovars
    PROVE  HonestInv'
<1>1. /\ session = "gone" => session' = "gone"
      /\ Happened("redis") => Happened("redis")'
      /\ redis' = "down" => redis = "down" \/ Happened("redis")'
  BY Surroundings
<1>2. redis' = "down" => Happened("redis")'
  BY <1>1 DEF HonestInv
<1>3. ASSUME ~Happened("redis")', NEW r \in Rows, row'[r].st = "done"
      PROVE  row'[r].out = "ack" \/ session' = "gone"
  <2>1. ~Happened("redis") /\ redis # "down"
    BY <1>1, <1>3 DEF HonestInv
  <2>2. CASE row[r].st = "done"
    <3>1. row'[r] = row[r]
      BY <2>2, DoneStep
    <3> QED
      BY <1>1, <2>1, <2>2, <3>1 DEF HonestInv, DoneHonest
  <2>3. CASE row[r].st # "done"
    <3>1. RowStep(r)
      BY EveryRow
    <3>2. Reaped(r) \/ Answered(r)
      BY <1>3, <2>3, <3>1 DEF RowStep, Listed, Queued, Moved, Applied, Untouched,
                              Retried, Withdrawn
    <3>3. CASE Reaped(r)
      BY <1>1, <2>1, <3>3 DEF Reaped
    <3>4. CASE Answered(r)
      BY <1>3, <3>4 DEF Answered
    <3> QED
      BY <3>2, <3>3, <3>4
  <2> QED
    BY <2>2, <2>3
<1> QED
  BY <1>2, <1>3 DEF HonestInv, DoneHonest

\* A row that is done was acknowledged by the NAS or its session is over, as
\* long as Redis has answered every live lookup.
THEOREM DoneCorrect == Spec => []DoneHonest
<1>1. Init => HonestInv
  BY DEF Init, HonestInv, DoneHonest, Absent
<1>2. BudgetInv /\ HonestInv /\ [Next]_ovars => HonestInv'
  BY HonestStep
<1>3. HonestInv => DoneHonest
  BY DEF HonestInv
<1> QED
  BY <1>1, <1>2, <1>3, InitBudget, NextBudget, PTL DEF Spec

=============================================================================
