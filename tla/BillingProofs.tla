---------------------------- MODULE BillingProofs ----------------------------
(***************************************************************************)
(* Proofs about the money: no ledger row is given back twice, a subscriber *)
(* has no more days than were paid for, the codes of a batch are paid for, *)
(* the window of a prepaid card holds, and the books tie; for any number   *)
(* of requests at the same time, and any prices, documents and months.     *)
(***************************************************************************)
EXTENDS BillingLedger, BillingBooks, Cards, Sums

-----------------------------------------------------------------------------
(* No row is given back twice.                                             *)

\* The ledger is a sequence; what its rows hold besides rev does not matter.
LedType == \E S : led \in Seq(S)

\* A request that is past the reversal has a row that was reversed.
MarksReversed == \A p \in Undoers : undoer[p].at = "mark" => Reversed(undoer[p].u)

\* The shape of the undo log and of its requests.
UndoKinds == {"none", "renewal", "topup", "undo_reversal"}
UndoStates == {"none", "open", "closed", "undone"}
UndoSteps == {"idle", "check", "reverse", "mark"}
UndoType == \E X : undoLog \in [Entries -> [kind : UndoKinds, snap : X, st : UndoStates]]
UndoerType == \E X : undoer \in [Undoers -> [at : UndoSteps, u : X]]

LedInv == LedType /\ UndoType /\ UndoerType /\ ReversedOnce /\ MarksReversed

\* Rows are only ever added.
LEMMA Appended ==
    ASSUME LedType, NEW T, NEW rows \in Seq(T), led' = led \o rows
    PROVE  /\ LedType'
           /\ Len(led) \in Nat /\ Len(rows) \in Nat
           /\ DOMAIN led = 1..Len(led) /\ DOMAIN led' = 1..(Len(led) + Len(rows))
           /\ \A k \in 1..Len(led) : led'[k] = led[k]
           /\ \A k \in 1..Len(rows) : led'[Len(led) + k] = rows[k]
<1>1. PICK S : led \in Seq(S)
  BY DEF LedType
<1> DEFINE U == S \union T
<1>2. led \in Seq(U) /\ rows \in Seq(U)
  BY <1>1
<1> HIDE DEF U
<1>3. led' \in Seq(U) /\ Len(led') = Len(led) + Len(rows)
  BY <1>2
<1>4. LedType'
  BY <1>3 DEF LedType
<1> QED
  BY <1>2, <1>3, <1>4

\* What a step does to the ledger: nothing, sales, or one reversal of a row
\* that was not reversed.
Sells == \E T : \E rows \in Seq(T) : led' = led \o rows /\ \A k \in 1..Len(rows) : rows[k].rev = 0
Reverses(u) == \E x : led' = led \o <<x>> /\ x.rev = u /\ ~Reversed(u)

\* Sales keep reversals unique.
LEMMA SoldFacts ==
    ASSUME LedInv, Sells
    PROVE  /\ LedType'
           /\ \A i, k \in DOMAIN led' : led'[i].rev # 0 /\ led'[i].rev = led'[k].rev => i = k
           /\ \A u : Reversed(u) => Reversed(u)'
<1>1. PICK T : \E rows \in Seq(T) : led' = led \o rows /\ \A k \in 1..Len(rows) : rows[k].rev = 0
  BY DEF Sells
<1>2. PICK rows \in Seq(T) : led' = led \o rows /\ \A k \in 1..Len(rows) : rows[k].rev = 0
  BY <1>1
<1>3. /\ LedType'
      /\ Len(led) \in Nat /\ Len(rows) \in Nat
      /\ DOMAIN led = 1..Len(led) /\ DOMAIN led' = 1..(Len(led) + Len(rows))
      /\ \A k \in 1..Len(led) : led'[k] = led[k]
      /\ \A k \in 1..Len(rows) : led'[Len(led) + k] = rows[k]
  BY <1>2, Appended DEF LedInv
<1>4. ASSUME NEW i \in DOMAIN led', led'[i].rev # 0 PROVE i \in DOMAIN led /\ led'[i] = led[i]
  <2>1. CASE i \in 1..Len(led)
    BY <1>3, <2>1
  <2>2. CASE i \notin 1..Len(led)
    <3>1. i - Len(led) \in 1..Len(rows) /\ i = Len(led) + (i - Len(led))
      BY <1>3, <2>2
    <3>2. led'[i].rev = 0
      BY <1>2, <1>3, <3>1
    <3> QED
      BY <1>4, <3>2
  <2> QED
    BY <2>1, <2>2
<1>5. ASSUME NEW i \in DOMAIN led', NEW k \in DOMAIN led', led'[i].rev # 0, led'[i].rev = led'[k].rev
      PROVE  i = k
  BY <1>4, <1>5 DEF LedInv, ReversedOnce
<1>6. ASSUME NEW u, Reversed(u) PROVE Reversed(u)'
  <2>1. PICK k \in DOMAIN led : led[k].rev = u
    BY <1>6 DEF Reversed
  <2>2. k \in DOMAIN led' /\ led'[k].rev = u
    BY <1>3, <2>1
  <2> QED
    BY <2>2 DEF Reversed
<1> QED
  BY <1>3, <1>5, <1>6

\* A reversal of a row that was not reversed keeps them unique.
LEMMA ReversesFacts ==
    ASSUME LedInv, NEW u, Reverses(u)
    PROVE  /\ LedType'
           /\ \A i, k \in DOMAIN led' : led'[i].rev # 0 /\ led'[i].rev = led'[k].rev => i = k
           /\ \A v : Reversed(v) => Reversed(v)'
           /\ Reversed(u)'
<1>1. PICK x : led' = led \o <<x>> /\ x.rev = u /\ ~Reversed(u)
  BY DEF Reverses
<1>2. <<x>> \in Seq({x}) /\ Len(<<x>>) = 1 /\ <<x>>[1] = x
  OBVIOUS
<1> DEFINE n == Len(led) + 1
<1>3. /\ LedType' /\ Len(led) \in Nat
      /\ DOMAIN led = 1..Len(led) /\ DOMAIN led' = 1..n
      /\ \A k \in 1..Len(led) : led'[k] = led[k]
      /\ led'[n] = x
  <2> DEFINE rows == <<x>>
             T == {x}
  <2>1. rows \in Seq(T) /\ led' = led \o rows /\ Len(rows) = 1 /\ rows[1] = x
    BY <1>1, <1>2
  <2> HIDE DEF rows, T
  <2>2. /\ LedType'
        /\ Len(led) \in Nat /\ Len(rows) \in Nat
        /\ DOMAIN led = 1..Len(led) /\ DOMAIN led' = 1..(Len(led) + Len(rows))
        /\ \A k \in 1..Len(led) : led'[k] = led[k]
        /\ \A k \in 1..Len(rows) : led'[Len(led) + k] = rows[k]
    BY <2>1, Appended DEF LedInv
  <2> QED
    BY <2>1, <2>2
<1>4. \A i \in DOMAIN led' : i = n \/ (i \in DOMAIN led /\ led'[i] = led[i])
  BY <1>3
<1>5. \A i \in DOMAIN led : led[i].rev # u
  BY <1>1 DEF Reversed
<1> HIDE DEF n
<1>6. ASSUME NEW i \in DOMAIN led', NEW k \in DOMAIN led', led'[i].rev # 0, led'[i].rev = led'[k].rev
      PROVE  i = k
  BY <1>1, <1>3, <1>4, <1>5, <1>6 DEF LedInv, ReversedOnce
<1>7. ASSUME NEW v, Reversed(v) PROVE Reversed(v)'
  <2>1. PICK k \in DOMAIN led : led[k].rev = v
    BY <1>7 DEF Reversed
  <2>2. k \in DOMAIN led' /\ led'[k].rev = v
    BY <1>3, <2>1 DEF n
  <2> QED
    BY <2>2 DEF Reversed
<1>8. Reversed(u)'
  <2>1. n \in DOMAIN led' /\ led'[n].rev = u
    BY <1>1, <1>3 DEF n
  <2> QED
    BY <2>1 DEF Reversed
<1> QED
  BY <1>3, <1>6, <1>7, <1>8

\* One row that reverses nothing.
LEMMA OneSale ==
    ASSUME NEW x, x.rev = 0, led' = led \o <<x>>
    PROVE  Sells
<1>1. <<x>> \in Seq({x}) /\ Len(<<x>>) = 1 /\ <<x>>[1] = x
  OBVIOUS
<1>2. \A k \in 1..Len(<<x>>) : <<x>>[k].rev = 0
  BY <1>1
<1> QED
  BY <1>1, <1>2 DEF Sells

\* A renewal and its commission.
LEMMA RenewalSells ==
    ASSUME NEW p, ChargeRenewal(p)
    PROVE  Sells
<1> DEFINE x == Row("renewal", -Price, 0, Days[p])
           y == Row("commission", Commission, 0, 0)
<1>1. x.rev = 0 /\ y.rev = 0
  BY DEF Row
<1>2. led' = led \o (<<x>> \o CommissionRows)
  BY DEF ChargeRenewal, InsertLedger
<1>3. CommissionRows = <<y>> \/ CommissionRows = <<>>
  BY DEF CommissionRows
<1> HIDE DEF x, y
<1> DEFINE rows == <<x>> \o CommissionRows
<1>4. rows \in Seq({x, y}) /\ \A k \in 1..Len(rows) : rows[k] \in {x, y}
  <2> DEFINE S == {x, y}
  <2>1. x \in S /\ y \in S
    OBVIOUS
  <2> HIDE DEF S
  <2>2. <<x>> \in Seq(S) /\ <<y>> \in Seq(S) /\ <<>> \in Seq(S)
    BY <2>1
  <2>3. CommissionRows \in Seq(S)
    BY <1>3, <2>2
  <2>4. rows \in Seq(S)
    BY <2>2, <2>3
  <2>5. \A k \in 1..Len(rows) : rows[k] \in S
    BY <2>4
  <2> QED
    BY <2>4, <2>5 DEF S
<1>5. \A k \in 1..Len(rows) : rows[k].rev = 0
  BY <1>1, <1>4
<1> QED
  BY <1>2, <1>4, <1>5 DEF Sells

\* Reversed, in the ledger after a step.
ReversedNow(u) == \E k \in DOMAIN led' : led'[k].rev = u

\* The log after a step: what is shown as undone was, or is given back.
LogStep ==
    /\ UndoType'
    /\ \A v \in Entries : undoLog'[v].st = "undone" => undoLog[v].st = "undone" \/ ReversedNow(v)

\* The requests after a step.
UndoerStep ==
    /\ UndoerType'
    /\ \A p \in Undoers : undoer'[p].at = "mark" =>
         \/ undoer[p].at = "mark" /\ undoer'[p].u = undoer[p].u
         \/ ReversedNow(undoer'[p].u)

\* The log rests.
LEMMA SameLog == ASSUME UndoType, undoLog' = undoLog PROVE LogStep
BY DEF UndoType, LogStep

\* The requests rest.
LEMMA SameUndoers == ASSUME UndoerType, undoer' = undoer PROVE UndoerStep
BY DEF UndoerType, UndoerStep

\* recordUndo opens a row.
LEMMA RecordLog ==
    ASSUME UndoType, NEW u, NEW kind \in UndoKinds, NEW snap, RecordUndo(u, kind, snap)
    PROVE  LogStep
<1>1. CASE undoLog' = undoLog
  BY <1>1, SameLog
<1>2. CASE undoLog' = [undoLog EXCEPT ![u] = [kind |-> kind, snap |-> snap, st |-> "open"]]
  <2>1. PICK X : undoLog \in [Entries -> [kind : UndoKinds, snap : X, st : UndoStates]]
    BY DEF UndoType
  <2> DEFINE w == [kind |-> kind, snap |-> snap, st |-> "open"]
             Y == X \union {snap}
             R == [kind : UndoKinds, snap : Y, st : UndoStates]
  <2>2. w \in R /\ w.st = "open"
    <3>1. snap \in Y /\ "open" \in UndoStates
      BY DEF UndoStates
    <3> HIDE DEF Y
    <3>2. w.st = "open"
      OBVIOUS
    <3>3. w \in R
      BY <3>1
    <3> QED
      BY <3>2, <3>3
  <2>6. undoLog \in [Entries -> R]
    <3>1. \A v \in Entries : undoLog[v] \in R
      BY <2>1
    <3> HIDE DEF R
    <3> QED
      BY <2>1, <3>1
  <2>3. undoLog' = [undoLog EXCEPT ![u] = w]
    BY <1>2
  <2> HIDE DEF w, R
  <2>4. undoLog' \in [Entries -> R] /\ \A v \in Entries : undoLog'[v] = w \/ undoLog'[v] = undoLog[v]
    BY <2>2, <2>3, <2>6
  <2>5. UndoType'
    BY <2>4 DEF UndoType, R
  <2> QED
    BY <2>2, <2>4, <2>5 DEF LogStep
<1> QED
  BY <1>1, <1>2 DEF RecordUndo

\* A row of the log is closed, or marked as undone.
LEMMA SetLog ==
    ASSUME UndoType, NEW u, NEW a \in UndoStates, a = "undone" => ReversedNow(u),
           undoLog' = [undoLog EXCEPT ![u].st = a]
    PROVE  LogStep
<1>1. PICK X : undoLog \in [Entries -> [kind : UndoKinds, snap : X, st : UndoStates]]
  BY DEF UndoType
<1> DEFINE R == [kind : UndoKinds, snap : X, st : UndoStates]
           q == undoLog[u]
           w == [q EXCEPT !.st = a]
<1>2. undoLog \in [Entries -> R]
  BY <1>1
<1>3. undoLog' = [undoLog EXCEPT ![u] = w]
  OBVIOUS
<1>4. CASE u \notin Entries
  <2> HIDE DEF R, w
  <2>1. undoLog' = undoLog
    BY <1>2, <1>3, <1>4
  <2> QED
    BY <2>1, SameLog
<1>5. CASE u \in Entries
  <2>1. q \in R
    BY <1>2, <1>5
  <2> HIDE DEF q
  <2>2. w \in R /\ w.st = a
    BY <2>1
  <2> HIDE DEF R, w
  <2>3. undoLog' \in [Entries -> R] /\ undoLog'[u] = w /\ \A v \in Entries \ {u} : undoLog'[v] = undoLog[v]
    BY <1>2, <1>3, <1>5, <2>2
  <2>4. UndoType'
    BY <2>3 DEF UndoType, R
  <2> QED
    BY <2>2, <2>3, <2>4 DEF LogStep
<1> QED
  BY <1>4, <1>5

\* A request goes somewhere else.
LEMMA SetUndoer ==
    ASSUME UndoerType, NEW p \in Undoers, NEW at \in UndoSteps, NEW u,
           undoer' = [undoer EXCEPT ![p] = [at |-> at, u |-> u]], at = "mark" => ReversedNow(u)
    PROVE  UndoerStep
<1>1. PICK X : undoer \in [Undoers -> [at : UndoSteps, u : X]]
  BY DEF UndoerType
<1> DEFINE w == [at |-> at, u |-> u]
           Y == X \union {u}
           R == [at : UndoSteps, u : Y]
<1>2. w \in R /\ w.at = at /\ w.u = u /\ undoer \in [Undoers -> R]
  BY <1>1
<1>3. undoer' = [undoer EXCEPT ![p] = w]
  OBVIOUS
<1> HIDE DEF w, R
<1>4. undoer' \in [Undoers -> R] /\ undoer'[p] = w /\ \A v \in Undoers \ {p} : undoer'[v] = undoer[v]
  BY <1>2, <1>3
<1>5. UndoerType'
  BY <1>4 DEF UndoerType, R
<1>6. \A v \in Undoers \ {p} : undoer'[v].at = "mark" => undoer[v].at = "mark" /\ undoer'[v].u = undoer[v].u
  BY <1>4
<1>7. undoer'[p].at = "mark" => ReversedNow(undoer'[p].u)
  BY <1>2, <1>4
<1> QED
  BY <1>5, <1>6, <1>7 DEF UndoerStep

\* A request takes its next step.
LEMMA MoveUndoer ==
    ASSUME UndoerType, NEW p \in Undoers, NEW at \in UndoSteps, undoer' = [undoer EXCEPT ![p].at = at],
           at = "mark" => ReversedNow(undoer[p].u)
    PROVE  UndoerStep
<1>1. PICK X : undoer \in [Undoers -> [at : UndoSteps, u : X]]
  BY DEF UndoerType
<1> DEFINE R == [at : UndoSteps, u : X]
           q == undoer[p]
           u == q.u
           w == [q EXCEPT !.at = at]
<1>2. undoer \in [Undoers -> R] /\ q \in R /\ undoer' = [undoer EXCEPT ![p] = w]
  BY <1>1
<1>3. at = "mark" => ReversedNow(u)
  OBVIOUS
<1> HIDE DEF q
<1>4. w \in R /\ w.at = at /\ w.u = u
  BY <1>2
<1> HIDE DEF R, w
<1>5. undoer' \in [Undoers -> R] /\ undoer'[p] = w /\ \A v \in Undoers \ {p} : undoer'[v] = undoer[v]
  BY <1>2, <1>4
<1>6. UndoerType'
  BY <1>5 DEF UndoerType, R
<1>7. \A v \in Undoers \ {p} : undoer'[v].at = "mark" => undoer[v].at = "mark" /\ undoer'[v].u = undoer[v].u
  BY <1>5
<1>8. undoer'[p].at = "mark" => ReversedNow(undoer'[p].u)
  BY <1>3, <1>4, <1>5
<1> QED
  BY <1>6, <1>7, <1>8 DEF UndoerStep

\* performUndo's last statements: the row is undone, the reversal gets a row.
LEMMA MarkLog ==
    ASSUME UndoType, NEW u, NEW k, ReversedNow(u),
           undoLog' = [undoLog EXCEPT ![u].st = "undone",
                                      ![k] = [kind |-> "undo_reversal", snap |-> 0, st |-> "open"]]
    PROVE  LogStep
<1>1. PICK X : undoLog \in [Entries -> [kind : UndoKinds, snap : X, st : UndoStates]]
  BY DEF UndoType
<1> DEFINE Y == X \union {0}
           R == [kind : UndoKinds, snap : Y, st : UndoStates]
           q == undoLog[u]
           w == [q EXCEPT !.st = "undone"]
           o == [kind |-> "undo_reversal", snap |-> 0, st |-> "open"]
           f == [undoLog EXCEPT ![u] = w]
<1>2. undoLog \in [Entries -> R]
  <2>1. \A v \in Entries : undoLog[v] \in R
    BY <1>1
  <2> HIDE DEF R
  <2> QED
    BY <1>1, <2>1
<1>3. undoLog' = [f EXCEPT ![k] = o]
  OBVIOUS
<1>4. o \in R /\ o.st = "open"
  <2>1. 0 \in Y /\ "open" \in UndoStates /\ "undo_reversal" \in UndoKinds
    BY DEF UndoStates, UndoKinds
  <2> HIDE DEF Y
  <2> QED
    BY <2>1
<1>5. u \in Entries => w \in R
  <2>1. u \in Entries => q \in R
    BY <1>2
  <2>2. "undone" \in UndoStates
    BY DEF UndoStates
  <2> HIDE DEF q
  <2> QED
    BY <2>1, <2>2
<1> HIDE DEF w, o, R
<1>6. f \in [Entries -> R] /\ \A v \in Entries \ {u} : f[v] = undoLog[v]
  BY <1>2, <1>5
<1> HIDE DEF f
<1>7. undoLog' \in [Entries -> R] /\ \A v \in Entries : undoLog'[v] = o \/ undoLog'[v] = f[v]
  BY <1>3, <1>4, <1>6
<1>8. UndoType'
  BY <1>7 DEF UndoType, R
<1>9. ASSUME NEW v \in Entries, undoLog'[v].st = "undone" PROVE undoLog[v].st = "undone" \/ ReversedNow(v)
  <2>1. undoLog'[v] = f[v]
    BY <1>4, <1>7, <1>9
  <2> QED
    BY <1>6, <1>9, <2>1
<1> QED
  BY <1>8, <1>9 DEF LogStep

\* The invariant after a step that does nothing else.
LEMMA LedgerGoal ==
    ASSUME LedInv, led' = led \/ Sells \/ \E u : Reverses(u), LogStep, UndoerStep
    PROVE  LedInv'
<1>1. /\ LedType'
      /\ \A i, k \in DOMAIN led' : led'[i].rev # 0 /\ led'[i].rev = led'[k].rev => i = k
      /\ \A u : Reversed(u) => ReversedNow(u)
  <2>1. CASE led' = led
    BY <2>1 DEF LedInv, LedType, ReversedOnce, Reversed, ReversedNow
  <2>2. CASE Sells
    BY <2>2, SoldFacts DEF Reversed, ReversedNow
  <2>3. ASSUME NEW u, Reverses(u)
        PROVE  /\ LedType'
               /\ \A i, k \in DOMAIN led' : led'[i].rev # 0 /\ led'[i].rev = led'[k].rev => i = k
               /\ \A v : Reversed(v) => ReversedNow(v)
    BY <2>3, ReversesFacts DEF Reversed, ReversedNow
  <2> QED
    BY <2>1, <2>2, <2>3
<1>2. \A u \in Entries : undoLog'[u].st = "undone" => ReversedNow(u)
  BY <1>1 DEF LogStep, LedInv, ReversedOnce
<1>3. \A p \in Undoers : undoer'[p].at = "mark" => ReversedNow(undoer'[p].u)
  BY <1>1 DEF UndoerStep, LedInv, MarksReversed
<1>4. ReversedOnce'
  BY <1>1, <1>2 DEF ReversedOnce, Reversed, ReversedNow
<1>5. MarksReversed'
  BY <1>3 DEF MarksReversed, Reversed, ReversedNow
<1> QED
  BY <1>1, <1>4, <1>5 DEF LedInv, LogStep, UndoerStep

\* The reversals of performUndo and of the refund button.
LEMMA CoreReverses ==
    ASSUME NEW i, RefundCore(i) \/ UndoTopupCore(i)
    PROVE  Reverses(i)
<1>1. CASE RefundCore(i)
  <2> DEFINE x == Row("refund", -led[i].amt, i, Days[profile])
  <2>1. led' = led \o <<x>> /\ ~Reversed(i)
    BY <1>1 DEF RefundCore, InsertLedger, Refundable
  <2>2. x.rev = i
    BY DEF Row
  <2> QED
    BY <2>1, <2>2 DEF Reverses
<1>2. CASE UndoTopupCore(i)
  <2> DEFINE x == Row("topup", -led[i].amt, i, 0)
  <2>1. led' = led \o <<x>> /\ ~Reversed(i)
    BY <1>2 DEF UndoTopupCore, InsertLedger
  <2>2. x.rev = i
    BY DEF Row
  <2> QED
    BY <2>1, <2>2 DEF Reverses
<1> QED
  BY <1>1, <1>2

\* Every step keeps the invariant.
LEMMA LedgerStep ==
    ASSUME LedInv, [LedgerNext]_ledgerVars
    PROVE  LedInv'
<1>0. LedType /\ UndoType /\ UndoerType
  BY DEF LedInv
<1>1. ASSUME NEW p \in Profiles, RenewHandler(p) PROVE LedInv'
  <2>1. Sells
    BY <1>1, RenewalSells DEF RenewHandler
  <2>2. LogStep
    <3>1. RecordUndo(Len(led) + 1, "renewal", expiry') /\ "renewal" \in UndoKinds
      BY <1>1 DEF RenewHandler, UndoKinds
    <3> QED
      BY <1>0, <3>1, RecordLog
  <2>3. UndoerStep
    BY <1>0, <1>1, SameUndoers DEF RenewHandler
  <2> QED
    BY <2>1, <2>2, <2>3, LedgerGoal
<1>2. CASE TopupHandler
  <2>1. Sells
    <3> DEFINE x == Row("topup", TopupAmount, 0, 0)
    <3>1. led' = led \o <<x>>
      BY <1>2 DEF TopupHandler, InsertLedger
    <3>2. x.rev = 0
      BY DEF Row
    <3> QED
      BY <3>1, <3>2, OneSale
  <2>2. LogStep
    <3>1. RecordUndo(Len(led) + 1, "topup", 0) /\ "topup" \in UndoKinds
      BY <1>2 DEF TopupHandler, UndoKinds
    <3> QED
      BY <1>0, <3>1, RecordLog
  <2>3. UndoerStep
    BY <1>0, <1>2, SameUndoers DEF TopupHandler
  <2> QED
    BY <2>1, <2>2, <2>3, LedgerGoal
<1>3. ASSUME undoLog' = undoLog, undoer' = undoer, led' = led \/ Sells \/ \E u : Reverses(u)
      PROVE  LedInv'
  BY <1>0, <1>3, SameLog, SameUndoers, LedgerGoal
<1>4. CASE InvoiceBatch
  <2> DEFINE x == Row("adjustment", -Price, 0, 0)
  <2>1. led' = led \o <<x>> /\ undoLog' = undoLog /\ undoer' = undoer
    BY <1>4 DEF InvoiceBatch, InsertLedger, undoVars
  <2>2. x.rev = 0
    BY DEF Row
  <2> QED
    BY <1>3, <2>1, <2>2, OneSale
<1>5. ASSUME NEW p \in Profiles, CreateBatchHandler(p) PROVE LedInv'
  <2> DEFINE x == Row("voucher", -(Price * Cardinality(Vouchers)), 0, 0)
  <2>1. led' = led \o <<x>> /\ undoLog' = undoLog /\ undoer' = undoer
    BY <1>5 DEF CreateBatchHandler, GenerateBatch, InsertLedger, undoVars
  <2>2. x.rev = 0
    BY DEF Row
  <2> QED
    BY <1>3, <2>1, <2>2, OneSale
<1>6. CASE VoidBatchHandler
  <2> DEFINE x == Row("voucher", Price * Cardinality({v \in Vouchers : voucher[v] = "unused"}), 0, 0)
  <2>1. (led' = led \/ led' = led \o <<x>>) /\ undoLog' = undoLog /\ undoer' = undoer
    BY <1>6 DEF VoidBatchHandler, InsertLedger, undoVars
  <2>2. x.rev = 0
    BY DEF Row
  <2> QED
    BY <1>3, <2>1, <2>2, OneSale
<1>7. ASSUME NEW r \in Redeemers, RedeemHandler(r) PROVE LedInv'
  <2> DEFINE x == Row("voucher_redeem", 0, 0, Days[batch.profile])
  <2>1. (led' = led \/ led' = led \o <<x>>) /\ undoLog' = undoLog /\ undoer' = undoer
    BY <1>7 DEF RedeemHandler, RedeemVoucher, InsertLedger, undoVars
  <2>2. x.rev = 0
    BY DEF Row
  <2> QED
    BY <1>3, <2>1, <2>2, OneSale
<1>8. ASSUME NEW i \in Entries, RefundHandler(i) PROVE LedInv'
  <2>1. Reverses(i) /\ undoLog' = undoLog /\ undoer' = undoer
    BY <1>8, CoreReverses DEF RefundHandler, undoVars
  <2> QED
    BY <1>3, <2>1
<1>9. CASE DayPasses \/ (\E r \in Redeemers, v \in Vouchers : RedeemStart(r, v)) \/ UNCHANGED ledgerVars
           \/ (\E q \in Requests : RejectRequest(q) \/ WithdrawRequest(q) \/ \E u \in Entries : RequestUndo(q, u))
  <2>1. led' = led /\ undoLog' = undoLog /\ undoer' = undoer
    BY <1>9 DEF DayPasses, RedeemStart, RejectRequest, WithdrawRequest, RequestUndo, ledgerVars,
                moneyVars, undoVars
  <2> QED
    BY <1>3, <2>1
<1>10. ASSUME NEW u \in Entries, WindowCloses(u) PROVE LedInv'
  <2>1. led' = led /\ undoer' = undoer /\ undoLog' = [undoLog EXCEPT ![u].st = "closed"]
    BY <1>10 DEF WindowCloses, moneyVars
  <2>2. "closed" \in UndoStates /\ "closed" # "undone"
    BY DEF UndoStates
  <2>3. LogStep
    BY <1>0, <2>1, <2>2, SetLog
  <2> QED
    BY <1>0, <2>1, <2>3, SameUndoers, LedgerGoal
<1>11. ASSUME led' = led, undoLog' = undoLog, UndoerStep PROVE LedInv'
  BY <1>0, <1>11, SameLog, LedgerGoal
<1>12. ASSUME NEW p \in Undoers, NEW u, undoer' = [undoer EXCEPT ![p] = [at |-> "check", u |-> u]],
              led' = led, undoLog' = undoLog
       PROVE  LedInv'
  <2>1. "check" \in UndoSteps
    BY DEF UndoSteps
  <2>2. UndoerStep
    BY <1>0, <1>12, <2>1, SetUndoer
  <2> QED
    BY <1>11, <1>12, <2>2
<1>13. ASSUME NEW p \in Undoers, NEW u \in Entries, UndoNow(p, u) PROVE LedInv'
  BY <1>12, <1>13 DEF UndoNow, moneyVars
<1>14. ASSUME NEW q \in Requests, NEW p \in Undoers, ApproveRequest(q, p) PROVE LedInv'
  BY <1>12, <1>14 DEF ApproveRequest, moneyVars
<1>15. ASSUME NEW p \in Undoers, Leave(p) PROVE UndoerStep
  <2>1. undoer' = [undoer EXCEPT ![p] = [at |-> "idle", u |-> 0]] /\ "idle" \in UndoSteps
    BY <1>15 DEF Leave, IdleUndo, UndoSteps
  <2> QED
    BY <1>0, <2>1, SetUndoer
<1>16. ASSUME NEW p \in Undoers, UndoCheck(p) PROVE LedInv'
  <2>1. led' = led /\ undoLog' = undoLog /\ (Leave(p) \/ undoer' = [undoer EXCEPT ![p].at = "reverse"])
    BY <1>16 DEF UndoCheck, Goto, moneyVars
  <2>2. "reverse" \in UndoSteps
    BY DEF UndoSteps
  <2>3. UndoerStep
    BY <1>0, <1>15, <2>1, <2>2, MoveUndoer
  <2> QED
    BY <1>11, <2>1, <2>3
<1>17. ASSUME NEW p \in Undoers, UndoLeaves(p) PROVE LedInv'
  <2>1. led' = led /\ undoLog' = undoLog /\ Leave(p)
    BY <1>17 DEF UndoLeaves, moneyVars
  <2> QED
    BY <1>11, <1>15, <2>1
<1>18. ASSUME NEW p \in Undoers, UndoReverse(p) PROVE LedInv'
  <2>1. Reverses(undoer[p].u)
    BY <1>18, CoreReverses DEF UndoReverse
  <2>2. ReversedNow(undoer[p].u)
    <3>1. PICK u : u = undoer[p].u
      OBVIOUS
    <3>2. Reversed(u)'
      BY <2>1, <3>1, ReversesFacts
    <3> QED
      BY <3>1, <3>2 DEF Reversed, ReversedNow
  <2>3. undoer' = [undoer EXCEPT ![p].at = "mark"] /\ undoLog' = undoLog /\ "mark" \in UndoSteps
    BY <1>18 DEF UndoReverse, UndoSteps
  <2>4. UndoerStep
    BY <1>0, <2>2, <2>3, MoveUndoer
  <2> QED
    BY <1>0, <2>1, <2>3, <2>4, SameLog, LedgerGoal
<1>19. ASSUME NEW p \in Undoers, UndoMark(p) PROVE LedInv'
  <2>1. led' = led /\ Leave(p) /\ undoer[p].at = "mark"
    BY <1>19 DEF UndoMark, moneyVars
  <2>2. ReversedNow(undoer[p].u)
    BY <2>1 DEF LedInv, MarksReversed, Reversed, ReversedNow
  <2> DEFINE u == undoer[p].u
             k == CHOOSE k \in DOMAIN led : led[k].rev = u
  <2>3. \/ undoLog' = [undoLog EXCEPT ![u].st = "undone",
                                      ![k] = [kind |-> "undo_reversal", snap |-> 0, st |-> "open"]]
        \/ undoLog' = [undoLog EXCEPT ![u].st = "undone"]
    BY <1>19 DEF UndoMark
  <2>4. "undone" \in UndoStates
    BY DEF UndoStates
  <2> HIDE DEF u, k
  <2>5. LogStep
    BY <1>0, <2>2, <2>3, <2>4, SetLog, MarkLog DEF u
  <2> QED
    BY <1>15, <2>1, <2>5, LedgerGoal
<1> QED
  BY <1>1, <1>2, <1>4, <1>5, <1>6, <1>7, <1>8, <1>9, <1>10, <1>13, <1>14, <1>16, <1>17, <1>18, <1>19
     DEF LedgerNext

\* It holds at first.
LEMMA LedgerInitial == LedgerInit => LedInv
<1> SUFFICES ASSUME LedgerInit PROVE LedInv
  OBVIOUS
<1>1. led = <<>> /\ led \in Seq({})
  BY DEF LedgerInit
<1>2. LedType
  BY <1>1 DEF LedType
<1>3. UndoType /\ \A u \in Entries : undoLog[u].st # "undone"
  <2> DEFINE R == [kind : UndoKinds, snap : {0}, st : UndoStates]
  <2>1. NoUndo \in R /\ NoUndo.st # "undone"
    BY DEF NoUndo, UndoKinds, UndoStates
  <2> HIDE DEF R
  <2>2. undoLog \in [Entries -> R] /\ \A u \in Entries : undoLog[u] = NoUndo
    BY <2>1 DEF LedgerInit
  <2> QED
    BY <2>1, <2>2 DEF UndoType, R
<1>4. UndoerType /\ \A p \in Undoers : undoer[p].at # "mark"
  <2> DEFINE R == [at : UndoSteps, u : {0}]
  <2>1. IdleUndo \in R /\ IdleUndo.at # "mark"
    BY DEF IdleUndo, UndoSteps
  <2> HIDE DEF R
  <2>2. undoer \in [Undoers -> R] /\ \A p \in Undoers : undoer[p] = IdleUndo
    BY <2>1 DEF LedgerInit
  <2> QED
    BY <2>1, <2>2 DEF UndoerType, R
<1>5. DOMAIN led = {}
  BY <1>1
<1> QED
  BY <1>2, <1>3, <1>4, <1>5 DEF LedInv, ReversedOnce, MarksReversed

\* No sale or top-up is given back twice and what the log shows as undone was
\* given back: for any number of undo requests, approvals and refunds at the
\* same time, wherever they stop (billing/refund.go, undo.go, approvals.go).
THEOREM ReversedCorrect == LedgerSpec => []ReversedOnce
<1>1. LedgerInit => LedInv
  BY LedgerInitial
<1>2. LedInv /\ [LedgerNext]_ledgerVars => LedInv'
  BY LedgerStep
<1>3. LedInv => ReversedOnce
  BY DEF LedInv
<1> QED
  BY <1>1, <1>2, <1>3, PTL DEF LedgerSpec

-----------------------------------------------------------------------------
(* The days that were paid for.                                            *)

\* A ledger in which a row reverses an earlier one, each once.
RevOK(s) ==
    /\ \A k \in DOMAIN s : s[k].days \in Nat /\ s[k].rev \in Nat /\ s[k].rev < k
    /\ \A i, k \in DOMAIN s : s[i].rev # 0 /\ s[i].rev = s[k].rev => i = k

ReversedIn(s, i) == \E k \in DOMAIN s : s[k].rev = i
KeptOf(s, i) ==
    IF ~ReversedIn(s, i) THEN s[i].days
    ELSE LET r == CHOOSE k \in DOMAIN s : s[k].rev = i IN Max({0, s[i].days - s[r].days})
SaleRows(s) == {i \in DOMAIN s : s[i].type \in {"renewal", "voucher_redeem"}}
KeptSum(s) == SumFunctionOnSet([i \in DOMAIN s |-> KeptOf(s, i)], SaleRows(s))
IsSale(x) == x.type \in {"renewal", "voucher_redeem"}

\* The larger of zero and a number.
LEMMA MaxTwo == ASSUME NEW a \in Int PROVE Max({0, a}) \in Nat /\ Max({0, a}) >= a
<1>1. \E x \in {0, a} : \A y \in {0, a} : x >= y
  <2>1. CASE a >= 0
    BY <2>1
  <2>2. CASE a < 0
    BY <2>2
  <2> QED BY <2>1, <2>2
<1>2. Max({0, a}) \in {0, a} /\ \A y \in {0, a} : Max({0, a}) >= y
  BY <1>1 DEF Max
<1> QED BY <1>2

\* What a reversed sale has kept.
LEMMA ReverserOf ==
    ASSUME NEW s, RevOK(s), NEW k \in DOMAIN s, s[k].rev # 0
    PROVE  KeptOf(s, s[k].rev) = Max({0, s[s[k].rev].days - s[k].days})
<1>1. PICK i : i = s[k].rev
  OBVIOUS
<1>2. PICK r : r = CHOOSE j \in DOMAIN s : s[j].rev = i
  OBVIOUS
<1>3. r \in DOMAIN s /\ s[r].rev = i
  BY <1>1, <1>2
<1>4. r = k
  BY <1>1, <1>3 DEF RevOK
<1>5. ReversedIn(s, i)
  BY <1>1 DEF ReversedIn
<1> QED BY <1>1, <1>2, <1>4, <1>5 DEF KeptOf

\* It is never negative.
LEMMA KeptNat ==
    ASSUME NEW s, RevOK(s), NEW i \in DOMAIN s, i # 0 PROVE KeptOf(s, i) \in Nat
<1>1. s[i].days \in Nat
  BY DEF RevOK
<1>2. CASE ~ReversedIn(s, i)
  BY <1>1, <1>2 DEF KeptOf
<1>3. CASE ReversedIn(s, i)
  <2>1. PICK k \in DOMAIN s : s[k].rev = i
    BY <1>3 DEF ReversedIn
  <2>2. KeptOf(s, i) = Max({0, s[i].days - s[k].days}) /\ s[k].days \in Nat
    BY <2>1, ReverserOf DEF RevOK
  <2> QED BY <1>1, <2>2, MaxTwo
<1> QED BY <1>2, <1>3

\* What one more row does to the days that stand.
Stands(s, x, z) ==
    /\ RevOK(z) /\ KeptSum(s) \in Nat /\ KeptSum(z) \in Nat
    /\ KeptSum(z) >= (KeptSum(s) + (IF IsSale(x) THEN x.days ELSE 0)) - (IF x.rev # 0 THEN x.days ELSE 0)

\* A sale adds its days; a reversal takes no more than its own.
LEMMA StandsAppend ==
    ASSUME NEW S, NEW s \in Seq(S), NEW x, NEW z, z = s \o <<x>>, RevOK(s), x.days \in Nat, x.rev \in Nat,
           x.rev <= Len(s), x.rev # 0 => ~ReversedIn(s, x.rev)
    PROVE  Stands(s, x, z)
<1> DEFINE U == S \union {x}
           n == Len(s) + 1
<1>1. s \in Seq(U) /\ x \in U
  OBVIOUS
<1> HIDE DEF U
<1>2. /\ z \in Seq(U) /\ Len(z) = n /\ Len(s) \in Nat /\ z[n] = x /\ \A i \in 1..Len(s) : z[i] = s[i]
      /\ DOMAIN z = 1..n /\ DOMAIN s = 1..Len(s)
  BY <1>1
<1>a. \A i : i \in DOMAIN z <=> i \in DOMAIN s \/ i = n
  BY <1>2
<1>b. n \notin DOMAIN s /\ \A i \in DOMAIN s : z[i] = s[i] /\ i # n /\ i \in Nat /\ i # 0
  BY <1>2
<1>3. RevOK(z)
  <2>1. \A k \in DOMAIN z : z[k].days \in Nat /\ z[k].rev \in Nat /\ z[k].rev < k
    <3>1. x.rev < n
      BY <1>2
    <3> QED BY <1>2, <1>a, <1>b, <3>1 DEF RevOK
  <2>2. \A i, k \in DOMAIN z : z[i].rev # 0 /\ z[i].rev = z[k].rev => i = k
    BY <1>2, <1>a, <1>b DEF RevOK, ReversedIn
  <2> QED BY <2>1, <2>2 DEF RevOK
<1>4. \A i \in DOMAIN s : i # x.rev => KeptOf(z, i) = KeptOf(s, i)
  <2> SUFFICES ASSUME NEW i \in DOMAIN s, i # x.rev PROVE KeptOf(z, i) = KeptOf(s, i)
    OBVIOUS
  <2>1. ReversedIn(z, i) <=> ReversedIn(s, i)
    BY <1>2, <1>a, <1>b DEF ReversedIn
  <2>2. CASE ~ReversedIn(s, i)
    BY <1>b, <2>1, <2>2 DEF KeptOf
  <2>3. CASE ReversedIn(s, i)
    <3>1. PICK k \in DOMAIN s : s[k].rev = i
      BY <2>3 DEF ReversedIn
    <3>2. z[k] = s[k] /\ z[i] = s[i] /\ k \in DOMAIN z /\ i # 0
      BY <1>a, <1>b
    <3>3. KeptOf(s, i) = Max({0, s[i].days - s[k].days})
      BY <3>1, <3>2, ReverserOf
    <3>4. KeptOf(z, i) = Max({0, z[i].days - z[k].days})
      BY <1>3, <3>1, <3>2, ReverserOf
    <3> QED BY <3>2, <3>3, <3>4
  <2> QED BY <2>2, <2>3
<1>5. x.rev # 0 => x.rev \in DOMAIN s /\ KeptOf(z, x.rev) >= KeptOf(s, x.rev) - x.days
                   /\ KeptOf(z, x.rev) \in Nat /\ KeptOf(s, x.rev) \in Nat
  <2> SUFFICES ASSUME x.rev # 0
               PROVE  x.rev \in DOMAIN s /\ KeptOf(z, x.rev) >= KeptOf(s, x.rev) - x.days
                      /\ KeptOf(z, x.rev) \in Nat /\ KeptOf(s, x.rev) \in Nat
    OBVIOUS
  <2>1. PICK i \in DOMAIN s : i = x.rev
    BY <1>2
  <2>2. KeptOf(s, i) = s[i].days
    BY <2>1 DEF KeptOf
  <2>3. KeptOf(z, i) = Max({0, z[i].days - z[n].days})
    BY <1>2, <1>3, <1>a, <2>1, ReverserOf
  <2>4. z[i].days = s[i].days /\ z[n].days = x.days /\ s[i].days \in Nat
    BY <1>2, <1>b DEF RevOK
  <2>5. Max({0, s[i].days - x.days}) >= s[i].days - x.days /\ Max({0, s[i].days - x.days}) \in Nat
    <3>1. PICK d \in Int : d = s[i].days - x.days
      BY <2>4
    <3> QED BY <3>1, MaxTwo
  <2> QED BY <2>1, <2>2, <2>3, <2>4, <2>5
<1>6. KeptOf(z, n) = x.days
  <2>1. ~ReversedIn(z, n)
    <3>1. \A k \in DOMAIN z : k \in Nat /\ z[k].rev < k /\ k <= n /\ z[k].rev \in Nat
      BY <1>2, <1>3 DEF RevOK
    <3> QED BY <1>2, <3>1 DEF ReversedIn
  <2> QED BY <1>2, <2>1 DEF KeptOf
<1> DEFINE f == [i \in DOMAIN s |-> KeptOf(s, i)]
           g == [i \in DOMAIN z |-> KeptOf(z, i)]
           R == SaleRows(s)
<1>7. R \subseteq DOMAIN s /\ n \notin R /\ IsFiniteSet(R)
  <2>1. R \subseteq 1..Len(s) /\ n \notin R
    BY <1>2, <1>b DEF SaleRows
  <2>2. IsFiniteSet(1..Len(s))
    <3>1. Len(s) \in Int /\ 1 \in Int
      BY <1>2
    <3> HIDE DEF n, R, f, g
    <3> QED BY <3>1, FS_Interval
  <2>3. IsFiniteSet(R)
    <3> HIDE DEF R
    <3> QED BY <2>1, <2>2, FS_Subset
  <2> QED BY <1>2, <2>1, <2>3
<1>8. SaleRows(z) = R \union (IF IsSale(x) THEN {n} ELSE {})
  BY <1>2, <1>a, <1>b DEF SaleRows, IsSale
<1>9. \A i \in R : f[i] = KeptOf(s, i) /\ g[i] = KeptOf(z, i) /\ f[i] \in Nat /\ g[i] \in Nat
  BY <1>3, <1>7, <1>a, <1>b, KeptNat
<1>10. g[n] = x.days
  BY <1>2, <1>6
<1>11. KeptSum(s) = SumFunctionOnSet(f, R) /\ KeptSum(z) = SumFunctionOnSet(g, SaleRows(z))
  BY DEF KeptSum
<1> HIDE DEF f, g, R
<1>12. /\ SumFunctionOnSet(f, R) \in Nat /\ SumFunctionOnSet(g, R) \in Nat
       /\ SumFunctionOnSet(g, R) >= SumFunctionOnSet(f, R) - (IF x.rev # 0 THEN x.days ELSE 0)
  <2>1. SumFunctionOnSet(f, R) \in Nat /\ SumFunctionOnSet(g, R) \in Nat
    BY <1>7, <1>9, SumNat
  <2>2. CASE x.rev # 0 /\ x.rev \in R
    <3>1. PICK i \in R : i = x.rev
      BY <2>2
    <3>2. g[i] \in Int /\ (\A y \in R : f[y] \in Int) /\ \A y \in R : y # i => g[y] = f[y]
      BY <1>4, <1>7, <1>9, <3>1
    <3>3. SumFunctionOnSet(g, R) = (SumFunctionOnSet(f, R) - f[i]) + g[i]
      BY <1>7, <3>2, SumChange, SMTT(30)
    <3>4. g[i] >= f[i] - x.days /\ f[i] \in Nat /\ g[i] \in Nat
      BY <1>5, <1>9, <2>2, <3>1
    <3> QED BY <2>1, <2>2, <3>3, <3>4
  <2>3. CASE ~(x.rev # 0 /\ x.rev \in R)
    <3>1. \A y \in R : f[y] = g[y]
      BY <1>4, <1>7, <1>9, <1>b, <2>3
    <3>2. SumFunctionOnSet(f, R) = SumFunctionOnSet(g, R)
      BY <1>7, <3>1, SumSame
    <3> QED BY <2>1, <3>2
  <2> QED BY <2>2, <2>3
<1>13. CASE IsSale(x)
  <2>1. \A y \in R \union {n} : g[y] \in Int
    BY <1>9, <1>10
  <2>2. SumFunctionOnSet(g, R \union {n}) = SumFunctionOnSet(g, R) + g[n]
    BY <1>7, <2>1, SumAdd
  <2>3. SaleRows(z) = R \union {n}
    BY <1>8, <1>13
  <2>4. KeptSum(z) = SumFunctionOnSet(g, R) + x.days
    BY <1>10, <1>11, <2>2, <2>3
  <2> QED BY <1>3, <1>11, <1>12, <1>13, <2>4 DEF Stands
<1>14. CASE ~IsSale(x)
  <2>1. KeptSum(z) = SumFunctionOnSet(g, R)
    BY <1>8, <1>11, <1>14
  <2> QED BY <1>3, <1>11, <1>12, <1>14, <2>1 DEF Stands
<1> QED BY <1>13, <1>14

-----------------------------------------------------------------------------
RequestStates == {"none", "pending", "approved", "rejected", "withdrawn"}
BatchType == \E X : batch \in [st : X, profile : Profiles]
ReqType == \E X : request \in [Requests -> [st : RequestStates, u : X]]
SubsType == day \in Int /\ expiry \in Int /\ profile \in Profiles
DaysType == SubsType /\ BatchType /\ ReqType

\* The undo log, its requests and their approvals are about rows that exist.
LogRefs == \A u \in Entries : undoLog[u].kind # "none" => u \in DOMAIN led
UndoerRefs == \A p \in Undoers : undoer[p].at # "idle" => undoer[p].u \in DOMAIN led
RequestRefs == \A q \in Requests : request[q].st = "pending" => request[q].u \in DOMAIN led
Refs == LogRefs /\ UndoerRefs /\ RequestRefs

DaysInv == LedInv /\ DaysType /\ RevOK(led) /\ Refs /\ DaysPaidFor

\* The property, about the ledger as a value.
LEMMA DaysPaidForIs == DaysPaidFor <=> expiry - day <= KeptSum(led)
  BY DEF DaysPaidFor, KeptSum, Kept, KeptOf, Reversed, ReversedIn, SaleRows, Sale

\* Rows are not lost.
LEMMA StillThere ==
    ASSUME LedType, NEW S, NEW rows \in Seq(S), led' = led \o rows
    PROVE  DOMAIN led \subseteq DOMAIN led' /\ Len(led) + Len(rows) \in Nat /\ DOMAIN led' = 1..(Len(led) + Len(rows))
           /\ DOMAIN led = 1..Len(led) /\ Len(led) \in Nat /\ Len(rows) \in Nat
<1>1. /\ Len(led) \in Nat /\ Len(rows) \in Nat
      /\ DOMAIN led = 1..Len(led) /\ DOMAIN led' = 1..(Len(led) + Len(rows))
  BY Appended
<1> QED BY <1>1

\* The days after a row x.
LEMMA DaysAfterRow ==
    ASSUME LedType, RevOK(led), NEW x, led' = led \o <<x>>, x.days \in Nat,
           x.rev = 0 \/ (x.rev \in DOMAIN led /\ ~Reversed(x.rev))
    PROVE  /\ RevOK(led') /\ KeptSum(led) \in Nat /\ KeptSum(led') \in Nat
           /\ KeptSum(led') >= (KeptSum(led) + (IF IsSale(x) THEN x.days ELSE 0)) - (IF x.rev # 0 THEN x.days ELSE 0)
<1>1. PICK S, s, z : s = led /\ z = led' /\ s \in Seq(S)
  BY DEF LedType
<1>2. x.rev \in Nat /\ x.rev <= Len(s)
  BY <1>1
<1>3. x.rev # 0 => ~ReversedIn(s, x.rev)
  BY <1>1 DEF Reversed, ReversedIn
<1>4. Stands(s, x, z)
  BY <1>1, <1>2, <1>3, StandsAppend
<1> QED BY <1>1, <1>4 DEF Stands

-----------------------------------------------------------------------------
\* What a step leaves of the days that stand.
DaysNow == RevOK(led') /\ expiry' - day' <= KeptSum(led')

\* The invariant after a step.
LEMMA DaysGoal ==
    ASSUME LedInv', DaysType', DaysNow, LogRefs', UndoerRefs', RequestRefs'
    PROVE  DaysInv'
<1>1. DaysPaidFor'
  BY DEF DaysNow, DaysPaidFor, KeptSum, Kept, KeptOf, Reversed, ReversedIn, SaleRows, Sale
<1>2. RevOK(led)'
  BY DEF DaysNow, RevOK
<1> QED BY <1>1, <1>2 DEF DaysInv, Refs

\* Nothing is sold and nothing given back.
LEMMA DaysQuiet ==
    ASSUME DaysInv, led' = led, expiry' - day' <= expiry - day, DaysType'
    PROVE  DaysNow
<1>1. expiry - day <= KeptSum(led) /\ RevOK(led) /\ expiry \in Int /\ day \in Int
  BY DaysPaidForIs DEF DaysInv, DaysType, SubsType
<1>2. KeptSum(led) \in Int
  <2>1. PICK s : s = led
    OBVIOUS
  <2>2. RevOK(s) /\ \E S : s \in Seq(S)
    BY <1>1, <2>1 DEF DaysInv, LedInv, LedType
  <2>3. KeptSum(s) \in Nat
    <3> DEFINE f == [i \in DOMAIN s |-> KeptOf(s, i)]
               R == SaleRows(s)
    <3>1. PICK S : s \in Seq(S)
      BY <2>2
    <3>2. DOMAIN s = 1..Len(s) /\ Len(s) \in Nat
      BY <3>1
    <3>3. \A i \in R : f[i] \in Nat
      BY <2>2, <3>2, KeptNat DEF SaleRows
    <3>4. IsFiniteSet(R)
      <4>1. R \subseteq 1..Len(s)
        BY <3>2 DEF SaleRows
      <4>2. Len(s) \in Int /\ 1 \in Int
        BY <3>2
      <4> HIDE DEF R, f
      <4> QED BY <4>1, <4>2, FS_Interval, FS_Subset
    <3>5. KeptSum(s) = SumFunctionOnSet(f, R)
      BY DEF KeptSum
    <3> HIDE DEF f, R
    <3> QED BY <3>3, <3>4, <3>5, SumNat
  <2> QED BY <2>1, <2>3
<1>3. expiry' \in Int /\ day' \in Int
  BY DEF DaysType, SubsType
<1>4. RevOK(led') /\ KeptSum(led') = KeptSum(led)
  BY <1>1
<1>5. PICK k \in Int : k = KeptSum(led)
  BY <1>2
<1>a. expiry - day <= k
  BY <1>1, <1>5
<1>b. expiry \in Int /\ day \in Int
  BY <1>1
<1>c. PICK a \in Int, b \in Int, c \in Int, d \in Int : a = expiry /\ b = day /\ c = expiry' /\ d = day'
  BY <1>3, <1>b
<1>d. c - d <= a - b
  BY <1>c
<1>e. a - b <= k
  BY <1>a, <1>c
<1>f. c - d <= k
  BY <1>d, <1>e
<1>6. expiry' - day' <= k
  BY <1>c, <1>f
<1>7. expiry' - day' <= KeptSum(led')
  BY <1>4, <1>5, <1>6
<1> QED BY <1>4, <1>7 DEF DaysNow

\* A row that neither sells nor gives back, or a sale.
LEMMA DaysSold ==
    ASSUME DaysInv, NEW x, led' = led \o <<x>>, x.days \in Nat, x.rev = 0, day' = day,
           \/ expiry' = expiry
           \/ IsSale(x) /\ expiry' = (IF expiry > day THEN expiry ELSE day) + x.days
    PROVE  DaysNow /\ DOMAIN led \subseteq DOMAIN led'
<1>1. /\ RevOK(led') /\ KeptSum(led) \in Nat /\ KeptSum(led') \in Nat
      /\ KeptSum(led') >= (KeptSum(led) + (IF IsSale(x) THEN x.days ELSE 0)) - (IF x.rev # 0 THEN x.days ELSE 0)
  BY DaysAfterRow DEF DaysInv, LedInv
<1>2. expiry - day <= KeptSum(led) /\ expiry \in Int /\ day \in Int
  BY DaysPaidForIs DEF DaysInv, DaysType, SubsType
<1>3. DOMAIN led \subseteq DOMAIN led'
  <2>1. <<x>> \in Seq({x})
    OBVIOUS
  <2>2. PICK S, r : r \in Seq(S) /\ led' = led \o r
    BY <2>1
  <2> QED BY <2>2, StillThere DEF DaysInv, LedInv
<1>4. expiry' - day' <= KeptSum(led')
  <2>1. CASE IsSale(x)
    <3>1. KeptSum(led') >= KeptSum(led) + x.days
      BY <1>1, <2>1
    <3> QED BY <1>1, <1>2, <3>1
  <2>2. CASE ~IsSale(x)
    <3>1. KeptSum(led') >= KeptSum(led)
      BY <1>1, <2>2
    <3> QED BY <1>1, <1>2, <2>2, <3>1
  <2> QED BY <2>1, <2>2
<1> QED BY <1>1, <1>3, <1>4 DEF DaysNow

\* A row is given back.
LEMMA DaysReversed ==
    ASSUME DaysInv, NEW i \in DOMAIN led, RefundCore(i) \/ UndoTopupCore(i)
    PROVE  DaysNow /\ DOMAIN led \subseteq DOMAIN led' /\ expiry' \in Int /\ day' = day /\ profile' = profile
<1>0. /\ expiry - day <= KeptSum(led) /\ expiry \in Int /\ day \in Int
      /\ profile \in Profiles /\ Days[profile] \in Nat
  BY DaysPaidForIs, LedgerAssumption DEF DaysInv, DaysType, SubsType
<1>a. i # 0
  <2>1. PICK S : led \in Seq(S)
    BY DEF DaysInv, LedInv, LedType
  <2> QED BY <2>1
<1>b. ASSUME NEW x, led' = led \o <<x>> PROVE DOMAIN led \subseteq DOMAIN led'
  <2>1. <<x>> \in Seq({x})
    OBVIOUS
  <2>2. PICK S, r : r \in Seq(S) /\ led' = led \o r
    BY <1>b, <2>1
  <2> QED BY <2>2, StillThere DEF DaysInv, LedInv
<1>1. CASE RefundCore(i)
  <2> DEFINE x == Row("refund", -led[i].amt, i, Days[profile])
  <2>1. led' = led \o <<x>> /\ ~Reversed(i) /\ expiry' = RolledBack /\ day' = day /\ profile' = profile
    BY <1>1 DEF RefundCore, InsertLedger, Refundable
  <2>2. x.rev = i /\ x.days = Days[profile] /\ x.type = "refund"
    BY DEF Row
  <2>3. ~IsSale(x)
    BY <2>2 DEF IsSale
  <2> HIDE DEF x
  <2>4. /\ RevOK(led') /\ KeptSum(led) \in Nat /\ KeptSum(led') \in Nat
        /\ KeptSum(led') >= (KeptSum(led) + (IF IsSale(x) THEN x.days ELSE 0)) - (IF x.rev # 0 THEN x.days ELSE 0)
    BY <1>0, <2>1, <2>2, DaysAfterRow DEF DaysInv, LedInv
  <2>5. KeptSum(led') >= KeptSum(led) - Days[profile]
    BY <1>0, <1>a, <2>2, <2>3, <2>4
  <2>6. expiry' \in Int /\ (expiry' = day \/ expiry' = expiry - Days[profile])
    BY <1>0, <2>1 DEF RolledBack
  <2>7. expiry' - day' <= KeptSum(led')
    BY <1>0, <2>1, <2>4, <2>5, <2>6
  <2> QED BY <1>b, <2>1, <2>4, <2>6, <2>7 DEF DaysNow
<1>2. CASE UndoTopupCore(i)
  <2> DEFINE x == Row("topup", -led[i].amt, i, 0)
  <2>1. led' = led \o <<x>> /\ ~Reversed(i) /\ expiry' = expiry /\ day' = day /\ profile' = profile
    BY <1>2 DEF UndoTopupCore, InsertLedger, subsVars
  <2>2. x.rev = i /\ x.days = 0 /\ x.type = "topup"
    BY DEF Row
  <2>3. ~IsSale(x)
    BY <2>2 DEF IsSale
  <2> HIDE DEF x
  <2>4. /\ RevOK(led') /\ KeptSum(led) \in Nat /\ KeptSum(led') \in Nat
        /\ KeptSum(led') >= (KeptSum(led) + (IF IsSale(x) THEN x.days ELSE 0)) - (IF x.rev # 0 THEN x.days ELSE 0)
    BY <2>1, <2>2, DaysAfterRow DEF DaysInv, LedInv
  <2>5. KeptSum(led') >= KeptSum(led)
    BY <2>2, <2>3, <2>4
  <2>7. expiry' - day' <= KeptSum(led')
    BY <1>0, <2>1, <2>4, <2>5
  <2> QED BY <1>0, <1>b, <2>1, <2>4, <2>7 DEF DaysNow
<1> QED BY <1>1, <1>2

\* renewInTx: the renewal, and the commission it earns.
LEMMA DaysRenewed ==
    ASSUME DaysInv, NEW p \in Profiles, ChargeRenewal(p), day' = day
    PROVE  DaysNow /\ DOMAIN led \subseteq DOMAIN led' /\ Len(led) + 1 \in DOMAIN led' /\ expiry' \in Int
<1>0. /\ expiry - day <= KeptSum(led) /\ expiry \in Int /\ day \in Int
      /\ Days[p] \in Nat /\ RevOK(led)
  BY DaysPaidForIs, LedgerAssumption DEF DaysInv, DaysType, SubsType
<1>x. PICK x, y : x = Row("renewal", -Price, 0, Days[p]) /\ y = Row("commission", Commission, 0, 0)
  OBVIOUS
<1>1. x.rev = 0 /\ x.days = Days[p] /\ x.type = "renewal" /\ y.rev = 0 /\ y.days = 0 /\ y.type = "commission"
  BY <1>x DEF Row
<1>2. IsSale(x) /\ ~IsSale(y)
  BY <1>1 DEF IsSale
<1>3. led' = led \o (<<x>> \o CommissionRows) /\ (CommissionRows = <<y>> \/ CommissionRows = <<>>)
  BY <1>x DEF ChargeRenewal, InsertLedger, CommissionRows
<1>4. expiry' = (IF expiry > day THEN expiry ELSE day) + Days[p]
  BY DEF ChargeRenewal, ExtendedExpiry
<1>5. PICK S0, s, z : s = led /\ z = led' /\ s \in Seq(S0)
  BY DEF DaysInv, LedInv, LedType
<1>s. PICK S : S = S0 \union {x, y}
  OBVIOUS
<1>6. s \in Seq(S) /\ x \in S /\ y \in S
  BY <1>5, <1>s
<1>7. PICK w : w = s \o <<x>>
  OBVIOUS
<1>8. w \in Seq(S) /\ Len(w) = Len(s) + 1 /\ Len(s) \in Nat /\ DOMAIN s = 1..Len(s) /\ DOMAIN w = 1..(Len(s) + 1)
  BY <1>6, <1>7
<1>9. Stands(s, x, w)
  <2>1. RevOK(s) /\ x.days \in Nat /\ x.rev \in Nat /\ x.rev <= Len(s) /\ (x.rev # 0 => ~ReversedIn(s, x.rev))
    BY <1>0, <1>1, <1>5, <1>8
  <2> QED BY <1>6, <1>7, <2>1, StandsAppend
<1>10. RevOK(w) /\ KeptSum(w) \in Nat /\ KeptSum(w) >= KeptSum(s) + Days[p] /\ KeptSum(s) \in Nat
  BY <1>0, <1>1, <1>2, <1>9 DEF Stands
<1>11. z = w \/ z = w \o <<y>>
  <2>1. CASE CommissionRows = <<y>>
    <3>1. z = s \o (<<x>> \o <<y>>)
      BY <1>3, <1>5, <2>1
    <3>2. s \o (<<x>> \o <<y>>) = (s \o <<x>>) \o <<y>>
      BY <1>6
    <3> QED BY <1>7, <3>1, <3>2
  <2>2. CASE CommissionRows = <<>>
    <3>1. z = s \o (<<x>> \o <<>>)
      BY <1>3, <1>5, <2>2
    <3>2. <<x>> \o <<>> = <<x>>
      BY <1>6
    <3> QED BY <1>7, <3>1, <3>2
  <2> QED BY <1>3, <2>1, <2>2
<1>12. RevOK(z) /\ KeptSum(z) \in Nat /\ KeptSum(z) >= KeptSum(w) /\ DOMAIN w \subseteq DOMAIN z
  <2>1. CASE z = w
    BY <1>10, <2>1
  <2>2. CASE z = w \o <<y>>
    <3>0. RevOK(w) /\ y.days \in Nat /\ y.rev \in Nat /\ y.rev <= Len(w) /\ (y.rev # 0 => ~ReversedIn(w, y.rev))
      BY <1>1, <1>8, <1>10
    <3>1. Stands(w, y, z)
      BY <1>8, <2>2, <3>0, StandsAppend
    <3>2. RevOK(z) /\ KeptSum(z) \in Nat /\ KeptSum(z) >= KeptSum(w)
      BY <1>1, <1>2, <1>10, <3>1 DEF Stands
    <3>3. DOMAIN w \subseteq DOMAIN z
      BY <1>6, <1>8, <2>2
    <3> QED BY <3>2, <3>3
  <2> QED BY <1>11, <2>1, <2>2
<1>13. KeptSum(s) = KeptSum(led) /\ KeptSum(z) = KeptSum(led')
  BY <1>5
<1>14. expiry' - day' <= KeptSum(led')
  BY <1>0, <1>4, <1>10, <1>12, <1>13
<1>15. DOMAIN led \subseteq DOMAIN led' /\ Len(led) + 1 \in DOMAIN led'
  BY <1>5, <1>8, <1>12
<1> QED BY <1>0, <1>4, <1>5, <1>12, <1>14, <1>15 DEF DaysNow

-----------------------------------------------------------------------------
\* The references of a step that only adds rows.
LEMMA RefsKept ==
    ASSUME Refs, DOMAIN led \subseteq DOMAIN led'
    PROVE  /\ undoLog' = undoLog => LogRefs'
           /\ undoer' = undoer => UndoerRefs'
           /\ request' = request => RequestRefs'
  BY DEF Refs, LogRefs, UndoerRefs, RequestRefs

\* recordUndo is about the row that was just added.
LEMMA RecordRefs ==
    ASSUME UndoType, Refs, DOMAIN led \subseteq DOMAIN led', NEW u \in DOMAIN led', NEW kind, NEW snap,
           RecordUndo(u, kind, snap)
    PROVE  LogRefs'
<1>1. CASE undoLog' = undoLog
  BY <1>1, RefsKept
<1>2. CASE undoLog' = [undoLog EXCEPT ![u] = [kind |-> kind, snap |-> snap, st |-> "open"]]
  <2>1. PICK R : undoLog \in [Entries -> R]
    BY DEF UndoType
  <2>2. \A v \in Entries : v # u => undoLog'[v] = undoLog[v]
    BY <1>2, <2>1
  <2> QED BY <2>2 DEF Refs, LogRefs
<1> QED BY <1>1, <1>2 DEF RecordUndo

\* A row of the log keeps its kind.
LEMMA SetLogRefs ==
    ASSUME UndoType, Refs, led' = led, NEW u, NEW a, undoLog' = [undoLog EXCEPT ![u].st = a]
    PROVE  LogRefs'
<1>1. PICK X : undoLog \in [Entries -> [kind : UndoKinds, snap : X, st : UndoStates]]
  BY DEF UndoType
<1>2. \A v \in Entries : undoLog'[v].kind = undoLog[v].kind
  <2> SUFFICES ASSUME NEW v \in Entries PROVE undoLog'[v].kind = undoLog[v].kind
    OBVIOUS
  <2>1. CASE v # u
    BY <1>1, <2>1
  <2>2. CASE v = u
    <3>1. PICK q \in [kind : UndoKinds, snap : X, st : UndoStates] : q = undoLog[u]
      BY <1>1, <2>2
    <3>2. undoLog'[v] = [q EXCEPT !.st = a]
      BY <1>1, <2>2, <3>1
    <3>3. undoLog'[v].kind = q.kind
      BY <3>1, <3>2
    <3> QED BY <2>2, <3>1, <3>3
  <2> QED BY <2>1, <2>2
<1> QED BY <1>2 DEF Refs, LogRefs

\* performUndo marks the row, and names the row of the reversal.
LEMMA MarkLogRefs ==
    ASSUME UndoType, Refs, led' = led, NEW u, NEW k \in DOMAIN led, NEW o,
           undoLog' = [undoLog EXCEPT ![u].st = "undone", ![k] = o]
    PROVE  LogRefs'
<1>1. PICK X : undoLog \in [Entries -> [kind : UndoKinds, snap : X, st : UndoStates]]
  BY DEF UndoType
<1>2. \A v \in Entries : v # k => undoLog'[v].kind = undoLog[v].kind
  <2> SUFFICES ASSUME NEW v \in Entries, v # k PROVE undoLog'[v].kind = undoLog[v].kind
    OBVIOUS
  <2>1. CASE v # u
    BY <1>1, <2>1
  <2>2. CASE v = u
    <3>1. PICK q \in [kind : UndoKinds, snap : X, st : UndoStates] : q = undoLog[u]
      BY <1>1, <2>2
    <3>2. undoLog'[v] = [q EXCEPT !.st = "undone"]
      BY <1>1, <2>2, <3>1
    <3>3. undoLog'[v].kind = q.kind
      BY <3>1, <3>2
    <3> QED BY <2>2, <3>1, <3>3
  <2> QED BY <2>1, <2>2
<1> QED BY <1>2 DEF Refs, LogRefs

\* A request of performUndo.
LEMMA SetUndoerRefs ==
    ASSUME UndoerType, Refs, led' = led, NEW p \in Undoers, NEW w, undoer' = [undoer EXCEPT ![p] = w],
           w.at # "idle" => w.u \in DOMAIN led
    PROVE  UndoerRefs'
<1>1. PICK R : undoer \in [Undoers -> R]
  BY DEF UndoerType
<1>2. undoer'[p] = w /\ \A v \in Undoers : v # p => undoer'[v] = undoer[v]
  BY <1>1
<1> QED BY <1>2 DEF Refs, UndoerRefs

\* A request keeps its row.
LEMMA MoveUndoerRefs ==
    ASSUME UndoerType, Refs, DOMAIN led \subseteq DOMAIN led', NEW p \in Undoers, NEW a,
           undoer' = [undoer EXCEPT ![p].at = a], undoer[p].at # "idle"
    PROVE  UndoerRefs'
<1>1. PICK X : undoer \in [Undoers -> [at : UndoSteps, u : X]]
  BY DEF UndoerType
<1>2. \A v \in Undoers : undoer'[v].u = undoer[v].u /\ (v # p => undoer'[v].at = undoer[v].at)
  <2> SUFFICES ASSUME NEW v \in Undoers
               PROVE  undoer'[v].u = undoer[v].u /\ (v # p => undoer'[v].at = undoer[v].at)
    OBVIOUS
  <2>1. CASE v # p
    BY <1>1, <2>1
  <2>2. CASE v = p
    <3>1. PICK q \in [at : UndoSteps, u : X] : q = undoer[p]
      BY <1>1
    <3>2. undoer'[v] = [q EXCEPT !.at = a]
      BY <1>1, <2>2, <3>1
    <3>3. undoer'[v].u = q.u
      BY <3>1, <3>2
    <3> QED BY <2>2, <3>1, <3>3
  <2> QED BY <2>1, <2>2
<1> QED BY <1>2 DEF Refs, UndoerRefs

\* An approval request.
LEMMA SetRequestRefs ==
    ASSUME ReqType, Refs, led' = led, NEW q \in Requests, NEW u \in DOMAIN led,
           request' = [request EXCEPT ![q] = [st |-> "pending", u |-> u]]
    PROVE  RequestRefs' /\ ReqType'
<1>1. PICK X : request \in [Requests -> [st : RequestStates, u : X]]
  BY DEF ReqType
<1>2. PICK Y : Y = X \union {u}
  OBVIOUS
<1>3. PICK w : w = [st |-> "pending", u |-> u]
  OBVIOUS
<1>4. PICK R : R = [st : RequestStates, u : Y]
  OBVIOUS
<1>5. w \in R /\ w.u = u
  <2>1. u \in Y /\ "pending" \in RequestStates
    BY <1>2 DEF RequestStates
  <2> QED BY <1>3, <1>4, <2>1
<1>6. request \in [Requests -> R]
  <2>1. \A v \in Requests : request[v] \in R
    BY <1>1, <1>2, <1>4
  <2> QED BY <1>1, <2>1
<1>7. request' \in [Requests -> R] /\ request'[q] = w /\ \A v \in Requests : v # q => request'[v] = request[v]
  BY <1>3, <1>5, <1>6
<1>8. ReqType'
  BY <1>4, <1>7 DEF ReqType
<1>9. RequestRefs'
  BY <1>5, <1>7 DEF Refs, RequestRefs
<1> QED BY <1>8, <1>9

\* A decided request asks for no row.
LEMMA MoveRequestRefs ==
    ASSUME ReqType, Refs, led' = led, NEW q \in Requests, NEW a \in RequestStates, a # "pending",
           request' = [request EXCEPT ![q].st = a]
    PROVE  RequestRefs' /\ ReqType'
<1>1. PICK X : request \in [Requests -> [st : RequestStates, u : X]]
  BY DEF ReqType
<1>2. PICK R : R = [st : RequestStates, u : X]
  OBVIOUS
<1>3. PICK o \in R : o = request[q]
  BY <1>1, <1>2
<1>4. PICK w : w = [o EXCEPT !.st = a]
  OBVIOUS
<1>5. w \in R /\ w.st = a
  BY <1>2, <1>3, <1>4
<1>6. request' \in [Requests -> R] /\ request'[q] = w /\ \A v \in Requests : v # q => request'[v] = request[v]
  BY <1>1, <1>2, <1>3, <1>4, <1>5
<1>7. ReqType'
  BY <1>2, <1>6 DEF ReqType
<1>8. RequestRefs'
  BY <1>5, <1>6 DEF Refs, RequestRefs
<1> QED BY <1>7, <1>8

\* The batch rests.
LEMMA BatchKept ==
    ASSUME BatchType PROVE batch' = batch => BatchType'
  BY DEF BatchType

\* The batch is written.
LEMMA BatchSet ==
    ASSUME NEW p \in Profiles, NEW a, batch' = [st |-> a, profile |-> p] PROVE BatchType'
<1>1. PICK X : X = {a}
  OBVIOUS
<1>2. a \in X
  BY <1>1
<1>3. batch' \in [st : X, profile : Profiles]
  BY <1>2
<1> QED BY <1>3 DEF BatchType

\* A step that changes neither the money nor the subscriber.
LEMMA DaysUndoStep ==
    ASSUME DaysInv, LedInv', led' = led, UNCHANGED <<subsVars, batch>>, ReqType',
           LogRefs', UndoerRefs', RequestRefs'
    PROVE  DaysInv'
<1>1. DaysType'
  BY BatchKept DEF DaysInv, DaysType, SubsType, subsVars
<1>2. DaysNow
  <2>1. expiry' - day' <= expiry - day
    BY DEF DaysInv, DaysType, SubsType, subsVars
  <2> QED BY <1>1, <2>1, DaysQuiet
<1> QED BY <1>1, <1>2, DaysGoal

\* A step that adds one row and touches no undo request.
LEMMA DaysRowStep ==
    ASSUME DaysInv, LedInv', BatchType', UNCHANGED <<day, undoer, request>>, profile' \in Profiles,
           NEW x, led' = led \o <<x>>, x.days \in Nat, x.rev = 0, LogRefs' \/ UNCHANGED undoLog,
           \/ expiry' = expiry
           \/ IsSale(x) /\ expiry' = (IF expiry > day THEN expiry ELSE day) + x.days
    PROVE  DaysInv'
<1>1. DaysNow /\ DOMAIN led \subseteq DOMAIN led'
  BY DaysSold
<1>2. DaysType'
  <2>1. expiry' \in Int /\ day' \in Int
    BY DEF DaysInv, DaysType, SubsType
  <2>2. ReqType'
    BY DEF DaysInv, DaysType, ReqType
  <2> QED BY <2>1, <2>2 DEF DaysType, SubsType
<1>3. LogRefs' /\ UndoerRefs' /\ RequestRefs'
  BY <1>1, RefsKept DEF DaysInv
<1> QED BY <1>1, <1>2, <1>3, DaysGoal

\* Every step keeps the invariant.
LEMMA DaysStep ==
    ASSUME DaysInv, [LedgerNext]_ledgerVars
    PROVE  DaysInv'
<1>0. /\ LedInv' /\ LedInv /\ UndoType /\ UndoerType /\ Refs /\ DaysType /\ BatchType /\ ReqType /\ SubsType
      /\ \A p \in Profiles : Days[p] \in Nat
  BY LedgerStep, LedgerAssumption DEF DaysInv, LedInv, DaysType
<1>r. /\ led' = led => DOMAIN led \subseteq DOMAIN led'
      /\ request' = request => ReqType'
  BY <1>0 DEF ReqType
<1>1. ASSUME NEW p \in Profiles, RenewHandler(p) PROVE DaysInv'
  <2>1. /\ ChargeRenewal(p) /\ RecordUndo(Len(led) + 1, "renewal", expiry')
        /\ day' = day /\ undoer' = undoer /\ request' = request /\ batch' = batch /\ profile' = p
    BY <1>1 DEF RenewHandler, codeVars, ChargeRenewal
  <2>2. DaysNow /\ DOMAIN led \subseteq DOMAIN led' /\ Len(led) + 1 \in DOMAIN led' /\ expiry' \in Int
    BY <2>1, DaysRenewed
  <2>3. LogRefs'
    BY <1>0, <2>1, <2>2, RecordRefs
  <2>4. DaysType'
    BY <1>0, <2>1, <2>2, <1>r, BatchKept DEF DaysType, SubsType
  <2> QED BY <1>0, <2>1, <2>2, <2>3, <2>4, RefsKept, DaysGoal
<1>2. CASE TopupHandler
  <2>1. PICK x : x = Row("topup", TopupAmount, 0, 0)
    OBVIOUS
  <2>2. x.days = 0 /\ x.rev = 0
    BY <2>1 DEF Row
  <2>3. /\ led' = led \o <<x>> /\ UNCHANGED <<subsVars, codeVars, undoer, request>>
        /\ RecordUndo(Len(led) + 1, "topup", 0)
    BY <1>2, <2>1 DEF TopupHandler, InsertLedger
  <2>4. DOMAIN led \subseteq DOMAIN led' /\ Len(led) + 1 \in DOMAIN led'
    <3>1. <<x>> \in Seq({x}) /\ Len(<<x>>) = 1
      OBVIOUS
    <3>2. PICK S, r : r \in Seq(S) /\ led' = led \o r /\ Len(r) = 1
      BY <2>3, <3>1
    <3>3. DOMAIN led \subseteq DOMAIN led' /\ DOMAIN led' = 1..(Len(led) + Len(r)) /\ Len(led) \in Nat
      BY <1>0, <3>2, StillThere DEF LedInv
    <3> QED BY <3>2, <3>3
  <2>5. LogRefs'
    BY <1>0, <2>3, <2>4, RecordRefs
  <2>6. BatchType' /\ profile' \in Profiles /\ UNCHANGED <<day, undoer, request>> /\ expiry' = expiry
    BY <1>0, <2>3, BatchKept DEF SubsType, subsVars, codeVars
  <2> QED BY <1>0, <2>2, <2>3, <2>5, <2>6, DaysRowStep
<1>3. CASE InvoiceBatch
  <2>1. PICK x : x = Row("adjustment", -Price, 0, 0)
    OBVIOUS
  <2>2. x.days = 0 /\ x.rev = 0
    BY <2>1 DEF Row
  <2>3. led' = led \o <<x>> /\ UNCHANGED <<subsVars, wallet, codeVars, undoVars>>
    BY <1>3, <2>1 DEF InvoiceBatch, InsertLedger
  <2>4. BatchType' /\ profile' \in Profiles /\ UNCHANGED <<day, undoer, request, undoLog>> /\ expiry' = expiry
    BY <1>0, <2>3, BatchKept DEF SubsType, subsVars, codeVars, undoVars
  <2> QED BY <1>0, <2>2, <2>3, <2>4, DaysRowStep
<1>4. ASSUME NEW p \in Profiles, CreateBatchHandler(p) PROVE DaysInv'
  <2>1. PICK x : x = Row("voucher", -(Price * Cardinality(Vouchers)), 0, 0)
    OBVIOUS
  <2>2. x.days = 0 /\ x.rev = 0
    BY <2>1 DEF Row
  <2>3. led' = led \o <<x>> /\ UNCHANGED <<subsVars, undoVars>> /\ batch' = [st |-> "active", profile |-> p]
    BY <1>4, <2>1 DEF CreateBatchHandler, GenerateBatch, InsertLedger
  <2>4. BatchType' /\ profile' \in Profiles /\ UNCHANGED <<day, undoer, request, undoLog>> /\ expiry' = expiry
    BY <1>0, <2>3, BatchSet DEF SubsType, subsVars, undoVars
  <2> QED BY <1>0, <2>2, <2>3, <2>4, DaysRowStep
<1>5. CASE VoidBatchHandler
  <2>1. PICK x : x = Row("voucher", Price * Cardinality({v \in Vouchers : voucher[v] = "unused"}), 0, 0)
    OBVIOUS
  <2>2. x.days = 0 /\ x.rev = 0
    BY <2>1 DEF Row
  <2>3. /\ led' = led \/ led' = led \o <<x>>
        /\ UNCHANGED <<subsVars, undoVars>> /\ batch' = [batch EXCEPT !.st = "void"]
    BY <1>5, <2>1 DEF VoidBatchHandler, InsertLedger
  <2>4. BatchType'
    <3>1. PICK X : batch \in [st : X, profile : Profiles]
      BY <1>0 DEF BatchType
    <3>2. PICK b \in [st : X, profile : Profiles] : b = batch
      BY <3>1
    <3>3. [b EXCEPT !.st = "void"] = [st |-> "void", profile |-> b.profile] /\ b.profile \in Profiles
      BY <3>2
    <3>4. PICK p \in Profiles : batch' = [st |-> "void", profile |-> p]
      BY <2>3, <3>2, <3>3
    <3> QED BY <3>4, BatchSet
  <2>5. profile' \in Profiles /\ UNCHANGED <<day, undoer, request, undoLog>> /\ expiry' = expiry
    BY <1>0, <2>3 DEF SubsType, subsVars, undoVars
  <2>6. CASE led' = led
    <3>1. DaysType'
      BY <1>0, <1>r, <2>4, <2>5 DEF DaysType, SubsType
    <3>2. expiry' - day' <= expiry - day
      BY <1>0, <2>5 DEF SubsType
    <3>3. DaysNow
      BY <2>6, <3>1, <3>2, DaysQuiet
    <3> QED BY <1>0, <1>r, <2>5, <2>6, <3>1, <3>3, RefsKept, DaysGoal
  <2>7. CASE led' = led \o <<x>>
    BY <1>0, <2>2, <2>4, <2>5, <2>7, DaysRowStep
  <2> QED BY <2>3, <2>6, <2>7
<1>6. CASE DayPasses
  <2>1. /\ day' = day + 1 /\ UNCHANGED <<expiry, profile>> /\ led' = led /\ batch' = batch
        /\ undoLog' = undoLog /\ undoer' = undoer /\ request' = request
    BY <1>6 DEF DayPasses, moneyVars, codeVars, undoVars
  <2>2. DaysType' /\ expiry' - day' <= expiry - day
    BY <1>0, <1>r, <2>1, BatchKept DEF DaysType, SubsType
  <2>3. DaysNow
    BY <2>1, <2>2, DaysQuiet
  <2> QED BY <1>0, <1>r, <2>1, <2>2, <2>3, RefsKept, DaysGoal
<1>q. ASSUME led' = led, UNCHANGED <<subsVars, batch, undoVars>> PROVE DaysInv'
  BY <1>0, <1>q, <1>r, RefsKept, DaysUndoStep DEF undoVars
<1>7. ASSUME NEW r \in Redeemers, NEW v \in Vouchers, RedeemStart(r, v) PROVE DaysInv'
  BY <1>7, <1>q DEF RedeemStart, moneyVars
<1>8. ASSUME NEW r \in Redeemers, RedeemHandler(r) PROVE DaysInv'
  <2>1. UNCHANGED <<day, batch, undoVars>> /\ (RedeemVoucher(r) \/ UNCHANGED <<led, expiry, profile, voucher>>)
    BY <1>8 DEF RedeemHandler
  <2>2. CASE UNCHANGED <<led, expiry, profile, voucher>>
    BY <1>q, <2>1, <2>2 DEF subsVars
  <2>3. CASE RedeemVoucher(r)
    <3>1. PICK p \in Profiles : p = batch.profile
      BY <1>0 DEF BatchType
    <3>2. PICK x : x = Row("voucher_redeem", 0, 0, Days[p])
      OBVIOUS
    <3>3. x.days = Days[p] /\ x.rev = 0 /\ x.type = "voucher_redeem"
      BY <3>2 DEF Row
    <3>4. led' = led \o <<x>> /\ expiry' = ExtendedExpiry(p) /\ profile' = p
      BY <2>3, <3>1, <3>2 DEF RedeemVoucher, InsertLedger
    <3>5. IsSale(x) /\ expiry' = (IF expiry > day THEN expiry ELSE day) + x.days /\ x.days \in Nat
      BY <1>0, <3>3, <3>4 DEF IsSale, ExtendedExpiry
    <3>6. BatchType' /\ UNCHANGED <<day, undoer, request, undoLog>> /\ profile' \in Profiles
      BY <1>0, <2>1, <3>4, BatchKept DEF undoVars
    <3> QED BY <1>0, <3>3, <3>4, <3>5, <3>6, DaysRowStep
  <2> QED BY <2>1, <2>2, <2>3
<1>g. ASSUME NEW i \in DOMAIN led, RefundCore(i) \/ UndoTopupCore(i), UNCHANGED <<codeVars, undoLog, request>>,
             UNCHANGED undoer \/ UndoerRefs'
      PROVE  DaysInv'
  <2>1. DaysNow /\ DOMAIN led \subseteq DOMAIN led' /\ expiry' \in Int /\ day' = day /\ profile' = profile
    BY <1>g, DaysReversed
  <2>2. batch' = batch /\ undoLog' = undoLog /\ request' = request
    BY <1>g DEF codeVars
  <2>3. DaysType'
    BY <1>0, <1>r, <2>1, <2>2, BatchKept DEF DaysType, SubsType
  <2>4. LogRefs' /\ UndoerRefs' /\ RequestRefs'
    BY <1>0, <1>g, <2>1, <2>2, RefsKept
  <2> QED BY <1>0, <2>1, <2>3, <2>4, DaysGoal
<1>9. ASSUME NEW i \in Entries, RefundHandler(i) PROVE DaysInv'
  BY <1>9, <1>g DEF RefundHandler, undoVars
<1>10. ASSUME NEW u \in Entries, WindowCloses(u) PROVE DaysInv'
  <2>1. UNCHANGED <<subsVars, moneyVars, codeVars, undoer, request>> /\ undoLog' = [undoLog EXCEPT ![u].st = "closed"]
    BY <1>10 DEF WindowCloses
  <2>2. led' = led /\ UNCHANGED <<subsVars, batch>> /\ undoer' = undoer /\ request' = request
    BY <2>1 DEF moneyVars, codeVars
  <2>3. LogRefs'
    BY <1>0, <2>1, <2>2, SetLogRefs
  <2> QED BY <1>0, <1>r, <2>2, <2>3, RefsKept, DaysUndoStep
<1>u. ASSUME led' = led, UNCHANGED <<subsVars, batch, undoLog, request>>, UndoerRefs' PROVE DaysInv'
  BY <1>0, <1>r, <1>u, RefsKept, DaysUndoStep
<1>i. ASSUME NEW p \in Undoers, Leave(p), led' = led PROVE UndoerRefs'
  <2>1. PICK w : w = IdleUndo
    OBVIOUS
  <2>2. undoer' = [undoer EXCEPT ![p] = w] /\ w.at = "idle"
    BY <1>i, <2>1 DEF Leave, IdleUndo
  <2> QED BY <1>0, <1>i, <2>2, SetUndoerRefs
<1>11. ASSUME NEW p \in Undoers, UndoCheck(p) PROVE DaysInv'
  <2>1. led' = led /\ UNCHANGED <<subsVars, batch, undoLog, request>> /\ (Goto(p, "reverse") \/ Leave(p)) /\ undoer[p].at # "idle"
    BY <1>11 DEF UndoCheck, moneyVars, codeVars
  <2>2. CASE Goto(p, "reverse")
    <3>1. UndoerRefs'
      BY <1>0, <1>r, <2>1, <2>2, MoveUndoerRefs DEF Goto
    <3> QED BY <1>u, <2>1, <3>1
  <2>3. CASE Leave(p)
    BY <1>i, <1>u, <2>1, <2>3
  <2> QED BY <2>1, <2>2, <2>3
<1>12. ASSUME NEW p \in Undoers, UndoReverse(p) PROVE DaysInv'
  <2>1. undoer[p].at = "reverse" /\ UNCHANGED <<codeVars, undoLog, request>> /\ undoer' = [undoer EXCEPT ![p].at = "mark"]
    BY <1>12 DEF UndoReverse
  <2>2. PICK i \in DOMAIN led : i = undoer[p].u
    BY <1>0, <2>1 DEF Refs, UndoerRefs
  <2>3. RefundCore(i) \/ UndoTopupCore(i)
    BY <1>12, <2>2 DEF UndoReverse
  <2>4. DOMAIN led \subseteq DOMAIN led'
    BY <2>3, DaysReversed
  <2>5. UndoerRefs'
    BY <1>0, <2>1, <2>4, MoveUndoerRefs
  <2> QED BY <1>g, <2>1, <2>3, <2>5
<1>13. ASSUME NEW p \in Undoers, UndoLeaves(p) PROVE DaysInv'
  <2>1. led' = led /\ UNCHANGED <<subsVars, batch, undoLog, request>> /\ Leave(p)
    BY <1>13 DEF UndoLeaves, moneyVars, codeVars
  <2> QED BY <1>i, <1>u, <2>1
<1>14. ASSUME NEW p \in Undoers, UndoMark(p) PROVE DaysInv'
  <2>1. PICK u, k : u = undoer[p].u /\ k = CHOOSE j \in DOMAIN led : led[j].rev = u
    OBVIOUS
  <2>2. /\ undoer[p].at = "mark" /\ Leave(p) /\ led' = led /\ UNCHANGED <<subsVars, batch, request>>
        /\ \/ undoLog' = [undoLog EXCEPT ![u].st = "undone", ![k] = [kind |-> "undo_reversal", snap |-> 0, st |-> "open"]]
           \/ undoLog' = [undoLog EXCEPT ![u].st = "undone"]
    BY <1>14, <2>1 DEF UndoMark, moneyVars, codeVars
  <2>3. k \in DOMAIN led
    BY <1>0, <2>1, <2>2 DEF LedInv, MarksReversed, Reversed
  <2>4. LogRefs'
    BY <1>0, <2>2, <2>3, MarkLogRefs, SetLogRefs
  <2> QED BY <1>0, <1>i, <1>r, <2>2, <2>4, RefsKept, DaysUndoStep
<1>15. ASSUME NEW p \in Undoers, NEW u \in Entries, UndoNow(p, u) PROVE DaysInv'
  <2>1. PICK w : w = [at |-> "check", u |-> u]
    OBVIOUS
  <2>2. /\ led' = led /\ UNCHANGED <<subsVars, batch, undoLog, request>> /\ undoer' = [undoer EXCEPT ![p] = w]
        /\ undoLog[u].kind # "none"
    BY <1>15, <2>1 DEF UndoNow, moneyVars, codeVars
  <2>3. w.u \in DOMAIN led
    BY <1>0, <2>1, <2>2 DEF Refs, LogRefs
  <2>4. UndoerRefs'
    BY <1>0, <2>2, <2>3, SetUndoerRefs
  <2> QED BY <1>u, <2>2, <2>4
<1>16. ASSUME NEW p \in Undoers, NEW q \in Requests, ApproveRequest(q, p) PROVE DaysInv'
  <2>1. PICK w : w = [at |-> "check", u |-> request[q].u]
    OBVIOUS
  <2>2. /\ led' = led /\ UNCHANGED <<subsVars, batch, undoLog>> /\ undoer' = [undoer EXCEPT ![p] = w]
        /\ request[q].st = "pending" /\ request' = [request EXCEPT ![q].st = "approved"]
    BY <1>16, <2>1 DEF ApproveRequest, moneyVars, codeVars
  <2>3. w.u \in DOMAIN led
    BY <1>0, <2>1, <2>2 DEF Refs, RequestRefs
  <2>4. UndoerRefs'
    BY <1>0, <2>2, <2>3, SetUndoerRefs
  <2>5. "approved" \in RequestStates /\ "approved" # "pending"
    BY DEF RequestStates
  <2>6. RequestRefs' /\ ReqType'
    BY <1>0, <2>2, <2>5, MoveRequestRefs
  <2> QED BY <1>0, <1>r, <2>2, <2>4, <2>6, RefsKept, DaysUndoStep
<1>m. ASSUME NEW q \in Requests, NEW a \in {"rejected", "withdrawn"}, request' = [request EXCEPT ![q].st = a],
             led' = led, UNCHANGED <<subsVars, batch, undoLog, undoer>>
      PROVE  DaysInv'
  <2>1. a \in RequestStates /\ a # "pending"
    BY DEF RequestStates
  <2>2. RequestRefs' /\ ReqType'
    BY <1>0, <1>m, <2>1, MoveRequestRefs
  <2> QED BY <1>0, <1>m, <1>r, <2>2, RefsKept, DaysUndoStep
<1>17. ASSUME NEW q \in Requests, RejectRequest(q) \/ WithdrawRequest(q) PROVE DaysInv'
  <2>1. \E a \in {"rejected", "withdrawn"} : request' = [request EXCEPT ![q].st = a]
    BY <1>17 DEF RejectRequest, WithdrawRequest
  <2>2. led' = led /\ UNCHANGED <<subsVars, batch, undoLog, undoer>>
    BY <1>17 DEF RejectRequest, WithdrawRequest, moneyVars, codeVars
  <2> QED BY <1>m, <2>1, <2>2
<1>18. ASSUME NEW q \in Requests, NEW u \in Entries, RequestUndo(q, u) PROVE DaysInv'
  <2>1. /\ led' = led /\ UNCHANGED <<subsVars, batch, undoLog, undoer>> /\ undoLog[u].kind # "none"
        /\ request' = [request EXCEPT ![q] = [st |-> "pending", u |-> u]]
    BY <1>18 DEF RequestUndo, moneyVars, codeVars
  <2>2. u \in DOMAIN led
    BY <1>0, <2>1 DEF Refs, LogRefs
  <2>3. RequestRefs' /\ ReqType'
    BY <1>0, <2>1, <2>2, SetRequestRefs
  <2> QED BY <1>0, <1>r, <2>1, <2>3, RefsKept, DaysUndoStep
<1>19. CASE UNCHANGED ledgerVars
  BY <1>q, <1>19 DEF ledgerVars, moneyVars, codeVars
<1> QED BY <1>1, <1>2, <1>3, <1>4, <1>5, <1>6, <1>7, <1>8, <1>9, <1>10, <1>11, <1>12, <1>13, <1>14, <1>15,
           <1>16, <1>17, <1>18, <1>19 DEF LedgerNext

\* The subscriber never has more days than the sales that stand have paid for,
\* for any mix of renewals, vouchers, refunds, undos and changes of profile
\* (computeExpiry and rollbackExpiry of billing/renew.go and refund.go).
THEOREM DaysCorrect == LedgerSpec => []DaysPaidFor
<1>1. LedgerInit => DaysInv
  <2> SUFFICES ASSUME LedgerInit PROVE DaysInv
    OBVIOUS
  <2>1. LedInv
    BY LedgerInitial
  <2>2. DaysType
    <3>1. SubsType
      BY DEF LedgerInit, SubsType
    <3>2. BatchType
      <4>1. batch = [st |-> "none", profile |-> profile] /\ profile \in Profiles
        BY DEF LedgerInit
      <4>2. batch \in [st : {"none"}, profile : Profiles]
        BY <4>1
      <4> QED BY <4>2 DEF BatchType
    <3>3. ReqType
      <4>1. NoRequest \in [st : RequestStates, u : {0}]
        BY DEF NoRequest, RequestStates
      <4>2. request \in [Requests -> [st : RequestStates, u : {0}]]
        BY <4>1 DEF LedgerInit
      <4> QED BY <4>2 DEF ReqType
    <3> QED BY <3>1, <3>2, <3>3 DEF DaysType
  <2>3. led = <<>> /\ expiry = 0 /\ day = 0
    BY DEF LedgerInit
  <2>4. RevOK(led)
    BY <2>3 DEF RevOK
  <2>5. Refs
    BY DEF LedgerInit, Refs, LogRefs, UndoerRefs, RequestRefs, NoUndo, IdleUndo, NoRequest
  <2>6. DaysPaidFor
    <3>1. PICK s : s = led
      OBVIOUS
    <3>2. SaleRows(s) = {}
      BY <2>3, <3>1 DEF SaleRows
    <3>3. KeptSum(s) = 0
      <4>1. PICK f : f = [i \in DOMAIN s |-> KeptOf(s, i)]
        OBVIOUS
      <4>2. KeptSum(s) = SumFunctionOnSet(f, {})
        BY <3>2, <4>1 DEF KeptSum
      <4> QED BY <4>2, SumEmpty
    <3>4. KeptSum(led) = 0
      BY <3>1, <3>3
    <3> QED BY <2>3, <3>4, DaysPaidForIs
  <2> QED BY <2>1, <2>2, <2>4, <2>5, <2>6 DEF DaysInv
<1>2. DaysInv /\ [LedgerNext]_ledgerVars => DaysInv'
  BY DaysStep
<1>3. DaysInv => DaysPaidFor
  BY DEF DaysInv
<1> QED BY <1>1, <1>2, <1>3, PTL DEF LedgerSpec

-----------------------------------------------------------------------------
(* The codes that were paid for.                                           *)

\* The rows of a type are finitely many.
LEMMA RowsOfFinite == ASSUME NEW S, NEW s \in Seq(S), NEW t PROVE IsFiniteSet(RowsOf(t, s)) /\ RowsOf(t, s) \subseteq 1..Len(s)
<1>1. RowsOf(t, s) \subseteq 1..Len(s) /\ Len(s) \in Nat
  BY DEF RowsOf
<1>2. IsFiniteSet(1..Len(s))
  BY <1>1, FS_Interval
<1> QED BY <1>1, <1>2, FS_Subset

\* What one more row changes.
OneMore(s, x, z) ==
    /\ \A t : RowsOf(t, z) = RowsOf(t, s) \union (IF x.type = t THEN {Len(s) + 1} ELSE {})
    /\ \A t : Len(s) + 1 \notin RowsOf(t, s)
    /\ \A i \in RowsOf("voucher", z) : z[i].amt \in Int
    /\ VoucherSum(s) \in Int
    /\ VoucherSum(z) = VoucherSum(s) + (IF x.type = "voucher" THEN x.amt ELSE 0)

\* The rows of a type, and the sum of the voucher rows, after one more row.
LEMMA RowsAppend ==
    ASSUME NEW S, NEW s \in Seq(S), NEW x, NEW z, z = s \o <<x>>, \A i \in RowsOf("voucher", s) : s[i].amt \in Int,
           x.type = "voucher" => x.amt \in Int
    PROVE  OneMore(s, x, z)
<1> DEFINE U == S \union {x}
<1>1. s \in Seq(U) /\ x \in U
  OBVIOUS
<1> HIDE DEF U
<1>2. z \in Seq(U) /\ Len(z) = Len(s) + 1 /\ Len(s) \in Nat /\ z[Len(s) + 1] = x
      /\ \A i \in 1..Len(s) : z[i] = s[i]
  BY <1>1
<1>3. \A t : RowsOf(t, z) = RowsOf(t, s) \union (IF x.type = t THEN {Len(s) + 1} ELSE {})
  <2> SUFFICES ASSUME NEW t PROVE RowsOf(t, z) = RowsOf(t, s) \union (IF x.type = t THEN {Len(s) + 1} ELSE {})
    OBVIOUS
  <2>1. DOMAIN z = 1..(Len(s) + 1) /\ DOMAIN s = 1..Len(s)
    BY <1>1, <1>2
  <2>2. \A i : i \in 1..(Len(s) + 1) <=> i \in 1..Len(s) \/ i = Len(s) + 1
    BY <1>2
  <2> QED BY <1>2, <2>1, <2>2 DEF RowsOf
<1>4. \A t : Len(s) + 1 \notin RowsOf(t, s)
  BY <1>2 DEF RowsOf
<1>5. \A i \in RowsOf("voucher", z) : z[i].amt \in Int
  BY <1>2, <1>3, RowsOfFinite
<1> DEFINE f == [i \in DOMAIN s |-> s[i].amt]
           g == [i \in DOMAIN z |-> z[i].amt]
           R == RowsOf("voucher", s)
<1>6. \A i \in R : f[i] = g[i] /\ f[i] \in Int
  BY <1>1, <1>2 DEF RowsOf
<1>7. IsFiniteSet(R)
  BY RowsOfFinite
<1>8. x.type = "voucher" => g[Len(s) + 1] = x.amt
  BY <1>2
<1>9. VoucherSum(s) = SumFunctionOnSet(f, R) /\ VoucherSum(z) = SumFunctionOnSet(g, RowsOf("voucher", z))
  BY DEF VoucherSum
<1>10. Len(s) + 1 \notin R
  BY <1>4
<1> HIDE DEF f, g, R
<1>11. SumFunctionOnSet(g, R) = SumFunctionOnSet(f, R) /\ SumFunctionOnSet(f, R) \in Int
  BY <1>6, <1>7, SumSame, SumType
<1>12. CASE x.type = "voucher"
  <2>1. RowsOf("voucher", z) = R \union {Len(s) + 1}
    BY <1>3, <1>12 DEF R
  <2>2. \A y \in R \union {Len(s) + 1} : g[y] \in Int
    BY <1>6, <1>8, <1>12
  <2>3. SumFunctionOnSet(g, R \union {Len(s) + 1}) = SumFunctionOnSet(g, R) + g[Len(s) + 1]
    BY <1>7, <1>10, <2>2, SumAdd
  <2> QED BY <1>3, <1>4, <1>5, <1>8, <1>9, <1>11, <1>12, <2>1, <2>3 DEF OneMore
<1>13. CASE x.type # "voucher"
  <2>1. RowsOf("voucher", z) = R
    BY <1>3, <1>13 DEF R
  <2> QED BY <1>3, <1>4, <1>5, <1>9, <1>11, <1>13, <2>1 DEF OneMore
<1> QED BY <1>12, <1>13 DEF OneMore

-----------------------------------------------------------------------------
VoucherStates == {"absent", "unused", "used", "void"}
VoucherType ==
    /\ LedType /\ \A i \in RowsOf("voucher", led) : led[i].amt \in Int
    /\ voucher \in [Vouchers -> VoucherStates]
    /\ \E X : batch \in [st : {"none", "active", "void"}, profile : X]
    /\ \E X, Y : redeem \in [Redeemers -> [v : X, batch : Y]]

\* A code a request waits for was printed, and before the batch there is none.
CodesPrinted ==
    /\ batch.st = "none" => \A v \in Vouchers : voucher[v] = "absent"
    /\ \A r \in Redeemers : redeem[r].v # "none" => redeem[r].v \in Vouchers /\ voucher[redeem[r].v] # "absent"

VchInv == VoucherType /\ CodesPrinted /\ VoucherConserved

Good == {v \in Vouchers : voucher[v] \in {"unused", "used"}}
Used == {v \in Vouchers : voucher[v] = "used"}

\* The codes in a state are finitely many.
LEMMA CodesFinite ==
    ASSUME NEW T \in SUBSET Vouchers PROVE IsFiniteSet(T) /\ Cardinality(T) \in Nat
  BY LedgerAssumption, FS_Subset, FS_CardinalityType

\* A step that sells no codes and redeems none.
LEMMA NoCodes ==
    ASSUME VchInv, UNCHANGED <<voucher, batch>>, NEW S, NEW rows \in Seq(S), led' = led \o rows,
           \A k \in 1..Len(rows) : rows[k].type \notin {"voucher", "voucher_redeem"},
           redeem' = redeem \/ \E r \in Redeemers : redeem' = [redeem EXCEPT ![r] = NoRedeem]
    PROVE  VchInv'
<1>1. /\ LedType' /\ Len(led) \in Nat /\ Len(rows) \in Nat
      /\ DOMAIN led = 1..Len(led) /\ DOMAIN led' = 1..(Len(led) + Len(rows))
      /\ \A k \in 1..Len(led) : led'[k] = led[k]
      /\ \A k \in 1..Len(rows) : led'[Len(led) + k] = rows[k]
  BY Appended DEF VchInv, VoucherType
<1>2. \A i \in DOMAIN led' : i \in DOMAIN led \/ led'[i].type \notin {"voucher", "voucher_redeem"}
  <2> SUFFICES ASSUME NEW i \in DOMAIN led', i \notin DOMAIN led
               PROVE  led'[i].type \notin {"voucher", "voucher_redeem"}
    OBVIOUS
  <2>1. i - Len(led) \in 1..Len(rows) /\ Len(led) + (i - Len(led)) = i
    BY <1>1
  <2> QED BY <1>1, <2>1
<1>3. RowsOf("voucher", led') = RowsOf("voucher", led) /\ RowsOf("voucher_redeem", led') = RowsOf("voucher_redeem", led)
  BY <1>1, <1>2 DEF RowsOf
<1>4. \A i \in RowsOf("voucher", led) : led'[i] = led[i] /\ i \in DOMAIN led /\ i \in DOMAIN led'
  BY <1>1, <1>3 DEF RowsOf
<1>5. VoucherSum(led') = VoucherSum(led)
  <2>1. PICK f, g, R : /\ f = [i \in DOMAIN led |-> led[i].amt] /\ g = [i \in DOMAIN led' |-> led'[i].amt]
                       /\ R = RowsOf("voucher", led)
    OBVIOUS
  <2>2. \A i \in R : f[i] = g[i]
    BY <1>4, <2>1
  <2>3. IsFiniteSet(R)
    BY <2>1, RowsOfFinite DEF VchInv, VoucherType, LedType
  <2>4. SumFunctionOnSet(f, R) = SumFunctionOnSet(g, R)
    BY <2>2, <2>3, SumSame
  <2> QED BY <1>3, <2>1, <2>4 DEF VoucherSum
<1>6. VoucherConserved'
  BY <1>3, <1>5 DEF VchInv, VoucherConserved
<1>7. (\E X, Y : redeem \in [Redeemers -> [v : X, batch : Y]])'
  <2>1. PICK X, Y : redeem \in [Redeemers -> [v : X, batch : Y]]
    BY DEF VchInv, VoucherType
  <2>2. PICK X2, Y2 : X2 = X \union {"none"} /\ Y2 = Y \union {"none"}
    OBVIOUS
  <2>3. redeem \in [Redeemers -> [v : X2, batch : Y2]] /\ NoRedeem \in [v : X2, batch : Y2]
    BY <2>1, <2>2 DEF NoRedeem
  <2>4. redeem' \in [Redeemers -> [v : X2, batch : Y2]]
    BY <2>3
  <2> QED BY <2>4
<1>8. VoucherType'
  BY <1>1, <1>3, <1>4, <1>7 DEF VchInv, VoucherType
<1>9. CodesPrinted'
  <2>1. \A r \in Redeemers : redeem'[r] = redeem[r] \/ redeem'[r].v = "none"
    BY DEF VchInv, VoucherType, NoRedeem
  <2> QED BY <2>1 DEF VchInv, CodesPrinted
<1> QED BY <1>6, <1>8, <1>9 DEF VchInv

\* A step that leaves the ledger alone.
LEMMA NoRows ==
    ASSUME VchInv, UNCHANGED <<voucher, batch, led>>,
           redeem' = redeem \/ \E r \in Redeemers : redeem' = [redeem EXCEPT ![r] = NoRedeem]
    PROVE  VchInv'
<1>1. <<>> \in Seq({1}) /\ \A k \in 1..Len(<<>>) : <<>>[k].type \notin {"voucher", "voucher_redeem"}
  OBVIOUS
<1>2. led' = led \o <<>>
  BY DEF VchInv, VoucherType, LedType
<1> QED BY <1>1, <1>2, NoCodes

\* A step that writes one row.
LEMMA OneRow ==
    ASSUME VchInv, UNCHANGED <<voucher, batch, redeem>>, NEW x, led' = led \o <<x>>,
           x.type \notin {"voucher", "voucher_redeem"}
    PROVE  VchInv'
<1>1. <<x>> \in Seq({x}) /\ Len(<<x>>) = 1 /\ <<x>>[1] = x
  OBVIOUS
<1>2. \A k \in 1..Len(<<x>>) : <<x>>[k].type \notin {"voucher", "voucher_redeem"}
  BY <1>1
<1> QED BY <1>1, <1>2, NoCodes

\* A renewal moves no code.
LEMMA VchRenewal == ASSUME VchInv, NEW p, RenewHandler(p) PROVE VchInv'
<1> DEFINE x == Row("renewal", -Price, 0, Days[p])
           y == Row("commission", Commission, 0, 0)
           rows == <<x>> \o CommissionRows
<1>1. x.type = "renewal" /\ y.type = "commission"
  BY DEF Row
<1>2. led' = led \o rows
  BY DEF RenewHandler, ChargeRenewal, InsertLedger
<1>3. CommissionRows = <<y>> \/ CommissionRows = <<>>
  BY DEF CommissionRows
<1> HIDE DEF x, y
<1>4. rows \in Seq({x, y}) /\ \A k \in 1..Len(rows) : rows[k] \in {x, y}
  <2> DEFINE S == {x, y}
  <2>1. x \in S /\ y \in S
    OBVIOUS
  <2> HIDE DEF S
  <2>2. <<x>> \in Seq(S) /\ <<y>> \in Seq(S) /\ <<>> \in Seq(S)
    BY <2>1
  <2>3. CommissionRows \in Seq(S)
    BY <1>3, <2>2
  <2>4. rows \in Seq(S)
    BY <2>2, <2>3
  <2>5. \A k \in 1..Len(rows) : rows[k] \in S
    BY <2>4
  <2> QED BY <2>4, <2>5 DEF S
<1>5. \A k \in 1..Len(rows) : rows[k].type \notin {"voucher", "voucher_redeem"}
  BY <1>1, <1>4
<1>6. UNCHANGED <<voucher, batch, redeem>>
  BY DEF RenewHandler, codeVars
<1> HIDE DEF rows
<1> QED BY <1>2, <1>4, <1>5, <1>6, NoCodes

\* A reversal moves no code.
LEMMA VchReversal ==
    ASSUME VchInv, NEW i, RefundCore(i) \/ UndoTopupCore(i), UNCHANGED codeVars
    PROVE  VchInv'
<1>1. PICK x : led' = led \o <<x>> /\ x.type \in {"refund", "topup"}
  <2>1. CASE RefundCore(i)
    <3>1. led' = led \o <<Row("refund", -led[i].amt, i, Days[profile])>>
      BY <2>1 DEF RefundCore, InsertLedger
    <3>2. Row("refund", -led[i].amt, i, Days[profile]).type = "refund"
      BY DEF Row
    <3> QED BY <3>1, <3>2
  <2>2. CASE UndoTopupCore(i)
    <3>1. led' = led \o <<Row("topup", -led[i].amt, i, 0)>>
      BY <2>2 DEF UndoTopupCore, InsertLedger
    <3>2. Row("topup", -led[i].amt, i, 0).type = "topup"
      BY DEF Row
    <3> QED BY <3>1, <3>2
  <2> QED BY <2>1, <2>2
<1> QED BY <1>1, OneRow DEF codeVars

\* The batch is paid for when it is made.
LEMMA VchGenerate == ASSUME VchInv, NEW p, CreateBatchHandler(p) PROVE VchInv'
<1>1. PICK n, x, z, o : /\ n = Cardinality(Vouchers) /\ x = Row("voucher", -(Price * n), 0, 0) /\ z = led' /\ o = led
  OBVIOUS
<1>2. z = o \o <<x>> /\ batch.st = "none" /\ batch' = [st |-> "active", profile |-> p] /\ InsertCodes /\ redeem' = redeem
  BY <1>1 DEF CreateBatchHandler, GenerateBatch, InsertLedger
<1>3. n \in Nat /\ Price * n \in Int /\ Price \in Int
  BY <1>1, LedgerAssumption, FS_CardinalityType
<1>4. x.type = "voucher" /\ x.amt = -(Price * n)
  BY <1>1 DEF Row
<1>5. PICK S : o \in Seq(S)
  BY <1>1 DEF VchInv, VoucherType, LedType
<1>6. OneMore(o, x, z)
  <2>1. \A i \in RowsOf("voucher", o) : o[i].amt \in Int
    BY <1>1 DEF VchInv, VoucherType
  <2>2. x.type = "voucher" => x.amt \in Int
    BY <1>3, <1>4
  <2>3. z = o \o <<x>>
    BY <1>2
  <2> QED BY <1>5, <2>1, <2>2, <2>3, RowsAppend
<1>7. Good = {} /\ Used = {} /\ Good' = Vouchers /\ Used' = {}
  BY <1>2 DEF VchInv, CodesPrinted, Good, Used, InsertCodes
<1>8. VoucherSum(o) = 0
  <2>1. Price * 0 = 0
    BY <1>3
  <2>2. -VoucherSum(o) = Price * Cardinality(Good)
    BY <1>1 DEF VchInv, VoucherConserved, Good
  <2> QED BY <1>6, <1>7, <2>1, <2>2, FS_EmptySet DEF OneMore
<1>9. -VoucherSum(z) = Price * n
  BY <1>3, <1>4, <1>6, <1>8 DEF OneMore
<1>10. RowsOf("voucher_redeem", z) = RowsOf("voucher_redeem", o)
  BY <1>4, <1>6 DEF OneMore
<1>11. Cardinality(RowsOf("voucher_redeem", o)) = Cardinality(Used)
  BY <1>1 DEF VchInv, VoucherConserved, Used
<1>12. VoucherConserved'
  <2>1. -VoucherSum(led') = Price * Cardinality(Good')
    BY <1>1, <1>7, <1>9
  <2>2. Cardinality(RowsOf("voucher_redeem", led')) = Cardinality(Used')
    BY <1>1, <1>7, <1>10, <1>11
  <2> QED BY <2>1, <2>2 DEF VoucherConserved, Good, Used
<1>13. LedType'
  <2>1. <<x>> \in Seq({x})
    OBVIOUS
  <2> QED BY <1>1, <1>2, <2>1, Appended DEF VchInv, VoucherType
<1>14. VoucherType'
  <2>1. voucher' \in [Vouchers -> VoucherStates]
    BY <1>2 DEF InsertCodes, VoucherStates
  <2>2. (\E X : batch \in [st : {"none", "active", "void"}, profile : X])'
    <3>1. PICK X : X = {p}
      OBVIOUS
    <3>2. batch' \in [st : {"none", "active", "void"}, profile : X]
      BY <1>2, <3>1
    <3> QED BY <3>2
  <2>3. \A i \in RowsOf("voucher", led') : led'[i].amt \in Int
    BY <1>1, <1>6 DEF OneMore
  <2> QED BY <1>2, <1>13, <2>1, <2>2, <2>3 DEF VchInv, VoucherType
<1>15. CodesPrinted'
  BY <1>2 DEF VchInv, CodesPrinted, InsertCodes
<1> QED BY <1>12, <1>14, <1>15 DEF VchInv

\* The unused codes are paid back.
LEMMA VchVoid == ASSUME VchInv, VoidBatchHandler PROVE VchInv'
<1> DEFINE unused == {v \in Vouchers : voucher[v] = "unused"}
<1>1. /\ batch' = [batch EXCEPT !.st = "void"]
      /\ voucher' = [v \in Vouchers |-> IF v \in unused THEN "void" ELSE voucher[v]]
      /\ redeem' = redeem /\ batch.st = "active"
  BY DEF VoidBatchHandler
<1>2. voucher \in [Vouchers -> VoucherStates]
  BY DEF VchInv, VoucherType
<1>3. Good' = Used /\ Used' = Used /\ Good = Used \union unused /\ Used \intersect unused = {} /\ unused \subseteq Vouchers
      /\ Used \subseteq Vouchers
  BY <1>1, <1>2 DEF Good, Used
<1>4. Cardinality(Good) = Cardinality(Used) + Cardinality(unused) /\ Cardinality(unused) \in Nat /\ Cardinality(Used) \in Nat
  <2>1. IsFiniteSet(Used) /\ IsFiniteSet(unused) /\ Cardinality(unused) \in Nat /\ Cardinality(Used) \in Nat
    BY <1>3, CodesFinite
  <2>2. Cardinality(Used \union unused) = Cardinality(Used) + Cardinality(unused) - Cardinality(Used \intersect unused)
    BY <2>1, FS_Union
  <2>3. Cardinality(Used \intersect unused) = 0
    BY <1>3, FS_EmptySet
  <2> QED BY <1>3, <2>1, <2>2, <2>3
<1>5. CodesPrinted'
  BY <1>1, <1>2 DEF VchInv, CodesPrinted
<1>6. (\E X : batch \in [st : {"none", "active", "void"}, profile : X])'
  BY <1>1 DEF VchInv, VoucherType
<1>7. voucher' \in [Vouchers -> VoucherStates]
  BY <1>1, <1>2 DEF VoucherStates
<1>8. CASE unused = {}
  <2>1. led' = led
    BY <1>8 DEF VoidBatchHandler
  <2>2. Good' = Good /\ Used' = Used
    BY <1>3, <1>8
  <2>3. VoucherConserved'
    BY <2>1, <2>2 DEF VchInv, VoucherConserved, Good, Used
  <2>4. VoucherType'
    BY <1>1, <1>6, <1>7, <2>1 DEF VchInv, VoucherType, LedType
  <2> QED BY <1>5, <2>3, <2>4 DEF VchInv
<1>9. CASE unused # {}
  <2>1. PICK n, g, m, x, z, o : /\ n = Cardinality(unused) /\ g = Cardinality(Good) /\ m = Cardinality(Used)
                                /\ x = Row("voucher", Price * n, 0, 0) /\ z = led' /\ o = led
    OBVIOUS
  <2>2. z = o \o <<x>>
    BY <1>9, <2>1 DEF VoidBatchHandler, InsertLedger
  <2>3. n \in Nat /\ m \in Nat /\ g = m + n /\ Price \in Int /\ Price * n \in Int /\ Price * m \in Int
    BY <1>4, <2>1, LedgerAssumption
  <2>4. x.type = "voucher" /\ x.amt = Price * n
    BY <2>1 DEF Row
  <2>5. PICK S : o \in Seq(S)
    BY <2>1 DEF VchInv, VoucherType, LedType
  <2>6. OneMore(o, x, z)
    <3>1. \A i \in RowsOf("voucher", o) : o[i].amt \in Int
      BY <2>1 DEF VchInv, VoucherType
    <3>2. x.type = "voucher" => x.amt \in Int
      BY <2>3, <2>4
    <3> QED BY <2>2, <2>5, <3>1, <3>2, RowsAppend
  <2>7. Price * (m + n) = Price * m + Price * n
    BY <2>3
  <2>8. -VoucherSum(o) = Price * g
    BY <2>1 DEF VchInv, VoucherConserved, Good
  <2>9. -VoucherSum(z) = Price * m
    BY <2>3, <2>4, <2>6, <2>7, <2>8 DEF OneMore
  <2>10. RowsOf("voucher_redeem", z) = RowsOf("voucher_redeem", o)
    BY <2>4, <2>6 DEF OneMore
  <2>11. Cardinality(RowsOf("voucher_redeem", o)) = Cardinality(Used)
    BY <2>1 DEF VchInv, VoucherConserved, Used
  <2>12. VoucherConserved'
    <3>1. -VoucherSum(led') = Price * Cardinality(Good')
      BY <1>3, <2>1, <2>9
    <3>2. Cardinality(RowsOf("voucher_redeem", led')) = Cardinality(Used')
      BY <1>3, <2>1, <2>10, <2>11
    <3> QED BY <3>1, <3>2 DEF VoucherConserved, Good, Used
  <2>13. LedType'
    <3>1. <<x>> \in Seq({x})
      OBVIOUS
    <3> QED BY <2>1, <2>2, <3>1, Appended DEF VchInv, VoucherType
  <2>14. VoucherType'
    BY <1>1, <1>6, <1>7, <2>1, <2>6, <2>13 DEF VchInv, VoucherType, OneMore
  <2> QED BY <1>5, <2>12, <2>14 DEF VchInv
<1> QED BY <1>8, <1>9

\* A request names a code that was printed.
LEMMA VchRedeemStart == ASSUME VchInv, NEW r \in Redeemers, NEW v \in Vouchers, RedeemStart(r, v) PROVE VchInv'
<1>1. PICK X, Y : redeem \in [Redeemers -> [v : X, batch : Y]]
  BY DEF VchInv, VoucherType
<1>2. PICK X2, Y2 : X2 = X \union {v} /\ Y2 = Y \union {batch.st}
  OBVIOUS
<1>3. redeem' \in [Redeemers -> [v : X2, batch : Y2]]
  BY <1>1, <1>2 DEF RedeemStart
<1>4. VoucherType'
  BY <1>3 DEF VchInv, VoucherType, RedeemStart, LedType, moneyVars
<1>5. \A q \in Redeemers : redeem'[q] = redeem[q] \/ (redeem'[q].v = v /\ voucher[v] # "absent")
  BY <1>1 DEF RedeemStart
<1>6. CodesPrinted'
  BY <1>5 DEF VchInv, CodesPrinted, RedeemStart
<1>7. VoucherConserved'
  BY DEF VchInv, VoucherConserved, RedeemStart, moneyVars
<1> QED BY <1>4, <1>6, <1>7 DEF VchInv

\* A code is used with the row it renews by.
LEMMA VchRedeem ==
    ASSUME VchInv, NEW r \in Redeemers, redeem[r].v # "none", RedeemVoucher(r), batch' = batch,
           redeem' = [redeem EXCEPT ![r] = NoRedeem]
    PROVE  VchInv'
<1>1. PICK v \in Vouchers : v = redeem[r].v /\ voucher[v] = "unused"
  BY DEF VchInv, CodesPrinted, RedeemVoucher, Redeemable, VoucherType, VoucherStates
<1>2. PICK x, z, o : x = Row("voucher_redeem", 0, 0, Days[batch.profile]) /\ z = led' /\ o = led
  OBVIOUS
<1>3. z = o \o <<x>> /\ voucher' = [voucher EXCEPT ![v] = "used"]
  BY <1>1, <1>2 DEF RedeemVoucher, InsertLedger
<1>4. x.type = "voucher_redeem"
  BY <1>2 DEF Row
<1>5. PICK S : o \in Seq(S)
  BY <1>2 DEF VchInv, VoucherType, LedType
<1>6. OneMore(o, x, z)
  <2>1. \A i \in RowsOf("voucher", o) : o[i].amt \in Int
    BY <1>2 DEF VchInv, VoucherType
  <2>2. x.type = "voucher" => x.amt \in Int
    BY <1>4
  <2>3. z = o \o <<x>>
    BY <1>3
  <2> QED BY <1>5, <2>1, <2>2, <2>3, RowsAppend
<1>7. VoucherSum(z) = VoucherSum(o) /\ RowsOf("voucher_redeem", z) = RowsOf("voucher_redeem", o) \union {Len(o) + 1}
  BY <1>4, <1>6 DEF OneMore
<1>8. Good' = Good /\ Used' = Used \union {v} /\ v \notin Used /\ Used \subseteq Vouchers
  BY <1>1, <1>3 DEF Good, Used, VchInv, VoucherType
<1>9. Cardinality(Used \union {v}) = Cardinality(Used) + 1
  BY <1>8, CodesFinite, FS_AddElement
<1>10. Cardinality(RowsOf("voucher_redeem", z)) = Cardinality(RowsOf("voucher_redeem", o)) + 1
  BY <1>5, <1>6, <1>7, RowsOfFinite, FS_AddElement DEF OneMore
<1>11. VoucherConserved'
  <2>1. -VoucherSum(led') = Price * Cardinality(Good')
    BY <1>2, <1>7, <1>8 DEF VchInv, VoucherConserved, Good
  <2>2. Cardinality(RowsOf("voucher_redeem", led')) = Cardinality(Used')
    BY <1>2, <1>8, <1>9, <1>10 DEF VchInv, VoucherConserved, Used
  <2> QED BY <2>1, <2>2 DEF VoucherConserved, Good, Used
<1>12. LedType'
  <2>1. <<x>> \in Seq({x})
    OBVIOUS
  <2> QED BY <1>2, <1>3, <2>1, Appended DEF VchInv, VoucherType
<1>13. (\E X, Y : redeem \in [Redeemers -> [v : X, batch : Y]])'
  <2>1. PICK X, Y : redeem \in [Redeemers -> [v : X, batch : Y]]
    BY DEF VchInv, VoucherType
  <2>2. PICK X2, Y2 : X2 = X \union {"none"} /\ Y2 = Y \union {"none"}
    OBVIOUS
  <2>3. redeem \in [Redeemers -> [v : X2, batch : Y2]] /\ NoRedeem \in [v : X2, batch : Y2]
    BY <2>1, <2>2 DEF NoRedeem
  <2>4. redeem' \in [Redeemers -> [v : X2, batch : Y2]]
    BY <2>3
  <2> QED BY <2>4
<1>14. VoucherType'
  <2>1. voucher' \in [Vouchers -> VoucherStates]
    BY <1>3 DEF VchInv, VoucherType, VoucherStates
  <2>2. \A i \in RowsOf("voucher", led') : led'[i].amt \in Int
    BY <1>2, <1>6 DEF OneMore
  <2> QED BY <1>12, <1>13, <2>1, <2>2 DEF VchInv, VoucherType
<1>15. CodesPrinted'
  <2>1. \A q \in Redeemers : redeem'[q] = redeem[q] \/ redeem'[q].v = "none"
    BY DEF VchInv, VoucherType, NoRedeem
  <2>2. \A w \in Vouchers : voucher'[w] = "absent" <=> voucher[w] = "absent"
    BY <1>1, <1>3 DEF VchInv, VoucherType
  <2> QED BY <2>1, <2>2 DEF VchInv, CodesPrinted
<1> QED BY <1>11, <1>14, <1>15 DEF VchInv

\* Every step keeps the invariant.
LEMMA VchStep == VchInv /\ [LedgerNext]_ledgerVars => VchInv'
<1> SUFFICES ASSUME VchInv, [LedgerNext]_ledgerVars PROVE VchInv'
  OBVIOUS
<1>1. CASE UNCHANGED ledgerVars
  BY <1>1, NoRows DEF ledgerVars, codeVars, moneyVars
<1>2. CASE TopupHandler \/ InvoiceBatch
  <2>1. PICK x : led' = led \o <<x>> /\ x.type \in {"topup", "adjustment"}
    <3>1. Row("topup", TopupAmount, 0, 0).type = "topup" /\ Row("adjustment", -Price, 0, 0).type = "adjustment"
      BY DEF Row
    <3> QED BY <1>2, <3>1 DEF TopupHandler, InvoiceBatch, InsertLedger
  <2>2. UNCHANGED <<voucher, batch, redeem>>
    BY <1>2 DEF TopupHandler, InvoiceBatch, codeVars
  <2> QED BY <2>1, <2>2, OneRow
<1>3. ASSUME NEW r \in Redeemers, RedeemHandler(r) PROVE VchInv'
  <2>1. CASE RedeemVoucher(r)
    BY <1>3, <2>1, VchRedeem DEF RedeemHandler
  <2>2. CASE UNCHANGED <<led, expiry, profile, voucher>>
    BY <1>3, <2>2, NoRows DEF RedeemHandler
  <2> QED BY <1>3, <2>1, <2>2 DEF RedeemHandler
<1>4. ASSUME NEW i, RefundHandler(i) PROVE VchInv'
  BY <1>4, VchReversal DEF RefundHandler
<1>5. ASSUME NEW p \in Undoers, UndoReverse(p) PROVE VchInv'
  BY <1>5, VchReversal DEF UndoReverse
<1>6. ASSUME \/ DayPasses \/ \E i \in Entries : WindowCloses(i)
             \/ \E p \in Undoers : \/ UndoCheck(p) \/ UndoLeaves(p) \/ UndoMark(p)
                                   \/ \E u \in Entries : UndoNow(p, u)
                                   \/ \E q \in Requests : ApproveRequest(q, p)
             \/ \E q \in Requests : \/ RejectRequest(q) \/ WithdrawRequest(q)
                                    \/ \E u \in Entries : RequestUndo(q, u)
      PROVE  VchInv'
  <2>1. UNCHANGED <<voucher, batch, led, redeem>>
    BY <1>6 DEF DayPasses, WindowCloses, UndoCheck, UndoLeaves, UndoMark, UndoNow, ApproveRequest, RejectRequest,
                WithdrawRequest, RequestUndo, codeVars, moneyVars
  <2> QED BY <2>1, NoRows
<1> QED BY <1>1, <1>2, <1>3, <1>4, <1>5, <1>6, VchRenewal, VchGenerate, VchVoid, VchRedeemStart DEF LedgerNext

\* It holds at first.
LEMMA VchInit == LedgerInit => VchInv
<1> SUFFICES ASSUME LedgerInit PROVE VchInv
  OBVIOUS
<1>1. led = <<>> /\ <<>> \in Seq({1})
  BY DEF LedgerInit
<1>2. RowsOf("voucher", led) = {} /\ RowsOf("voucher_redeem", led) = {} /\ Good = {} /\ Used = {}
  BY <1>1 DEF RowsOf, Good, Used, LedgerInit
<1>3. VoucherSum(led) = 0
  BY <1>1, <1>2, SumEmpty DEF VoucherSum
<1>4. VoucherConserved
  <2>1. Price * 0 = 0
    BY LedgerAssumption
  <2>3. -VoucherSum(led) = 0
    <3>1. PICK a \in Int : a = VoucherSum(led) /\ a <= 0 /\ a >= 0
      BY <1>3
    <3> QED BY <3>1, MinusZero
  <2>2. Cardinality({}) = 0
    BY FS_EmptySet
  <2> QED BY <1>2, <2>1, <2>2, <2>3 DEF VoucherConserved, Good, Used
<1>5. PICK X : X = {profile}
  OBVIOUS
<1>6. batch \in [st : {"none", "active", "void"}, profile : X]
  BY <1>5 DEF LedgerInit
<1>7. PICK Y : Y = {"none"}
  OBVIOUS
<1>8. redeem \in [Redeemers -> [v : Y, batch : Y]]
  BY <1>7 DEF LedgerInit, NoRedeem
<1>9. VoucherType
  BY <1>1, <1>2, <1>6, <1>8 DEF VoucherType, LedType, LedgerInit, VoucherStates
<1>10. CodesPrinted
  BY DEF CodesPrinted, LedgerInit, NoRedeem
<1> QED BY <1>4, <1>9, <1>10 DEF VchInv

\* The agent has paid for exactly the codes that are used or can be used, and
\* every used code renewed one subscriber, with any number of requests that
\* redeem while the batch is voided (billing/voucher.go, voucher_api.go).
THEOREM VoucherCorrect == LedgerSpec => []VoucherConserved
<1>1. VchInv => VoucherConserved
  BY DEF VchInv
<1> QED BY <1>1, VchInit, VchStep, PTL DEF LedgerSpec

-----------------------------------------------------------------------------
(* The window of a card.                                                   *)

GroupRecs == [st : {"none", "on", "off"}, until : Int, window : Nat]
CardRecs == [st : {"none", "unused", "active", "disabled"}, group : Groups \union {"none"},
             first : Int, used : {0, 1}]
LoginRecs == [at : {"idle", "stamp", "judge"}, code : Codes \union {"none"}, first : Int, until : Int, age : Nat]

CardsType ==
    /\ groups \in [Groups -> GroupRecs] /\ cards \in [Codes -> CardRecs] /\ logins \in [Logins -> LoginRecs]
    /\ spread \in [Codes -> [from : Int, to : Int]]
    /\ cclock \in Nat

\* A change of one field leaves a record of the same kind and the other fields.
LEMMA CardFields ==
    ASSUME NEW k \in CardRecs
    PROVE  /\ \A u \in {0, 1} :
                /\ [k EXCEPT !.used = u] \in CardRecs
                /\ [k EXCEPT !.used = u].first = k.first /\ [k EXCEPT !.used = u].group = k.group
                /\ [k EXCEPT !.used = u].st = k.st
           /\ \A t \in {"active", "disabled"} :
                /\ [k EXCEPT !.st = t] \in CardRecs
                /\ [k EXCEPT !.st = t].first = k.first /\ [k EXCEPT !.st = t].group = k.group
                /\ [k EXCEPT !.st = t].st = t
  BY DEF CardRecs

LEMMA GroupFields ==
    ASSUME NEW k \in GroupRecs
    PROVE  /\ \A t \in {"on", "off"} :
                [k EXCEPT !.st = t] \in GroupRecs /\ [k EXCEPT !.st = t].st = t /\ [k EXCEPT !.st = t].window = k.window
           /\ \A d \in Int :
                /\ [k EXCEPT !.until = d] \in GroupRecs
                /\ [k EXCEPT !.until = d].st = k.st /\ [k EXCEPT !.until = d].window = k.window
  BY DEF GroupRecs

LEMMA FreshCard ==
    ASSUME NEW g \in Groups
    PROVE  /\ [NoCard EXCEPT !.st = "unused", !.group = g] \in CardRecs
           /\ [NoCard EXCEPT !.st = "unused", !.group = g].st # "none"
           /\ [NoCard EXCEPT !.st = "unused", !.group = g].first = -1
           /\ [NoCard EXCEPT !.st = "unused", !.group = g].group = g
<1> DEFINE u == [NoCard EXCEPT !.st = "unused"]
           w == [u EXCEPT !.group = g]
<1>1. [NoCard EXCEPT !.st = "unused", !.group = g] = w
  OBVIOUS
<1>2. NoCard \in CardRecs /\ NoCard.first = -1
  BY DEF NoCard, CardRecs
<1> HIDE DEF w
<1>3. u \in CardRecs /\ u.first = -1 /\ u.st = "unused"
  BY <1>2 DEF CardRecs
<1> HIDE DEF u
<1>4. w \in CardRecs /\ w.first = -1 /\ w.st = "unused" /\ w.group = g
  BY <1>3 DEF w, CardRecs
<1> QED
  BY <1>1, <1>4

\* A login under way: it is no older than its life, and what it takes for the
\* first use of the card is at most one life later than what the card holds.
LoginOK(l) ==
    logins[l].at # "idle" =>
      /\ logins[l].code \in Codes /\ logins[l].age <= LoginLife /\ cards[logins[l].code].st # "none"
      /\ logins[l].at = "stamp" /\ logins[l].first < 0 =>
           cards[logins[l].code].first = -1 \/ cclock <= cards[logins[l].code].first + logins[l].age
      /\ logins[l].at = "stamp" /\ logins[l].first >= 0 => cards[logins[l].code].first = logins[l].first
      /\ logins[l].at = "judge" =>
           /\ 0 <= cards[logins[l].code].first /\ cards[logins[l].code].first <= logins[l].first
           /\ logins[l].first <= cards[logins[l].code].first + LoginLife

\* A card belongs to a group that exists, and its accepted logins lie between
\* its first use and the end of its window, one login's life added.
CardOK(c) ==
    /\ cards[c].st = "none" => cards[c].first = -1 /\ spread[c].from < 0
    /\ cards[c].st # "none" => cards[c].group \in Groups /\ groups[cards[c].group].st # "none"
    /\ cards[c].first <= cclock
    /\ cards[c].first >= -1
    /\ spread[c].from >= 0 =>
         /\ 0 <= cards[c].first /\ cards[c].first <= spread[c].from
         /\ groups[cards[c].group].window > 0 =>
              spread[c].to <= cards[c].first + LoginLife + groups[cards[c].group].window

CardInv == CardsType /\ (\A l \in Logins : LoginOK(l)) /\ (\A c \in Codes : CardOK(c))

LEMMA CardInvInit == CardsInit => CardInv
<1> SUFFICES ASSUME CardsInit PROVE CardInv
  OBVIOUS
<1>1. CardsType
  BY CardsAssumption DEF CardsInit, CardsType, GroupRecs, CardRecs, LoginRecs, NoCard, NoLogin, Never
<1>2. \A l \in Logins : LoginOK(l)
  BY DEF CardsInit, LoginOK, NoLogin
<1>3. \A c \in Codes : CardOK(c)
  BY DEF CardsInit, CardOK, NoCard
<1> QED
  BY <1>1, <1>2, <1>3 DEF CardInv

\* What an operator's request and the accounting do to a card: its first use
\* and its group stay, or it is a new card of a group that exists.
GroupKept(g) == groups[g].st # "none" => groups'[g].st # "none" /\ groups'[g].window = groups[g].window
CardKept(c) ==
    \/ /\ cards'[c].first = cards[c].first /\ cards'[c].group = cards[c].group
       /\ cards'[c].st = "none" <=> cards[c].st = "none"
    \/ /\ cards[c].st = "none" /\ cards'[c].st # "none" /\ cards'[c].first = -1
       /\ cards'[c].group \in Groups /\ groups'[cards'[c].group].st # "none"

LEMMA KeptInv ==
    ASSUME CardInv, CardsType', UNCHANGED <<logins, spread, cclock>>,
           \A g \in Groups : GroupKept(g), \A c \in Codes : CardKept(c)
    PROVE  CardInv'
<1>1. ASSUME NEW l \in Logins PROVE LoginOK(l)'
  <2>1. LoginOK(l) /\ logins' = logins /\ cclock' = cclock
    BY DEF CardInv
  <2>2. CASE logins[l].at = "idle"
    BY <2>1, <2>2 DEF LoginOK
  <2>3. CASE logins[l].at # "idle"
    <3> DEFINE d == logins[l].code
    <3>1. d \in Codes /\ cards[d].st # "none"
      BY <2>1, <2>3 DEF LoginOK
    <3>2. cards'[d].first = cards[d].first /\ cards'[d].st # "none"
      BY <3>1 DEF CardKept
    <3> QED
      BY <2>1, <2>3, <3>1, <3>2 DEF LoginOK
  <2> QED
    BY <2>2, <2>3
<1>2. ASSUME NEW c \in Codes PROVE CardOK(c)'
  <2>1. CardOK(c) /\ spread' = spread /\ cclock' = cclock /\ cclock \in Nat
    BY DEF CardInv, CardsType
  <2>2. CASE cards[c].st = "none"
    BY <2>1, <2>2 DEF CardOK, CardKept
  <2>3. CASE cards[c].st # "none"
    <3>1. /\ cards[c].group \in Groups /\ groups[cards[c].group].st # "none"
          /\ cards'[c].first = cards[c].first /\ cards'[c].group = cards[c].group /\ cards'[c].st # "none"
      BY <2>1, <2>3 DEF CardOK, CardKept
    <3>2. groups'[cards[c].group].st # "none" /\ groups'[cards[c].group].window = groups[cards[c].group].window
      BY <3>1 DEF GroupKept
    <3> QED
      BY <2>1, <2>3, <3>1, <3>2 DEF CardOK
  <2> QED
    BY <2>2, <2>3
<1> QED
  BY <1>1, <1>2 DEF CardInv

LEMMA CardCreateInv ==
    ASSUME CardInv, NEW g \in Groups, NEW drawn \in SUBSET Codes, NEW window \in Nat, NEW until \in Int,
           CreateGroup(g, drawn, window, until)
    PROVE  CardInv'
<1>1. /\ groups[g].st = "none" /\ groups' = [groups EXCEPT ![g] = [st |-> "on", until |-> until, window |-> window]]
      /\ \A c \in drawn : cards[c].st = "none"
      /\ cards' = [c \in Codes |-> IF c \in drawn THEN [NoCard EXCEPT !.st = "unused", !.group = g] ELSE cards[c]]
      /\ UNCHANGED <<logins, spread, cclock>>
  BY DEF CreateGroup, InsertCards
<1>2. CardsType
  BY DEF CardInv
<1> DEFINE new == [NoCard EXCEPT !.st = "unused", !.group = g]
           made == [st |-> "on", until |-> until, window |-> window]
<1>a. new \in CardRecs /\ new.st # "none" /\ new.first = -1 /\ new.group = g
  BY FreshCard
<1>b. made \in GroupRecs /\ made.st # "none"
  BY DEF GroupRecs
<1>c. groups' = [groups EXCEPT ![g] = made] /\ cards' = [c \in Codes |-> IF c \in drawn THEN new ELSE cards[c]]
  BY <1>1
<1> HIDE DEF new, made
<1>3. CardsType'
  BY <1>1, <1>2, <1>a, <1>b, <1>c DEF CardsType
<1>4. \A k \in Groups : GroupKept(k)
  BY <1>1, <1>2, <1>b, <1>c DEF CardsType, GroupKept
<1>5. ASSUME NEW c \in Codes PROVE CardKept(c)
  <2>1. CASE c \in drawn
    BY <1>1, <1>2, <1>a, <1>b, <1>c, <2>1 DEF CardsType, CardKept
  <2>2. CASE c \notin drawn
    BY <1>c, <2>2 DEF CardKept
  <2> QED
    BY <2>1, <2>2
<1> QED
  BY <1>1, <1>3, <1>4, <1>5, KeptInv

LEMMA CardAddInv ==
    ASSUME CardInv, NEW g \in Groups, NEW drawn \in SUBSET Codes, AddMoreHandler(g, drawn)
    PROVE  CardInv'
<1>1. /\ groups[g].st # "none" /\ groups' = groups
      /\ \A c \in drawn : cards[c].st = "none"
      /\ cards' = [c \in Codes |-> IF c \in drawn THEN [NoCard EXCEPT !.st = "unused", !.group = g] ELSE cards[c]]
      /\ UNCHANGED <<logins, spread, cclock>>
  BY DEF AddMoreHandler, AddMoreCards, InsertCards
<1>2. CardsType
  BY DEF CardInv
<1> DEFINE new == [NoCard EXCEPT !.st = "unused", !.group = g]
<1>a. new \in CardRecs /\ new.st # "none" /\ new.first = -1 /\ new.group = g
  BY FreshCard
<1>c. cards' = [c \in Codes |-> IF c \in drawn THEN new ELSE cards[c]]
  BY <1>1
<1> HIDE DEF new
<1>3. CardsType'
  BY <1>1, <1>2, <1>a, <1>c DEF CardsType
<1>4. \A k \in Groups : GroupKept(k)
  BY <1>1, <1>2 DEF CardsType, GroupKept
<1>5. ASSUME NEW c \in Codes PROVE CardKept(c)
  <2>1. CASE c \in drawn
    BY <1>1, <1>2, <1>a, <1>c, <2>1 DEF CardsType, CardKept
  <2>2. CASE c \notin drawn
    BY <1>c, <2>2 DEF CardKept
  <2> QED
    BY <2>1, <2>2
<1> QED
  BY <1>1, <1>3, <1>4, <1>5, KeptInv

LEMMA CardGroupInv ==
    ASSUME CardInv, NEW g \in Groups,
           \/ \E st \in {"on", "off"} : GroupEnabledHandler(g, st)
           \/ ExtendGroupHandler(g, Never)
    PROVE  CardInv'
<1>1. CardsType
  BY DEF CardInv
<1>2. /\ groups[g].st # "none" /\ UNCHANGED <<cards, logins, spread, cclock>>
      /\ \/ groups' = [groups EXCEPT ![g].st = "on"]
         \/ groups' = [groups EXCEPT ![g].st = "off"]
         \/ groups' = [groups EXCEPT ![g].until = Never]
  BY DEF GroupEnabledHandler, SetGroupEnabled, ExtendGroupHandler, ExtendValidUntil
<1>3. Never \in Int
  BY CardsAssumption DEF Never
<1>a. PICK r \in GroupRecs : groups' = [groups EXCEPT ![g] = r] /\ r.st # "none" /\ r.window = groups[g].window
  <2> DEFINE k == groups[g]
  <2>1. k \in GroupRecs /\ k.st # "none"
    BY <1>1, <1>2 DEF CardsType
  <2>2. \/ groups' = [groups EXCEPT ![g] = [k EXCEPT !.st = "on"]]
        \/ groups' = [groups EXCEPT ![g] = [k EXCEPT !.st = "off"]]
        \/ groups' = [groups EXCEPT ![g] = [k EXCEPT !.until = Never]]
    BY <1>2
  <2>3. k = groups[g]
    OBVIOUS
  <2> HIDE DEF k
  <2>4. /\ \A t \in {"on", "off"} :
             [k EXCEPT !.st = t] \in GroupRecs /\ [k EXCEPT !.st = t].st = t /\ [k EXCEPT !.st = t].window = k.window
        /\ [k EXCEPT !.until = Never] \in GroupRecs
        /\ [k EXCEPT !.until = Never].st = k.st /\ [k EXCEPT !.until = Never].window = k.window
    BY <1>3, <2>1, GroupFields
  <2>5. CASE groups' = [groups EXCEPT ![g] = [k EXCEPT !.st = "on"]]
    BY <2>3, <2>4, <2>5
  <2>6. CASE groups' = [groups EXCEPT ![g] = [k EXCEPT !.st = "off"]]
    BY <2>3, <2>4, <2>6
  <2>7. CASE groups' = [groups EXCEPT ![g] = [k EXCEPT !.until = Never]]
    BY <2>1, <2>3, <2>4, <2>7
  <2> QED
    BY <2>2, <2>5, <2>6, <2>7
<1>4. CardsType'
  BY <1>1, <1>2, <1>a DEF CardsType
<1>5. \A k \in Groups : GroupKept(k)
  BY <1>1, <1>a DEF CardsType, GroupKept
<1>6. \A c \in Codes : CardKept(c)
  BY <1>2 DEF CardKept
<1> QED
  BY <1>2, <1>4, <1>5, <1>6, KeptInv

LEMMA CardCardInv ==
    ASSUME CardInv, NEW c \in Codes,
           \/ ResetCardHandler(c) \/ CardUsage(c)
           \/ \E st \in {"disabled", "active"} : SetCardStateHandler(c, st)
    PROVE  CardInv'
<1>1. CardsType
  BY DEF CardInv
<1>2. /\ UNCHANGED <<groups, logins, spread, cclock>>
      /\ \/ cards' = [cards EXCEPT ![c].used = 0]
         \/ cards' = [cards EXCEPT ![c].used = 1]
         \/ cards[c].st # "none" /\ cards' = [cards EXCEPT ![c].st = "disabled"]
         \/ cards[c].st # "none" /\ cards' = [cards EXCEPT ![c].st = "active"]
  BY DEF ResetCardHandler, ResetCard, CardUsage, SetCardStateHandler, SetCardState
<1>a. PICK r \in CardRecs : /\ cards' = [cards EXCEPT ![c] = r] /\ r.first = cards[c].first /\ r.group = cards[c].group
                            /\ r.st = "none" <=> cards[c].st = "none"
  <2> DEFINE k == cards[c]
  <2>1. k \in CardRecs
    BY <1>1 DEF CardsType
  <2>2. \/ cards' = [cards EXCEPT ![c] = [k EXCEPT !.used = 0]]
        \/ cards' = [cards EXCEPT ![c] = [k EXCEPT !.used = 1]]
        \/ k.st # "none" /\ cards' = [cards EXCEPT ![c] = [k EXCEPT !.st = "disabled"]]
        \/ k.st # "none" /\ cards' = [cards EXCEPT ![c] = [k EXCEPT !.st = "active"]]
    BY <1>2
  <2>3. k = cards[c]
    OBVIOUS
  <2> HIDE DEF k
  <2>4. /\ \A u \in {0, 1} :
             /\ [k EXCEPT !.used = u] \in CardRecs
             /\ [k EXCEPT !.used = u].first = k.first /\ [k EXCEPT !.used = u].group = k.group
             /\ [k EXCEPT !.used = u].st = k.st
        /\ \A t \in {"active", "disabled"} :
             /\ [k EXCEPT !.st = t] \in CardRecs
             /\ [k EXCEPT !.st = t].first = k.first /\ [k EXCEPT !.st = t].group = k.group
             /\ [k EXCEPT !.st = t].st = t
    BY <2>1, CardFields
  <2>5. CASE \E u \in {0, 1} : cards' = [cards EXCEPT ![c] = [k EXCEPT !.used = u]]
    BY <2>3, <2>4, <2>5, ZenonT(60)
  <2>6. CASE \E t \in {"active", "disabled"} : k.st # "none" /\ cards' = [cards EXCEPT ![c] = [k EXCEPT !.st = t]]
    BY <2>3, <2>4, <2>6
  <2> QED
    BY <2>2, <2>5, <2>6
<1>3. CardsType'
  BY <1>1, <1>2, <1>a DEF CardsType
<1>4. \A g \in Groups : GroupKept(g)
  BY <1>2 DEF GroupKept
<1>5. \A k \in Codes : CardKept(k)
  BY <1>1, <1>a DEF CardsType, CardKept
<1> QED
  BY <1>2, <1>3, <1>4, <1>5, KeptInv

LEMMA CardLookupInv ==
    ASSUME CardInv, NEW l \in Logins, NEW c \in Codes, CardLookup(l, c)
    PROVE  CardInv'
<1> DEFINE q == [at |-> "stamp", code |-> c, first |-> cards[c].first, until |-> groups[cards[c].group].until, age |-> 0]
<1>1. /\ cards[c].st # "none" /\ logins' = [logins EXCEPT ![l] = q]
      /\ UNCHANGED <<groups, cards, spread, cclock>>
  BY DEF CardLookup
<1>2. CardsType /\ CardOK(c) /\ LoginLife \in Nat
  BY CardsAssumption DEF CardInv
<1>3. cards[c].group \in Groups /\ cards[c].first \in Int /\ cards[c].first >= -1
  BY <1>1, <1>2 DEF CardOK, CardsType, CardRecs
<1>4. groups[cards[c].group].until \in Int
  BY <1>2, <1>3 DEF CardsType, GroupRecs
<1>5. q \in LoginRecs /\ q.at = "stamp" /\ q.code = c /\ q.first = cards[c].first /\ q.age = 0
  BY <1>3, <1>4 DEF LoginRecs
<1> HIDE DEF q
<1>6. CardsType'
  BY <1>1, <1>2, <1>5 DEF CardsType
<1>7. ASSUME NEW m \in Logins PROVE LoginOK(m)'
  <2>1. CASE m = l
    <3>1. logins'[l] = q
      BY <1>1, <1>2 DEF CardsType
    <3> QED
      BY <1>1, <1>2, <1>3, <1>5, <2>1, <3>1 DEF LoginOK
  <2>2. CASE m # l
    <3>1. logins'[m] = logins[m] /\ LoginOK(m)
      BY <1>1, <1>2, <2>2 DEF CardsType, CardInv
    <3> QED
      BY <1>1, <3>1 DEF LoginOK
  <2> QED
    BY <2>1, <2>2
<1>8. ASSUME NEW k \in Codes PROVE CardOK(k)'
  BY <1>1 DEF CardOK, CardInv
<1> QED
  BY <1>6, <1>7, <1>8 DEF CardInv

\* A step of one login, with the card it may stamp: what has to hold of the
\* login and of its card.
LEMMA StampedInv ==
    ASSUME CardInv, NEW l \in Logins, NEW q \in LoginRecs,
           logins' = [logins EXCEPT ![l] = q], UNCHANGED <<groups, spread, cclock>>,
           LoginOK(l)',
           cards' = cards \/ \E c \in Codes, r \in CardRecs :
              /\ cards' = [cards EXCEPT ![c] = r]
              /\ cards[c].st # "none" /\ r.st # "none" /\ r.group = cards[c].group
              /\ cards[c].first = -1 /\ r.first = cclock
    PROVE  CardInv'
<1>1. CardsType /\ LoginLife \in Nat /\ cclock \in Nat
  BY CardsAssumption DEF CardInv, CardsType
<1>2. CardsType'
  BY <1>1 DEF CardsType
<1>3. CASE cards' = cards
  <2>1. ASSUME NEW m \in Logins, m # l PROVE LoginOK(m)'
    <3>1. logins'[m] = logins[m] /\ LoginOK(m)
      BY <1>1, <2>1 DEF CardsType, CardInv
    <3> QED
      BY <1>3, <3>1 DEF LoginOK
  <2>2. ASSUME NEW k \in Codes PROVE CardOK(k)'
    BY <1>3 DEF CardOK, CardInv
  <2> QED
    BY <1>2, <2>1, <2>2 DEF CardInv
<1>4. CASE \E c \in Codes, r \in CardRecs :
              /\ cards' = [cards EXCEPT ![c] = r]
              /\ cards[c].st # "none" /\ r.st # "none" /\ r.group = cards[c].group
              /\ cards[c].first = -1 /\ r.first = cclock
  <2>1. PICK c \in Codes, r \in CardRecs :
              /\ cards' = [cards EXCEPT ![c] = r]
              /\ cards[c].st # "none" /\ r.st # "none" /\ r.group = cards[c].group
              /\ cards[c].first = -1 /\ r.first = cclock
    BY <1>4
  <2>2. ASSUME NEW m \in Logins, m # l PROVE LoginOK(m)'
    <3>1. logins'[m] = logins[m] /\ LoginOK(m) /\ logins[m] \in LoginRecs
      BY <1>1, <2>2 DEF CardsType, CardInv
    <3>2. CASE logins[m].at = "idle"
      BY <3>1, <3>2 DEF LoginOK
    <3>3. CASE logins[m].at # "idle" /\ logins[m].code # c
      <4>1. cards'[logins[m].code] = cards[logins[m].code]
        BY <1>1, <2>1, <3>1, <3>3 DEF LoginOK, CardsType
      <4> QED
        BY <3>1, <3>3, <4>1 DEF LoginOK
    <3>4. CASE logins[m].at # "idle" /\ logins[m].code = c
      <4>1. cards'[c] = r /\ logins[m].age \in Nat
        BY <1>1, <2>1, <3>1 DEF CardsType, LoginRecs
      <4>2. logins[m].at = "stamp" /\ logins[m].first < 0
        BY <2>1, <3>1, <3>4 DEF LoginOK, LoginRecs
      <4> QED
        BY <1>1, <2>1, <3>1, <3>4, <4>1, <4>2 DEF LoginOK
    <3> QED
      BY <3>2, <3>3, <3>4
  <2>3. ASSUME NEW k \in Codes PROVE CardOK(k)'
    <3>1. CardOK(k)
      BY DEF CardInv
    <3>2. CASE k = c
      <4>1. cards'[k] = r
        BY <1>1, <2>1, <3>2 DEF CardsType
      <4>2. spread[k].from < 0 /\ cards[k].st # "none"
        <5>1. spread[k].from \in Int
          BY <1>1 DEF CardsType
        <5> QED
          BY <2>1, <3>1, <3>2, <5>1 DEF CardOK
      <4> QED
        BY <1>1, <2>1, <3>1, <3>2, <4>1, <4>2 DEF CardOK
    <3>3. CASE k # c
      <4>1. cards'[k] = cards[k]
        BY <1>1, <2>1, <3>3 DEF CardsType
      <4> QED
        BY <3>1, <4>1 DEF CardOK
    <3> QED
      BY <3>2, <3>3
  <2> QED
    BY <1>2, <2>2, <2>3 DEF CardInv
<1> QED
  BY <1>3, <1>4

LEMMA CardStampInv ==
    ASSUME CardInv, NEW l \in Logins, CardStamp(l)
    PROVE  CardInv'
<1> DEFINE p == logins[l]
           c == p.code
           u == [p EXCEPT !.at = "judge"]
           w == [u EXCEPT !.first = cclock]
<1>1. /\ p.at = "stamp" /\ UNCHANGED <<groups, spread, cclock>>
      /\ \/ p.first >= 0 /\ logins' = [logins EXCEPT ![l] = u] /\ cards' = cards
         \/ /\ ~(p.first >= 0) /\ logins' = [logins EXCEPT ![l] = w]
            /\ cards' = IF cards[c].first = -1 THEN [cards EXCEPT ![c].first = cclock, ![c].st = "active"] ELSE cards
         \/ logins' = [logins EXCEPT ![l] = NoLogin] /\ cards' = cards
  BY DEF CardStamp
<1>2. CardsType /\ LoginLife \in Nat /\ cclock \in Nat /\ LoginOK(l) /\ p = logins[l]
  BY CardsAssumption DEF CardInv, CardsType
<1>3. p \in LoginRecs
  BY <1>2 DEF CardsType
<1> HIDE DEF p
<1>4. u \in LoginRecs /\ u.at = "judge" /\ u.code = p.code /\ u.first = p.first /\ u.age = p.age
  BY <1>3 DEF LoginRecs
<1> HIDE DEF u
<1>5. w \in LoginRecs /\ w.at = "judge" /\ w.code = p.code /\ w.first = cclock /\ w.age = p.age
  BY <1>2, <1>4 DEF LoginRecs
<1> HIDE DEF w
<1>6. /\ c \in Codes /\ p.age <= LoginLife /\ cards[c].st # "none"
      /\ p.first < 0 => cards[c].first = -1 \/ cclock <= cards[c].first + p.age
      /\ p.first >= 0 => cards[c].first = p.first
  BY <1>1, <1>2 DEF LoginOK
<1>7. CardOK(c) /\ cards[c] \in CardRecs /\ cards[c].first \in Int /\ p.first \in Int /\ p.age \in Nat
  BY <1>2, <1>3, <1>6 DEF CardsType, CardInv, CardRecs, LoginRecs
<1>8. CASE p.first >= 0 /\ logins' = [logins EXCEPT ![l] = u] /\ cards' = cards
  <2>1. logins'[l] = u
    BY <1>2, <1>8 DEF CardsType
  <2>2. LoginOK(l)'
    BY <1>2, <1>4, <1>6, <1>7, <1>8, <2>1 DEF LoginOK
  <2> QED
    BY <1>1, <1>4, <1>8, <2>2, StampedInv
<1>9. CASE /\ ~(p.first >= 0) /\ logins' = [logins EXCEPT ![l] = w]
           /\ cards' = IF cards[c].first = -1 THEN [cards EXCEPT ![c].first = cclock, ![c].st = "active"] ELSE cards
  <2>1. logins'[l] = w
    BY <1>2, <1>9 DEF CardsType
  <2>2. CASE cards[c].first = -1
    <3> DEFINE k == cards[c]
               f == [k EXCEPT !.first = cclock]
               r == [f EXCEPT !.st = "active"]
    <3>1. cards' = [cards EXCEPT ![c] = r] /\ k \in CardRecs /\ k.first = -1 /\ k = cards[c]
      BY <1>7, <1>9, <2>2
    <3> HIDE DEF k
    <3>2. f \in CardRecs /\ f.first = cclock /\ f.group = k.group
      <4>1. cclock \in Int
        BY <1>2
      <4>2. \A n \in Int : /\ [k EXCEPT !.first = n] \in CardRecs /\ [k EXCEPT !.first = n].first = n
                           /\ [k EXCEPT !.first = n].group = k.group
        BY <3>1 DEF CardRecs
      <4> QED
        BY <4>1, <4>2
    <3> HIDE DEF f
    <3>3. r \in CardRecs /\ r.first = cclock /\ r.group = k.group /\ r.st = "active"
      BY <3>2, CardFields
    <3> HIDE DEF r
    <3>4. cards'[c] = r
      BY <1>2, <1>6, <3>1 DEF CardsType
    <3>5. LoginOK(l)'
      BY <1>1, <1>2, <1>5, <1>6, <1>7, <2>1, <3>3, <3>4 DEF LoginOK
    <3>6. /\ cards' = [cards EXCEPT ![c] = r]
          /\ cards[c].st # "none" /\ r.st # "none" /\ r.group = cards[c].group
          /\ cards[c].first = -1 /\ r.first = cclock
      BY <1>6, <3>1, <3>3
    <3> QED
      BY <1>1, <1>5, <1>6, <1>9, <3>3, <3>5, <3>6, StampedInv
  <2>3. CASE cards[c].first # -1
    <3>1. cards' = cards
      BY <1>9, <2>3
    <3>2. 0 <= cards[c].first /\ cards[c].first <= cclock /\ cclock <= cards[c].first + LoginLife
      BY <1>2, <1>6, <1>7, <1>9, <2>3 DEF CardOK
    <3>3. LoginOK(l)'
      BY <1>1, <1>2, <1>5, <1>6, <2>1, <3>1, <3>2 DEF LoginOK
    <3> QED
      BY <1>1, <1>5, <1>9, <3>1, <3>3, StampedInv
  <2> QED
    BY <2>2, <2>3
<1>10. CASE logins' = [logins EXCEPT ![l] = NoLogin] /\ cards' = cards
  <2>1. logins'[l] = NoLogin /\ NoLogin \in LoginRecs /\ NoLogin.at = "idle"
    BY <1>2, <1>10 DEF CardsType, LoginRecs, NoLogin
  <2>2. LoginOK(l)'
    BY <2>1 DEF LoginOK
  <2> QED
    BY <1>1, <1>10, <2>1, <2>2, StampedInv
<1> QED
  BY <1>1, <1>8, <1>9, <1>10

\* A card whose window is over is turned away: the limits engine blocks it.
LEMMA ExpiredCardBlocked ==
    ASSUME NEW l \in Logins, CardView(l).expired
    PROVE  EvaluateLimits(CardView(l), TRUE).reject
<1> DEFINE v == CardView(l)
<1>1. /\ v.lim = [k \in {"expiry", "quota", "uptime", "daily"} |-> ResolveExhaustTarget("block", "", [rate |-> "", pool |-> ""])]
      /\ v.upOver = FALSE /\ v.dayOver = FALSE
  BY DEF CardView
<1>2. ExhaustedKind(v, TRUE) \in {"expiry", "quota"}
  BY <1>1 DEF ExhaustedKind
<1>3. v.lim["expiry"].action = "block" /\ v.lim["quota"].action = "block"
  <2> DEFINE blk == ResolveExhaustTarget("block", "", [rate |-> "", pool |-> ""])
  <2>1. blk.action = "block"
    BY DEF ResolveExhaustTarget
  <2>2. v.lim = [k \in {"expiry", "quota", "uptime", "daily"} |-> blk]
    BY <1>1
  <2> HIDE DEF blk, v
  <2> QED
    BY <2>1, <2>2
<1>4. \A k \in {"expiry", "quota"} : ResolveAction(v.lim[k]).reject = TRUE
  BY <1>3 DEF ResolveAction
<1> HIDE DEF v
<1>5. EvaluateLimits(v, TRUE).reject = TRUE
  BY <1>2, <1>4 DEF EvaluateLimits
<1> QED
  BY <1>5 DEF v

LEMMA CardDecideInv ==
    ASSUME CardInv, NEW l \in Logins, CardDecide(l)
    PROVE  CardInv'
<1> DEFINE p == logins[l]
           c == p.code
           wd == groups[cards[c].group].window
           s == [from |-> IF spread[c].from < 0 THEN cclock ELSE spread[c].from, to |-> cclock]
<1>1. /\ p.at = "judge" /\ UNCHANGED <<groups, cards, cclock>> /\ logins' = [logins EXCEPT ![l] = NoLogin]
      /\ spread' = IF EvaluateLimits(CardView(l), TRUE).reject THEN spread ELSE [spread EXCEPT ![c] = s]
  BY DEF CardDecide
<1>2. CardsType /\ LoginLife \in Nat /\ cclock \in Nat /\ LoginOK(l)
  BY CardsAssumption DEF CardInv, CardsType
<1>3. /\ c \in Codes /\ cards[c].st # "none" /\ 0 <= cards[c].first /\ cards[c].first <= p.first
      /\ p.first <= cards[c].first + LoginLife
  BY <1>1, <1>2 DEF LoginOK
<1>4. CardOK(c) /\ cards[c].first \in Int /\ p.first \in Int /\ p.until \in Int /\ cards[c].group \in Groups
  BY <1>2, <1>3 DEF CardInv, CardOK, CardsType, CardRecs, LoginRecs
<1>5. wd \in Nat /\ spread[c].from \in Int /\ spread[c].to \in Int
  BY <1>2, <1>3, <1>4 DEF CardsType, GroupRecs
<1>6. NoLogin \in LoginRecs /\ NoLogin.at = "idle"
  BY DEF NoLogin, LoginRecs
<1>7. ASSUME NEW m \in Logins PROVE LoginOK(m)'
  <2>1. CASE m = l
    BY <1>1, <1>2, <1>6, <2>1 DEF LoginOK, CardsType
  <2>2. CASE m # l
    <3>1. logins'[m] = logins[m] /\ LoginOK(m)
      BY <1>1, <1>2, <2>2 DEF CardsType, CardInv
    <3> QED
      BY <1>1, <3>1 DEF LoginOK
  <2> QED
    BY <2>1, <2>2
<1>8. logins' \in [Logins -> LoginRecs]
  BY <1>1, <1>2, <1>6 DEF CardsType
<1>9. CASE EvaluateLimits(CardView(l), TRUE).reject
  <2>1. spread' = spread
    BY <1>1, <1>9
  <2>2. CardsType'
    BY <1>1, <1>2, <1>8, <2>1 DEF CardsType
  <2>3. ASSUME NEW k \in Codes PROVE CardOK(k)'
    BY <1>1, <2>1 DEF CardOK, CardInv
  <2> QED
    BY <1>7, <2>2, <2>3 DEF CardInv
<1>10. CASE ~EvaluateLimits(CardView(l), TRUE).reject
  <2>1. spread' = [spread EXCEPT ![c] = s]
    BY <1>1, <1>10
  <2>2. ~(cclock > EffectiveExpiry(p.first, wd, p.until))
    <3>1. ~CardView(l).expired
      BY <1>10, ExpiredCardBlocked
    <3> QED
      BY <3>1 DEF CardView
  <2>3. wd > 0 => cclock <= cards[c].first + LoginLife + wd
    <3> DEFINE f == p.first
               t == p.until
               e == cards[c].first
               d == wd
    <3>1. ~(cclock > EffectiveExpiry(f, d, t)) /\ f \in Int /\ t \in Int /\ d \in Nat /\ e \in Int /\ f <= e + LoginLife
      BY <1>3, <1>4, <1>5, <2>2
    <3> HIDE DEF f, t, e, d
    <3>2. d > 0 => cclock <= e + LoginLife + d
      BY <1>2, <3>1 DEF EffectiveExpiry
    <3> QED
      BY <3>2 DEF d, e
  <2>4. s \in [from : Int, to : Int] /\ s.to = cclock
    BY <1>2, <1>5
  <2>5. cards[c].first <= s.from
    BY <1>2, <1>4, <1>5 DEF CardOK
  <2> HIDE DEF s
  <2>6. CardsType'
    BY <1>1, <1>2, <1>8, <2>1, <2>4 DEF CardsType
  <2>7. ASSUME NEW k \in Codes PROVE CardOK(k)'
    <3>1. CASE k = c
      <4>1. spread'[k] = s
        BY <1>2, <1>3, <2>1, <3>1 DEF CardsType
      <4> QED
        BY <1>1, <1>3, <1>4, <2>3, <2>4, <2>5, <3>1, <4>1 DEF CardOK
    <3>2. CASE k # c
      <4>1. spread'[k] = spread[k] /\ CardOK(k)
        BY <1>2, <2>1, <3>2 DEF CardsType, CardInv
      <4> QED
        BY <1>1, <4>1 DEF CardOK
    <3> QED
      BY <3>1, <3>2
  <2> QED
    BY <1>7, <2>6, <2>7 DEF CardInv
<1> QED
  BY <1>9, <1>10

LEMMA CardTickInv ==
    ASSUME CardInv, CardsTick
    PROVE  CardInv'
<1> DEFINE Older(q) == [q EXCEPT !.age = q.age + 1]
<1>1. /\ \A l \in Logins : logins[l].at # "idle" => logins[l].age < LoginLife
      /\ cclock' = cclock + 1 /\ UNCHANGED <<groups, cards, spread>>
      /\ logins' = [l \in Logins |-> IF logins[l].at = "idle" THEN logins[l] ELSE Older(logins[l])]
  BY DEF CardsTick
<1>2. CardsType /\ LoginLife \in Nat /\ cclock \in Nat
  BY CardsAssumption DEF CardInv, CardsType
<1>3. \A q \in LoginRecs : /\ Older(q) \in LoginRecs /\ Older(q).at = q.at /\ Older(q).code = q.code
                           /\ Older(q).first = q.first /\ Older(q).age = q.age + 1
  BY DEF LoginRecs
<1> HIDE DEF Older
<1>4. CardsType'
  BY <1>1, <1>2, <1>3 DEF CardsType
<1>5. ASSUME NEW l \in Logins PROVE LoginOK(l)'
  <2>1. LoginOK(l) /\ logins[l] \in LoginRecs
    BY <1>2 DEF CardInv, CardsType
  <2>2. CASE logins[l].at = "idle"
    BY <1>1, <2>2 DEF LoginOK
  <2>3. CASE logins[l].at # "idle"
    <3> DEFINE q == logins[l]
               o == Older(q)
               e == cards[q.code].first
    <3>1. logins'[l] = o /\ o.at = q.at /\ o.code = q.code /\ o.first = q.first /\ o.age = q.age + 1
      BY <1>1, <1>3, <2>1, <2>3
    <3>2. q.age \in Nat /\ q.age < LoginLife /\ q.code \in Codes /\ e \in Int
      BY <1>1, <1>2, <2>1, <2>3 DEF LoginRecs, LoginOK, CardsType, CardRecs
    <3>3. o.age <= LoginLife
      BY <1>2, <3>1, <3>2
    <3>4. cclock <= e + q.age => cclock' <= e + o.age
      <4>1. cclock' = cclock + 1
        BY <1>1
      <4> QED
        BY <1>2, <3>1, <3>2, <4>1
    <3>5. cards' = cards /\ q = logins[l]
      BY <1>1
    <3> HIDE DEF o, q
    <3> QED
      BY <2>1, <2>3, <3>1, <3>2, <3>3, <3>4, <3>5 DEF LoginOK
  <2> QED
    BY <2>2, <2>3
<1>6. ASSUME NEW k \in Codes PROVE CardOK(k)'
  <2>1. CardOK(k) /\ cards[k].first \in Int
    BY <1>2 DEF CardInv, CardsType, CardRecs
  <2>2. cards[k].first <= cclock'
    <3>1. cclock' = cclock + 1 /\ cards[k].first <= cclock
      BY <1>1, <2>1 DEF CardOK
    <3> QED
      BY <1>2, <2>1, <3>1
  <2> QED
    BY <1>1, <2>1, <2>2 DEF CardOK
<1> QED
  BY <1>4, <1>5, <1>6 DEF CardInv

LEMMA CardInvNext == CardInv /\ [CardsNext]_cardVars => CardInv'
<1> SUFFICES ASSUME CardInv, [CardsNext]_cardVars PROVE CardInv'
  OBVIOUS
<1>1. ASSUME NEW g \in Groups, NEW drawn \in SUBSET Codes, CreateGroupHandler(g, drawn) PROVE CardInv'
  <2>1. PICK window \in Windows, until \in {cclock + 1, Never} : CreateGroup(g, drawn, window, until)
    BY <1>1 DEF CreateGroupHandler
  <2>2. window \in Nat /\ until \in Int
    BY CardsAssumption DEF CardInv, CardsType, Never
  <2> QED
    BY <2>1, <2>2, CardCreateInv
<1>2. ASSUME NEW g \in Groups, NEW drawn \in SUBSET Codes, NEW src \in Groups, DuplicateGroupHandler(src, g, drawn)
      PROVE CardInv'
  <2>1. CreateGroup(g, drawn, groups[src].window, groups[src].until)
    BY <1>2 DEF DuplicateGroupHandler, DuplicateGroup
  <2>2. groups[src].window \in Nat /\ groups[src].until \in Int
    BY DEF CardInv, CardsType, GroupRecs
  <2> QED
    BY <2>1, <2>2, CardCreateInv
<1>3. CASE UNCHANGED cardVars
  <2>1. ASSUME NEW l \in Logins PROVE LoginOK(l)'
    BY <1>3 DEF CardInv, LoginOK, cardVars
  <2>2. ASSUME NEW c \in Codes PROVE CardOK(c)'
    BY <1>3 DEF CardInv, CardOK, cardVars
  <2>3. CardsType'
    BY <1>3 DEF CardInv, CardsType, cardVars
  <2> QED
    BY <2>1, <2>2, <2>3 DEF CardInv
<1>4. CASE CardsNext
  BY <1>1, <1>2, <1>4, CardAddInv, CardGroupInv, CardCardInv, CardLookupInv, CardStampInv, CardDecideInv, CardTickInv
     DEF CardsNext
<1> QED
  BY <1>3, <1>4

\* A card is good for its window after its first use and no longer
\* (cards/auth.go): resetting or re-enabling it, moving its group's shelf date
\* or two first logins at the same time gain at most the life of one login,
\* for any number of groups, cards and logins.
THEOREM CardsCorrect == CardsSpec => []CardWithinWindow
<1>1. CardInv => CardWithinWindow
  <2> SUFFICES ASSUME CardInv, NEW c \in Codes, cards[c].st # "none", groups[cards[c].group].window > 0, spread[c].from >= 0
               PROVE  spread[c].to - spread[c].from <= groups[cards[c].group].window + LoginLife
    BY DEF CardWithinWindow
  <2> DEFINE w == groups[cards[c].group].window
             e == cards[c].first
             a == spread[c].from
             b == spread[c].to
  <2>1. CardOK(c) /\ CardsType
    BY DEF CardInv
  <2>2. cards[c].group \in Groups
    BY <2>1 DEF CardOK
  <2>3. w \in Nat /\ e \in Int /\ a \in Int /\ b \in Int
    BY <2>1, <2>2 DEF CardsType, GroupRecs, CardRecs
  <2>4. e <= a /\ b <= e + LoginLife + w
    BY <2>1 DEF CardOK
  <2> HIDE DEF w, e, a, b
  <2>5. b - a <= w + LoginLife
    BY <2>3, <2>4, CardsAssumption
  <2> QED
    BY <2>5 DEF w, a, b
<1> QED
  BY <1>1, CardInvInit, CardInvNext, PTL DEF CardsSpec

-----------------------------------------------------------------------------
(* The books.                                                              *)
(* The statements, as functions of the journal and of the documents.       *)

JournalType == [Months -> [Accounts -> Int]]
Bal(j, acs) == SumFunctionOnSet([m \in Months |-> SumFunctionOnSet(j[m], acs)], Months)
Gap(j) == Bal(j, {"Cash", "AR", "FixedAssets", "AccumDepreciation"}) + Bal(j, {"AP"})
          + Bal(j, {"Revenue", "OperatingExpense", "DepreciationExpense"})

\* There are finitely many months.
LEMMA MonthsFinite == IsFiniteSet(Months)
<1>1. MaxMonth \in Int /\ 0 \in Int
  BY BooksAssumption
<1> QED BY <1>1, FS_Interval DEF Months

\* There are finitely many accounts.
LEMMA AccountsFinite == ASSUME NEW acs \in SUBSET Accounts PROVE IsFiniteSet(acs)
<1>1. IsFiniteSet({"Cash", "AR", "FixedAssets"})
  <2>1. IsFiniteSet({"Cash"})
    BY FS_Singleton
  <2>2. IsFiniteSet({"Cash"} \union {"AR"})
    BY <2>1, FS_AddElement
  <2>3. IsFiniteSet(({"Cash"} \union {"AR"}) \union {"FixedAssets"})
    BY <2>2, FS_AddElement
  <2>4. ({"Cash"} \union {"AR"}) \union {"FixedAssets"} = {"Cash", "AR", "FixedAssets"}
    OBVIOUS
  <2> QED BY <2>3, <2>4
<1>2. IsFiniteSet({"Cash", "AR", "FixedAssets"} \union {"AccumDepreciation"})
  BY <1>1, FS_AddElement
<1>3. IsFiniteSet(({"Cash", "AR", "FixedAssets"} \union {"AccumDepreciation"}) \union {"AP"})
  BY <1>2, FS_AddElement
<1> DEFINE A == ({"Cash", "AR", "FixedAssets"} \union {"AccumDepreciation"}) \union {"AP"}
<1>4. IsFiniteSet(A)
  BY <1>3
<1>5. Accounts = ((A \union {"Revenue"}) \union {"OperatingExpense"}) \union {"DepreciationExpense"}
  BY DEF Accounts
<1> HIDE DEF A
<1>6. IsFiniteSet(((A \union {"Revenue"}) \union {"OperatingExpense"}) \union {"DepreciationExpense"})
  <2>1. IsFiniteSet(A \union {"Revenue"})
    BY <1>4, FS_AddElement
  <2>2. IsFiniteSet((A \union {"Revenue"}) \union {"OperatingExpense"})
    BY <2>1, FS_AddElement
  <2> QED BY <2>2, FS_AddElement
<1>7. IsFiniteSet(Accounts)
  BY <1>5, <1>6
<1> QED BY <1>7, FS_Subset

\* A balance is a number.
LEMMA BalInt ==
    ASSUME NEW j \in JournalType PROVE \A acs \in SUBSET Accounts : Bal(j, acs) \in Int
<1> SUFFICES ASSUME NEW acs \in SUBSET Accounts PROVE Bal(j, acs) \in Int
  OBVIOUS
<1>0. IsFiniteSet(acs) /\ IsFiniteSet(Months)
  BY AccountsFinite, MonthsFinite
<1>1. PICK f : f = [x \in Months |-> SumFunctionOnSet(j[x], acs)]
  OBVIOUS
<1>2. ASSUME NEW x \in Months PROVE f[x] \in Int
  <2>1. PICK p : p = j[x]
    OBVIOUS
  <2>2. \A y \in acs : p[y] \in Int
    BY <2>1 DEF JournalType
  <2>3. SumFunctionOnSet(p, acs) \in Int
    BY <1>0, <2>2, SumType
  <2> QED BY <1>1, <2>1, <2>3
<1>3. SumFunctionOnSet(f, Months) \in Int
  BY <1>0, <1>2, SumType
<1> QED BY <1>1, <1>3 DEF Bal

\* One more line on one account.
In(a, acs, n) == IF a \in acs THEN n ELSE 0
Lined(j, k, acs, a, n) == Bal(j, acs) \in Int /\ Bal(k, acs) = Bal(j, acs) + In(a, acs, n)

IsLine(j, k, m, a, n) == k = [j EXCEPT ![m] = [j[m] EXCEPT ![a] = j[m][a] + n]]
IsPair(j, k, m, dr, cr, n) == k = [j EXCEPT ![m][dr] = @ + n, ![m][cr] = @ - n]

\* A line moves the balance of the selections it belongs to.
LEMMA LineSum ==
    ASSUME NEW j \in JournalType, NEW m \in Months, NEW a \in Accounts, NEW n \in Int, NEW acs \in SUBSET Accounts,
           NEW k \in JournalType, IsLine(j, k, m, a, n)
    PROVE  Lined(j, k, acs, a, n)
<1>0. IsFiniteSet(acs) /\ IsFiniteSet(Months)
  BY AccountsFinite, MonthsFinite
<1>1. PICK f, e : f = [x \in Months |-> SumFunctionOnSet(j[x], acs)] /\ e = [x \in Months |-> SumFunctionOnSet(k[x], acs)]
  OBVIOUS
<1>2. \A x \in Months : SumFunctionOnSet(j[x], acs) \in Int /\ SumFunctionOnSet(k[x], acs) \in Int
  <2> SUFFICES ASSUME NEW x \in Months
               PROVE  SumFunctionOnSet(j[x], acs) \in Int /\ SumFunctionOnSet(k[x], acs) \in Int
    OBVIOUS
  <2>1. PICK p, q : p = j[x] /\ q = k[x]
    OBVIOUS
  <2>2. \A y \in acs : p[y] \in Int /\ q[y] \in Int
    BY <2>1 DEF JournalType
  <2>3. SumFunctionOnSet(p, acs) \in Int /\ SumFunctionOnSet(q, acs) \in Int
    BY <1>0, <2>2, SumType
  <2> QED BY <2>1, <2>3
<1>3. \A x \in Months : f[x] \in Int /\ e[x] \in Int
  BY <1>1, <1>2
<1>4. \A x \in Months : x # m => e[x] = f[x]
  BY <1>1 DEF JournalType, IsLine
<1>5. e[m] = f[m] + In(a, acs, n)
  <2>1. PICK p, q : p = j[m] /\ q = k[m]
    OBVIOUS
  <2>2. p \in [Accounts -> Int] /\ q = [p EXCEPT ![a] = p[a] + n]
    BY <2>1 DEF JournalType, IsLine
  <2>3. q[a] = p[a] + n /\ p[a] \in Int /\ q[a] \in Int /\ (\A y \in acs : p[y] \in Int) /\ \A y \in acs : y # a => q[y] = p[y]
    BY <2>2
  <2>4. SumFunctionOnSet(p, acs) \in Int
    BY <1>0, <2>3, SumType
  <2>5. SumFunctionOnSet(q, acs) = SumFunctionOnSet(p, acs) + In(a, acs, n)
    <3>1. CASE a \in acs
      <4>1. SumFunctionOnSet(q, acs) = (SumFunctionOnSet(p, acs) - p[a]) + q[a]
        BY <1>0, <2>3, <3>1, SumChange
      <4> QED BY <2>3, <2>4, <3>1, <4>1 DEF In
    <3>2. CASE a \notin acs
      <4>1. \A y \in acs : p[y] = q[y]
        BY <2>3, <3>2
      <4>2. SumFunctionOnSet(p, acs) = SumFunctionOnSet(q, acs)
        BY <1>0, <4>1, SumSame
      <4> QED BY <2>4, <3>2, <4>2 DEF In
    <3> QED BY <3>1, <3>2
  <2> QED BY <1>1, <2>1, <2>5
<1>6. SumFunctionOnSet(e, Months) = (SumFunctionOnSet(f, Months) - f[m]) + e[m]
  BY <1>0, <1>3, <1>4, SumChange
<1>7. SumFunctionOnSet(f, Months) \in Int
  BY <1>0, <1>3, SumType
<1>8. Bal(j, acs) = SumFunctionOnSet(f, Months) /\ Bal(k, acs) = SumFunctionOnSet(e, Months)
  BY <1>1 DEF Bal
<1>9. In(a, acs, n) \in Int
  BY DEF In
<1>10. SumFunctionOnSet(e, Months) = SumFunctionOnSet(f, Months) + In(a, acs, n)
  BY <1>3, <1>5, <1>6, <1>7, <1>9
<1> QED BY <1>7, <1>8, <1>10 DEF Lined

\* A balanced pair.
Paired(j, k, acs, dr, cr, n) ==
    Bal(j, acs) \in Int /\ Bal(k, acs) = (Bal(j, acs) + In(dr, acs, n)) - In(cr, acs, n)

\* A pair moves the two sides by the same amount.
LEMMA PairSum ==
    ASSUME NEW j \in JournalType, NEW m \in Months, NEW dr \in Accounts, NEW cr \in Accounts, dr # cr,
           NEW n \in Int, NEW k, IsPair(j, k, m, dr, cr, n)
    PROVE  k \in JournalType /\ \A acs \in SUBSET Accounts : Paired(j, k, acs, dr, cr, n)
<1>1. PICK p : p = j[m]
  OBVIOUS
<1>2. p \in [Accounts -> Int]
  BY <1>1 DEF JournalType
<1>3. PICK q : q = [p EXCEPT ![dr] = p[dr] + n]
  OBVIOUS
<1>4. q \in [Accounts -> Int]
  BY <1>2, <1>3
<1>5. PICK h : h = [j EXCEPT ![m] = q]
  OBVIOUS
<1>6. h \in JournalType /\ h[m] = q
  BY <1>4, <1>5 DEF JournalType
<1>7. PICK c \in Int : c = -n
  OBVIOUS
<1>8. PICK r : r = [q EXCEPT ![cr] = q[cr] + c]
  OBVIOUS
<1>9. r \in [Accounts -> Int]
  BY <1>4, <1>8
<1>10. k = [h EXCEPT ![m] = r]
  <2>1. q[cr] + c = q[cr] - n
    BY <1>4, <1>7
  <2>2. r = [q EXCEPT ![cr] = q[cr] - n]
    BY <1>8, <2>1
  <2> QED BY <1>1, <1>2, <1>3, <1>4, <1>5, <1>6, <2>2 DEF JournalType, IsPair
<1>11. k \in JournalType
  BY <1>6, <1>9, <1>10 DEF JournalType
<1>12. ASSUME NEW acs \in SUBSET Accounts PROVE Paired(j, k, acs, dr, cr, n)
  <2>1. IsLine(j, h, m, dr, n)
    BY <1>1, <1>3, <1>5 DEF IsLine
  <2>2. Lined(j, h, acs, dr, n)
    BY <1>6, <2>1, LineSum
  <2>3. IsLine(h, k, m, cr, c)
    BY <1>6, <1>8, <1>10 DEF IsLine
  <2>4. Lined(h, k, acs, cr, c)
    BY <1>6, <1>11, <2>3, LineSum
  <2>5. Bal(h, acs) = Bal(j, acs) + In(dr, acs, n) /\ Bal(k, acs) = Bal(h, acs) + In(cr, acs, c) /\ Bal(j, acs) \in Int
    BY <2>2, <2>4 DEF Lined
  <2>6. In(dr, acs, n) \in Int /\ In(cr, acs, n) \in Int /\ In(cr, acs, c) = 0 - In(cr, acs, n)
    BY <1>7 DEF In
  <2>7. Bal(k, acs) = (Bal(j, acs) + In(dr, acs, n)) - In(cr, acs, n)
    BY <2>5, <2>6
  <2> QED BY <2>5, <2>7 DEF Paired
<1> QED BY <1>11, <1>12

-----------------------------------------------------------------------------
(* The aging reports.                                                      *)

Unsettled(d) == d.st \notin {"none", "paid", "void"}
Open(d) == IF Unsettled(d) THEN d.total - d.paid ELSE 0
Aged(docs, z, i, w) ==
    ComputeAging(docs) \in Int /\ ComputeAging(z) = (ComputeAging(docs) - Open(docs[i])) + Open(w)

\* One document changes.
LEMMA AgingStep ==
    ASSUME NEW D, IsFiniteSet(D), NEW R, NEW docs \in [D -> R], NEW i \in D, NEW w, NEW z,
           z = [docs EXCEPT ![i] = w], w.total - w.paid \in Int, \A d \in D : docs[d].total - docs[d].paid \in Int
    PROVE  Aged(docs, z, i, w)
<1>1. PICK f, e : f = [d \in D |-> docs[d].total - docs[d].paid] /\ e = [d \in D |-> z[d].total - z[d].paid]
  OBVIOUS
<1>2. PICK S, T : S = {d \in D : Unsettled(docs[d])} /\ T = {d \in D : Unsettled(z[d])}
  OBVIOUS
<1>3. DOMAIN docs = D /\ DOMAIN z = D /\ z[i] = w /\ \A d \in D : d # i => z[d] = docs[d]
  OBVIOUS
<1>4. (\A d \in D : f[d] \in Int /\ e[d] \in Int) /\ (\A d \in D : d # i => e[d] = f[d])
      /\ e[i] = w.total - w.paid /\ f[i] = docs[i].total - docs[i].paid
  BY <1>1, <1>3
<1>5. ComputeAging(docs) = SumFunctionOnSet(f, S) /\ ComputeAging(z) = SumFunctionOnSet(e, T)
  BY <1>1, <1>2, <1>3 DEF ComputeAging, Unsettled
<1>6. IsFiniteSet(S) /\ IsFiniteSet(T) /\ S \subseteq D /\ T \subseteq D
  BY <1>2, FS_Subset
<1>7. SumFunctionOnSet(f, S) \in Int
  BY <1>4, <1>6, SumType
<1>8. (i \in S <=> Unsettled(docs[i])) /\ (i \in T <=> Unsettled(w)) /\ \A d : d # i => (d \in S <=> d \in T)
  BY <1>2, <1>3
<1>9. PICK U : U = S \ {i}
  OBVIOUS
<1>10. IsFiniteSet(U) /\ i \notin U /\ U \subseteq D
  BY <1>6, <1>9, FS_Subset
<1>11. SumFunctionOnSet(e, U) = SumFunctionOnSet(f, U) /\ SumFunctionOnSet(f, U) \in Int
  <2>1. \A d \in U : f[d] = e[d] /\ f[d] \in Int
    BY <1>4, <1>9, <1>10
  <2> QED BY <1>10, <2>1, SumSame, SumType
<1>12. SumFunctionOnSet(f, S) = SumFunctionOnSet(f, U) + Open(docs[i])
  <2>1. CASE i \in S
    <3>1. \A x \in S : f[x] \in Int
      BY <1>4, <1>6
    <3>2. SumFunctionOnSet(f, S) = f[i] + SumFunctionOnSet(f, S \ {i})
      BY <1>6, <2>1, <3>1, SumRemove
    <3>3. Open(docs[i]) = f[i] /\ f[i] \in Int
      BY <1>4, <1>8, <2>1 DEF Open
    <3> QED BY <1>9, <1>11, <3>2, <3>3
  <2>2. CASE i \notin S
    <3>1. U = S /\ Open(docs[i]) = 0
      BY <1>8, <1>9, <2>2 DEF Open
    <3> QED BY <1>7, <3>1
  <2> QED BY <2>1, <2>2
<1>13. SumFunctionOnSet(e, T) = SumFunctionOnSet(e, U) + Open(w)
  <2>0. T \ {i} = U
    BY <1>8, <1>9
  <2>1. CASE i \in T
    <3>1. \A x \in T : e[x] \in Int
      BY <1>4, <1>6
    <3>2. SumFunctionOnSet(e, T) = e[i] + SumFunctionOnSet(e, T \ {i})
      BY <1>6, <2>1, <3>1, SumRemove
    <3>3. Open(w) = e[i] /\ e[i] \in Int
      BY <1>4, <1>8, <2>1 DEF Open
    <3>4. SumFunctionOnSet(e, T) = e[i] + SumFunctionOnSet(e, U)
      BY <2>0, <3>2
    <3>5. SumFunctionOnSet(e, U) \in Int
      BY <1>11
    <3> QED BY <3>3, <3>4, <3>5
  <2>2. CASE i \notin T
    <3>1. U = T /\ Open(w) = 0
      BY <1>8, <2>0, <2>2 DEF Open
    <3> QED BY <1>11, <3>1
  <2> QED BY <2>1, <2>2
<1>14. Open(w) \in Int /\ Open(docs[i]) \in Int
  BY <1>4 DEF Open
<1> QED BY <1>5, <1>7, <1>11, <1>12, <1>13, <1>14 DEF Aged

-----------------------------------------------------------------------------
(* The inductive invariant.                                                *)

DocStates == {"none", "unpaid", "partial", "due", "paid", "void"}
Docs == [st : DocStates, total : Nat, paid : Nat, due : Int]
DocOK(d) == d \in Docs /\ d.paid <= d.total /\ (d.st = "paid" => d.paid = d.total)
DocsOK ==
    /\ invoice \in [Invoices -> Docs] /\ \A i \in Invoices : DocOK(invoice[i])
    /\ expense \in [Expenses -> Docs] /\ \A e \in Expenses : DocOK(expense[e])

ClerkType == clerk \in [Clerks -> [at : {"idle", "read"}, period : Int, acc : Int]]
TimeType == month \in Months /\ late \in BOOLEAN
AssetType == asset \in [Months -> Int]

\* The sums the reports show.
Ties ==
    /\ journal \in JournalType
    /\ Bal(journal, {"AR"}) = ComputeAging(invoice)
    /\ Bal(journal, {"AP"}) = -ComputeAging(expense)
    /\ Gap(journal) = 0

\* What is written off is what the asset has lost, and a request that may still
\* write this month's row has read all of it.
Wear ==
    /\ ~Bought => Bal(journal, {"AccumDepreciation"}) = 0 /\ \A c \in Clerks : clerk[c].at = "idle"
    /\ Bought => Bal(journal, {"AccumDepreciation"}) = -Accumulated /\ (late \/ Accumulated <= Depreciable)
    /\ \A c \in Clerks : clerk[c].at = "read" =>
         /\ clerk[c].period \in Months /\ clerk[c].period <= month
         /\ ~late /\ clerk[c].period = month /\ asset[month] = 0 => clerk[c].acc = Accumulated

BooksInv == TimeType /\ DocsOK /\ ClerkType /\ AssetType /\ Ties /\ Wear

\* The invariant says that the books tie.
LEMMA BooksInvTie == ASSUME BooksInv PROVE BooksTie
<1>0. \A acs, f, t : AccountBalanceRange(acs, f, t) = Bal(journal, acs)
  BY DEF AccountBalanceRange, Bal, SumFunction
<1>1. /\ AccountBalanceRange({"AR"}, 0, month) = ComputeAging(invoice)
      /\ AccountBalanceRange({"AP"}, 0, month) = -ComputeAging(expense)
  BY <1>0 DEF BooksInv, Ties
<1>2. BalanceSheetGap(month) = 0
  <2>1. PICK A, L, R : /\ A = Bal(journal, {"Cash", "AR", "FixedAssets", "AccumDepreciation"})
                       /\ L = Bal(journal, {"AP"})
                       /\ R = Bal(journal, {"Revenue", "OperatingExpense", "DepreciationExpense"})
    OBVIOUS
  <2>2. A \in Int /\ L \in Int /\ R \in Int
    <3>1. PICK j \in JournalType : j = journal
      BY DEF BooksInv, Ties
    <3>2. \A acs \in SUBSET Accounts : Bal(j, acs) \in Int
      BY BalInt
    <3>3. /\ {"Cash", "AR", "FixedAssets", "AccumDepreciation"} \in SUBSET Accounts
          /\ {"AP"} \in SUBSET Accounts
          /\ {"Revenue", "OperatingExpense", "DepreciationExpense"} \in SUBSET Accounts
      BY DEF Accounts
    <3> QED BY <2>1, <3>1, <3>2, <3>3
  <2>3. (A + L) + R = 0
    BY <2>1 DEF BooksInv, Ties, Gap
  <2>4. BalanceSheetGap(month) = (A - (-L)) - (-R)
    BY <1>0, <2>1 DEF BalanceSheetGap, NetIncome
  <2> QED BY <2>2, <2>3, <2>4
<1>3. Bought => /\ AccountBalanceRange({"AccumDepreciation"}, 0, month) = -Accumulated
                /\ late \/ Accumulated <= Depreciable
  BY <1>0 DEF BooksInv, Wear
<1> QED BY <1>1, <1>2, <1>3 DEF BooksTie

-----------------------------------------------------------------------------
(* What a posting does to the reports.                                     *)

Side(a, b, n) == IF a = b THEN n ELSE 0
Posted(dr, cr, n) ==
    /\ journal' \in JournalType /\ Gap(journal') = 0
    /\ \A a \in Accounts : Bal(journal, {a}) \in Int /\ Bal(journal', {a}) = (Bal(journal, {a}) + Side(dr, a, n)) - Side(cr, a, n)

\* A pair leaves the sheet balanced and moves two control accounts.
LEMMA PostStep ==
    ASSUME Ties, NEW m \in Months, NEW dr \in Accounts, NEW cr \in Accounts, dr # cr, NEW n \in Int,
           IsPair(journal, journal', m, dr, cr, n)
    PROVE  Posted(dr, cr, n)
<1>k. PICK k : k = journal'
  OBVIOUS
<1>1. PICK j \in JournalType : j = journal /\ k = journal'
  BY <1>k DEF Ties
<1>2. IsPair(j, k, m, dr, cr, n)
  BY <1>1
<1>3. k \in JournalType /\ \A acs \in SUBSET Accounts : Paired(j, k, acs, dr, cr, n)
  BY <1>2, PairSum
<1>4. ASSUME NEW a \in Accounts PROVE Bal(j, {a}) \in Int /\ Bal(k, {a}) = (Bal(j, {a}) + Side(dr, a, n)) - Side(cr, a, n)
  <2>1. PICK acs \in SUBSET Accounts : acs = {a}
    OBVIOUS
  <2>2. In(dr, acs, n) = Side(dr, a, n) /\ In(cr, acs, n) = Side(cr, a, n)
    BY <2>1 DEF In, Side
  <2> QED BY <1>3, <2>1, <2>2 DEF Paired
<1>5. PICK A \in SUBSET Accounts, L \in SUBSET Accounts, R \in SUBSET Accounts :
         /\ A = {"Cash", "AR", "FixedAssets", "AccumDepreciation"} /\ L = {"AP"}
         /\ R = {"Revenue", "OperatingExpense", "DepreciationExpense"}
  BY DEF Accounts
<1>6. \A a \in Accounts : (In(a, A, n) + In(a, L, n)) + In(a, R, n) = n /\ In(a, A, n) \in Int /\ In(a, L, n) \in Int /\ In(a, R, n) \in Int
  <2> SUFFICES ASSUME NEW a \in Accounts
               PROVE (In(a, A, n) + In(a, L, n)) + In(a, R, n) = n /\ In(a, A, n) \in Int /\ In(a, L, n) \in Int /\ In(a, R, n) \in Int
    OBVIOUS
  <2>1. CASE a \in A /\ a \notin L /\ a \notin R
    BY <2>1 DEF In
  <2>2. CASE a \notin A /\ a \in L /\ a \notin R
    BY <2>2 DEF In
  <2>3. CASE a \notin A /\ a \notin L /\ a \in R
    BY <2>3 DEF In
  <2> QED BY <1>5, <2>1, <2>2, <2>3 DEF Accounts
<1>7. /\ Bal(j, A) \in Int /\ Bal(k, A) = (Bal(j, A) + In(dr, A, n)) - In(cr, A, n)
      /\ Bal(j, L) \in Int /\ Bal(k, L) = (Bal(j, L) + In(dr, L, n)) - In(cr, L, n)
      /\ Bal(j, R) \in Int /\ Bal(k, R) = (Bal(j, R) + In(dr, R, n)) - In(cr, R, n)
  BY <1>3 DEF Paired
<1>8. Gap(j) = (Bal(j, A) + Bal(j, L)) + Bal(j, R) /\ Gap(k) = (Bal(k, A) + Bal(k, L)) + Bal(k, R)
  BY <1>5 DEF Gap
<1>9. Gap(j) = 0
  BY <1>1 DEF Ties
<1>10. Gap(k) = 0
  BY <1>6, <1>7, <1>8, <1>9
<1> QED BY <1>1, <1>3, <1>4, <1>10 DEF Posted

\* postJournal, dated now.
LEMMA PostNow ==
    ASSUME BooksInv, NEW dr \in Accounts, NEW cr \in Accounts, dr # cr, NEW n \in Int, PostJournal(dr, cr, n)
    PROVE  Posted(dr, cr, n)
<1>1. PICK m \in Months : m = month
  BY DEF BooksInv, TimeType
<1>2. IsPair(journal, journal', m, dr, cr, n)
  BY <1>1 DEF PostJournal, IsPair
<1> QED BY <1>1, <1>2, PostStep DEF BooksInv

\* Nothing is posted: a pair of zero.
LEMMA PostNothing ==
    ASSUME BooksInv, journal' = journal, NEW dr \in Accounts, NEW cr \in Accounts PROVE Posted(dr, cr, 0)
<1>1. PICK j \in JournalType : j = journal
  BY DEF BooksInv, Ties
<1>2. ASSUME NEW a \in Accounts PROVE Bal(j, {a}) \in Int
  <2>1. {a} \in SUBSET Accounts
    OBVIOUS
  <2> QED BY <2>1, BalInt
<1>3. \A a : Side(dr, a, 0) = 0 /\ Side(cr, a, 0) = 0
  BY DEF Side
<1>4. Gap(journal') = 0
  BY DEF BooksInv, Ties
<1>5. ASSUME NEW a \in Accounts
      PROVE  Bal(journal, {a}) \in Int /\ Bal(journal', {a}) = (Bal(journal, {a}) + Side(dr, a, 0)) - Side(cr, a, 0)
  <2>1. PICK b \in Int : b = Bal(journal, {a})
    BY <1>1, <1>2
  <2>2. Bal(journal', {a}) = b
    BY <2>1
  <2>3. b = (b + 0) - 0
    OBVIOUS
  <2> QED BY <1>3, <2>1, <2>2, <2>3
<1> QED BY <1>1, <1>4, <1>5 DEF Posted

\* Documents.
LEMMA InvoiceStep ==
    ASSUME BooksInv, NEW i \in Invoices, NEW w, DocOK(w), invoice' = [invoice EXCEPT ![i] = w], expense' = expense
    PROVE  /\ DocsOK' /\ ComputeAging(invoice) \in Int
           /\ ComputeAging(invoice') = (ComputeAging(invoice) - Open(invoice[i])) + Open(w)
<1>z. PICK z : z = invoice'
  OBVIOUS
<1>1. PICK docs \in [Invoices -> Docs] : docs = invoice /\ z = invoice'
  BY <1>z DEF BooksInv, DocsOK
<1>2. z = [docs EXCEPT ![i] = w] /\ IsFiniteSet(Invoices) /\ w \in Docs
  BY <1>1, BooksAssumption DEF DocOK
<1>3. \A d \in Docs : d.total - d.paid \in Int
  BY DEF Docs
<1>4. Aged(docs, z, i, w)
  <2>1. w.total - w.paid \in Int /\ \A d \in Invoices : docs[d].total - docs[d].paid \in Int
    BY <1>2, <1>3
  <2> QED BY <1>2, <2>1, AgingStep
<1>5. z \in [Invoices -> Docs] /\ \A d \in Invoices : DocOK(z[d])
  <2>1. z \in [Invoices -> Docs] /\ z[i] = w /\ \A d \in Invoices : d # i => z[d] = docs[d]
    BY <1>2
  <2>2. \A d \in Invoices : DocOK(docs[d])
    BY <1>1 DEF BooksInv, DocsOK
  <2> QED BY <2>1, <2>2
<1>6. DocsOK'
  <2>1. invoice' \in [Invoices -> Docs] /\ \A d \in Invoices : DocOK(invoice'[d])
    BY <1>1, <1>5
  <2> QED BY <2>1 DEF BooksInv, DocsOK, DocOK
<1> QED BY <1>1, <1>4, <1>6 DEF Aged

\* An expense changes.
LEMMA ExpenseStep ==
    ASSUME BooksInv, NEW i \in Expenses, NEW w, DocOK(w), expense' = [expense EXCEPT ![i] = w], invoice' = invoice
    PROVE  /\ DocsOK' /\ ComputeAging(expense) \in Int
           /\ ComputeAging(expense') = (ComputeAging(expense) - Open(expense[i])) + Open(w)
<1>z. PICK z : z = expense'
  OBVIOUS
<1>1. PICK docs \in [Expenses -> Docs] : docs = expense /\ z = expense'
  BY <1>z DEF BooksInv, DocsOK
<1>2. z = [docs EXCEPT ![i] = w] /\ IsFiniteSet(Expenses) /\ w \in Docs
  BY <1>1, BooksAssumption DEF DocOK
<1>3. \A d \in Docs : d.total - d.paid \in Int
  BY DEF Docs
<1>4. Aged(docs, z, i, w)
  <2>1. w.total - w.paid \in Int /\ \A d \in Expenses : docs[d].total - docs[d].paid \in Int
    BY <1>2, <1>3
  <2> QED BY <1>2, <2>1, AgingStep
<1>5. z \in [Expenses -> Docs] /\ \A d \in Expenses : DocOK(z[d])
  <2>1. z \in [Expenses -> Docs] /\ z[i] = w /\ \A d \in Expenses : d # i => z[d] = docs[d]
    BY <1>2
  <2>2. \A d \in Expenses : DocOK(docs[d])
    BY <1>1 DEF BooksInv, DocsOK
  <2> QED BY <2>1, <2>2
<1>6. DocsOK'
  <2>1. expense' \in [Expenses -> Docs] /\ \A d \in Expenses : DocOK(expense'[d])
    BY <1>1, <1>5
  <2> QED BY <2>1 DEF BooksInv, DocsOK, DocOK
<1> QED BY <1>1, <1>4, <1>6 DEF Aged

\* The documents rest.
LEMMA DocsKept ==
    ASSUME BooksInv, docVars' = docVars
    PROVE  DocsOK' /\ ComputeAging(invoice') = ComputeAging(invoice) /\ ComputeAging(expense') = ComputeAging(expense)
<1>1. invoice' = invoice /\ expense' = expense
  BY DEF docVars
<1>2. DocsOK'
  BY <1>1 DEF BooksInv, DocsOK, DocOK
<1> QED BY <1>1, <1>2

\* The asset rests.
LEMMA WearKept ==
    ASSUME BooksInv, asset' = asset, clerk' = clerk, late' = late, month' = month,
           Bal(journal', {"AccumDepreciation"}) = Bal(journal, {"AccumDepreciation"})
    PROVE  TimeType' /\ ClerkType' /\ AssetType' /\ Wear'
<1>1. TimeType' /\ ClerkType' /\ AssetType'
  BY DEF BooksInv, TimeType, ClerkType, AssetType
<1>2. (Bought' <=> Bought) /\ Accumulated' = Accumulated
  BY DEF Bought, Accumulated
<1>3. /\ ~Bought' => Bal(journal', {"AccumDepreciation"}) = 0 /\ \A c \in Clerks : clerk'[c].at = "idle"
      /\ Bought' => Bal(journal', {"AccumDepreciation"}) = -(Accumulated') /\ (late' \/ Accumulated' <= Depreciable)
  BY <1>2 DEF BooksInv, Wear
<1>4. \A c \in Clerks : clerk'[c].at = "read" =>
        /\ clerk'[c].period \in Months /\ clerk'[c].period <= month'
        /\ ~late' /\ clerk'[c].period = month' /\ asset'[month'] = 0 => clerk'[c].acc = Accumulated'
  BY <1>2 DEF BooksInv, Wear
<1> QED BY <1>1, <1>3, <1>4 DEF Wear

\* The control accounts.
LEMMA TiesInvoice ==
    ASSUME BooksInv, NEW i \in Invoices, NEW w, DocOK(w), invoice' = [invoice EXCEPT ![i] = w],
           UNCHANGED <<month, expense, asset, clerk, late>>,
           NEW dr \in Accounts, NEW cr \in Accounts, NEW n \in Int, Posted(dr, cr, n),
           Side(dr, "AR", n) - Side(cr, "AR", n) = Open(w) - Open(invoice[i]),
           dr \notin {"AP", "AccumDepreciation"}, cr \notin {"AP", "AccumDepreciation"}
    PROVE  BooksInv'
<1>1. /\ DocsOK' /\ ComputeAging(invoice) \in Int
      /\ ComputeAging(invoice') = (ComputeAging(invoice) - Open(invoice[i])) + Open(w)
  BY InvoiceStep
<1>2. {"AR", "AP", "AccumDepreciation"} \subseteq Accounts
  BY DEF Accounts
<1>3. /\ Bal(journal', {"AR"}) = (Bal(journal, {"AR"}) + Side(dr, "AR", n)) - Side(cr, "AR", n)
      /\ Bal(journal', {"AP"}) = Bal(journal, {"AP"})
      /\ Bal(journal', {"AccumDepreciation"}) = Bal(journal, {"AccumDepreciation"})
  <2>1. Side(dr, "AP", n) = 0 /\ Side(cr, "AP", n) = 0 /\ Side(dr, "AccumDepreciation", n) = 0 /\ Side(cr, "AccumDepreciation", n) = 0
    BY DEF Side
  <2>2. \A a \in {"AR", "AP", "AccumDepreciation"} :
           Bal(journal, {a}) \in Int /\ Bal(journal', {a}) = (Bal(journal, {a}) + Side(dr, a, n)) - Side(cr, a, n)
    BY <1>2 DEF Posted
  <2>3. \A b \in Int : (b + 0) - 0 = b
    OBVIOUS
  <2> QED BY <2>1, <2>2, <2>3
<1>4. Open(w) \in Int /\ Open(invoice[i]) \in Int
  <2>1. invoice[i] \in Docs /\ w \in Docs
    BY DEF BooksInv, DocsOK, DocOK
  <2> QED BY <2>1 DEF Docs, Open
<1>5. Side(dr, "AR", n) \in Int /\ Side(cr, "AR", n) \in Int
  BY DEF Side
<1>6. Bal(journal', {"AR"}) = ComputeAging(invoice')
  <2>1. PICK b \in Int, o \in Int, p \in Int, x \in Int, y \in Int :
           b = ComputeAging(invoice) /\ o = Open(invoice[i]) /\ p = Open(w) /\ x = Side(dr, "AR", n) /\ y = Side(cr, "AR", n)
    BY <1>1, <1>4, <1>5
  <2>2. Bal(journal, {"AR"}) = b
    BY <2>1 DEF BooksInv, Ties
  <2>3. x - y = p - o
    BY <2>1
  <2>4. (b + x) - y = (b - o) + p
    BY <2>3
  <2> QED BY <1>1, <1>3, <2>1, <2>2, <2>4
<1>7. Bal(journal', {"AP"}) = -ComputeAging(expense')
  BY <1>3 DEF BooksInv, Ties
<1>8. Ties'
  BY <1>6, <1>7 DEF Ties, Posted
<1>9. TimeType' /\ ClerkType' /\ AssetType' /\ Wear'
  BY <1>3, WearKept
<1> QED BY <1>1, <1>8, <1>9 DEF BooksInv

\* Payables follow an expense.
LEMMA TiesExpense ==
    ASSUME BooksInv, NEW i \in Expenses, NEW w, DocOK(w), expense' = [expense EXCEPT ![i] = w],
           UNCHANGED <<month, invoice, asset, clerk, late>>,
           NEW dr \in Accounts, NEW cr \in Accounts, NEW n \in Int, Posted(dr, cr, n),
           Side(dr, "AP", n) - Side(cr, "AP", n) = Open(expense[i]) - Open(w),
           dr \notin {"AR", "AccumDepreciation"}, cr \notin {"AR", "AccumDepreciation"}
    PROVE  BooksInv'
<1>1. /\ DocsOK' /\ ComputeAging(expense) \in Int
      /\ ComputeAging(expense') = (ComputeAging(expense) - Open(expense[i])) + Open(w)
  BY ExpenseStep
<1>2. {"AR", "AP", "AccumDepreciation"} \subseteq Accounts
  BY DEF Accounts
<1>3. /\ Bal(journal', {"AP"}) = (Bal(journal, {"AP"}) + Side(dr, "AP", n)) - Side(cr, "AP", n)
      /\ Bal(journal', {"AR"}) = Bal(journal, {"AR"})
      /\ Bal(journal', {"AccumDepreciation"}) = Bal(journal, {"AccumDepreciation"})
  <2>1. Side(dr, "AR", n) = 0 /\ Side(cr, "AR", n) = 0 /\ Side(dr, "AccumDepreciation", n) = 0 /\ Side(cr, "AccumDepreciation", n) = 0
    BY DEF Side
  <2>2. \A a \in {"AR", "AP", "AccumDepreciation"} :
           Bal(journal, {a}) \in Int /\ Bal(journal', {a}) = (Bal(journal, {a}) + Side(dr, a, n)) - Side(cr, a, n)
    BY <1>2 DEF Posted
  <2>3. \A b \in Int : (b + 0) - 0 = b
    OBVIOUS
  <2> QED BY <2>1, <2>2, <2>3
<1>4. Open(w) \in Int /\ Open(expense[i]) \in Int
  <2>1. expense[i] \in Docs /\ w \in Docs
    BY DEF BooksInv, DocsOK, DocOK
  <2> QED BY <2>1 DEF Docs, Open
<1>5. Side(dr, "AP", n) \in Int /\ Side(cr, "AP", n) \in Int
  BY DEF Side
<1>6. Bal(journal', {"AP"}) = -ComputeAging(expense')
  <2>1. PICK b \in Int, o \in Int, p \in Int, x \in Int, y \in Int :
           b = ComputeAging(expense) /\ o = Open(expense[i]) /\ p = Open(w) /\ x = Side(dr, "AP", n) /\ y = Side(cr, "AP", n)
    BY <1>1, <1>4, <1>5
  <2>2. Bal(journal, {"AP"}) = -b
    BY <2>1 DEF BooksInv, Ties
  <2>3. x - y = o - p
    BY <2>1
  <2>4. ((-b) + x) - y = -((b - o) + p)
    BY <2>3
  <2> QED BY <1>1, <1>3, <2>1, <2>2, <2>4
<1>7. Bal(journal', {"AR"}) = ComputeAging(invoice')
  BY <1>3 DEF BooksInv, Ties
<1>8. Ties'
  BY <1>6, <1>7 DEF Ties, Posted
<1>9. TimeType' /\ ClerkType' /\ AssetType' /\ Wear'
  BY <1>3, WearKept
<1> QED BY <1>1, <1>8, <1>9 DEF BooksInv

-----------------------------------------------------------------------------
(* The handlers.                                                           *)

\* createInvoiceHandler
LEMMA InvoiceCreated ==
    ASSUME BooksInv, NEW i \in Invoices, CreateInvoiceHandler(i) PROVE BooksInv'
<1>1. PICK mode \in {"full", "prorated", "no_charge"}, n \in Amounts, due \in Months : CreateInvoice(i, mode, n, due)
  BY DEF CreateInvoiceHandler
<1>2. PICK t : t = IF mode = "no_charge" THEN 0 ELSE n
  OBVIOUS
<1>3. t \in Nat /\ due \in Int
  BY <1>2, BooksAssumption DEF Months
<1>4. PICK w : w = [st |-> "unpaid", total |-> t, paid |-> 0, due |-> due]
  OBVIOUS
<1>5. /\ invoice' = [invoice EXCEPT ![i] = w] /\ invoice[i].st = "none"
      /\ IF t > 0 THEN PostJournal("AR", "Revenue", t) ELSE UNCHANGED journal
      /\ UNCHANGED <<month, expense, asset, clerk, late>>
  BY <1>1, <1>2, <1>4 DEF CreateInvoice, CreateInvoiceHandler
<1>6. DocOK(w) /\ Open(w) = t /\ Open(invoice[i]) = 0
  BY <1>3, <1>4, <1>5 DEF DocOK, Docs, DocStates, Open, Unsettled
<1>7. "AR" \in Accounts /\ "Revenue" \in Accounts /\ t \in Int
  BY <1>3 DEF Accounts
<1>8. Posted("AR", "Revenue", t)
  <2>1. CASE t > 0
    BY <1>5, <1>7, <2>1, PostNow
  <2>2. CASE t = 0
    BY <1>5, <1>7, <2>2, PostNothing
  <2> QED BY <1>3, <2>1, <2>2
<1>9. Side("AR", "AR", t) - Side("Revenue", "AR", t) = Open(w) - Open(invoice[i])
  BY <1>3, <1>6 DEF Side
<1> QED BY <1>5, <1>6, <1>7, <1>8, <1>9, TiesInvoice

\* createPaidInvoiceForRenewal
LEMMA PaidInvoiceCreated ==
    ASSUME BooksInv, NEW i \in Invoices, NEW n \in Amounts, CreatePaidInvoice(i, n) PROVE BooksInv'
<1>1. n \in Nat /\ n \in Int /\ month \in Int
  BY BooksAssumption DEF BooksInv, TimeType, Months
<1>2. PICK w : w = [st |-> "paid", total |-> n, paid |-> n, due |-> month]
  OBVIOUS
<1>3. /\ invoice' = [invoice EXCEPT ![i] = w] /\ invoice[i].st = "none" /\ PostJournal("Cash", "Revenue", n)
      /\ UNCHANGED <<month, expense, asset, clerk, late>>
  BY <1>2 DEF CreatePaidInvoice
<1>4. DocOK(w) /\ Open(w) = 0 /\ Open(invoice[i]) = 0
  BY <1>1, <1>2, <1>3 DEF DocOK, Docs, DocStates, Open, Unsettled
<1>5. "Cash" \in Accounts /\ "Revenue" \in Accounts
  BY DEF Accounts
<1>6. Posted("Cash", "Revenue", n)
  BY <1>1, <1>3, <1>5, PostNow
<1>7. Side("Cash", "AR", n) - Side("Revenue", "AR", n) = Open(w) - Open(invoice[i])
  BY <1>4 DEF Side
<1> QED BY <1>1, <1>3, <1>4, <1>5, <1>6, <1>7, TiesInvoice

\* The document a void leaves.
LEMMA VoidDoc ==
    ASSUME NEW d, DocOK(d), Voidable(d), NEW w, w = [d EXCEPT !.st = "void"]
    PROVE  DocOK(w) /\ Open(w) = 0 /\ Open(d) = d.total /\ d.total \in Nat
<1>1. d \in Docs /\ w \in Docs /\ w.st = "void" /\ w.total = d.total /\ w.paid = d.paid
  BY DEF DocOK, Docs, DocStates
<1>2. DocOK(w) /\ Open(w) = 0
  BY <1>1 DEF DocOK, Open, Unsettled
<1>3. d.total \in Nat /\ d.paid \in Nat
  BY <1>1 DEF Docs
<1>4. Open(d) = d.total
  BY <1>1, <1>3 DEF DocOK, Voidable, Open, Unsettled
<1> QED BY <1>2, <1>3, <1>4

\* voidInvoice
LEMMA InvoiceVoided ==
    ASSUME BooksInv, NEW i \in Invoices, VoidInvoice(i), UNCHANGED <<month, expense, asset, clerk, late>>
    PROVE  BooksInv'
<1>1. PICK d : d = invoice[i]
  OBVIOUS
<1>2. DocOK(d) /\ Voidable(d)
  BY <1>1 DEF BooksInv, DocsOK, VoidInvoice
<1>3. PICK w : w = [d EXCEPT !.st = "void"]
  OBVIOUS
<1>4. DocOK(w) /\ Open(w) = 0 /\ Open(d) = d.total /\ d.total \in Nat
  BY <1>2, <1>3, VoidDoc
<1>5. PICK t \in Nat : t = d.total
  BY <1>4
<1>6. invoice' = [invoice EXCEPT ![i] = w] /\ IF t > 0 THEN PostJournal("Revenue", "AR", t) ELSE UNCHANGED journal
  BY <1>1, <1>3, <1>5 DEF VoidInvoice, ReverseJournal
<1>7. "AR" \in Accounts /\ "Revenue" \in Accounts /\ t \in Int
  BY DEF Accounts
<1>8. Posted("Revenue", "AR", t)
  <2>1. CASE t > 0
    BY <1>6, <1>7, <2>1, PostNow
  <2>2. CASE t = 0
    BY <1>6, <1>7, <2>2, PostNothing
  <2> QED BY <2>1, <2>2
<1>9. Side("Revenue", "AR", t) - Side("AR", "AR", t) = Open(w) - Open(invoice[i])
  BY <1>1, <1>4, <1>5 DEF Side
<1> QED BY <1>4, <1>6, <1>7, <1>8, <1>9, TiesInvoice

\* voidExpenseHandler
LEMMA ExpenseVoided ==
    ASSUME BooksInv, NEW i \in Expenses, VoidExpenseHandler(i) PROVE BooksInv'
<1>1. PICK d : d = expense[i]
  OBVIOUS
<1>2. DocOK(d) /\ Voidable(d) /\ UNCHANGED <<month, invoice, asset, clerk, late>>
  BY <1>1 DEF BooksInv, DocsOK, VoidExpense, VoidExpenseHandler
<1>3. PICK w : w = [d EXCEPT !.st = "void"]
  OBVIOUS
<1>4. DocOK(w) /\ Open(w) = 0 /\ Open(d) = d.total /\ d.total \in Nat
  BY <1>2, <1>3, VoidDoc
<1>5. PICK t \in Nat : t = d.total
  BY <1>4
<1>6. expense' = [expense EXCEPT ![i] = w] /\ PostJournal("AP", "OperatingExpense", t)
  BY <1>1, <1>3, <1>5 DEF VoidExpense, VoidExpenseHandler, ReverseJournal
<1>7. "AP" \in Accounts /\ "OperatingExpense" \in Accounts /\ t \in Int
  BY DEF Accounts
<1>8. Posted("AP", "OperatingExpense", t)
  BY <1>6, <1>7, PostNow
<1>9. Side("AP", "AP", t) - Side("OperatingExpense", "AP", t) = Open(expense[i]) - Open(w)
  BY <1>1, <1>4, <1>5 DEF Side
<1> QED BY <1>2, <1>4, <1>6, <1>7, <1>8, <1>9, TiesExpense

\* The document a payment leaves.
LEMMA SettledDoc ==
    ASSUME NEW d, DocOK(d), NEW n \in Nat, MaySettle(d, n), NEW w, w = Settle(d, n)
    PROVE  DocOK(w) /\ Open(d) \in Int /\ Open(w) = Open(d) - n
<1>1. d \in Docs /\ d.total \in Nat /\ d.paid \in Nat
  BY DEF DocOK, Docs
<1>2. PICK a : a = StatusOf(d, d.paid + n)
  OBVIOUS
<1>3. a \in {"unpaid", "partial", "due", "paid"} /\ (a = "paid" => d.paid + n >= d.total)
  BY <1>2 DEF StatusOf
<1>4. w = [d EXCEPT !.paid = d.paid + n, !.st = a]
  BY <1>2 DEF Settle
<1>5. w \in Docs /\ w.st = a /\ w.total = d.total /\ w.paid = d.paid + n
  <2>1. PICK x \in Nat : x = d.paid + n
    BY <1>1
  <2>2. PICK e : e = [d EXCEPT !.paid = x]
    OBVIOUS
  <2>3. e \in Docs /\ e.total = d.total /\ e.paid = x
    BY <1>1, <2>2 DEF Docs
  <2>4. w = [e EXCEPT !.st = a]
    BY <1>1, <1>4, <2>1, <2>2 DEF Docs
  <2>5. a \in DocStates
    BY <1>3 DEF DocStates
  <2> QED BY <2>1, <2>3, <2>4, <2>5 DEF Docs
<1>6. d.paid < d.total /\ d.paid + n <= d.total /\ Unsettled(d)
  BY <1>1 DEF MaySettle, DocOK, Unsettled
<1>7. DocOK(w)
  BY <1>1, <1>3, <1>5, <1>6 DEF DocOK
<1>8. Open(d) = d.total - d.paid
  BY <1>6 DEF Open
<1>9. Open(w) = d.total - (d.paid + n)
  <2>1. CASE a = "paid"
    <3>1. Open(w) = 0
      BY <1>5, <2>1 DEF Open, Unsettled
    <3> QED BY <1>1, <1>3, <1>6, <2>1, <3>1
  <2>2. CASE a # "paid"
    BY <1>3, <1>5, <2>2 DEF Open, Unsettled
  <2> QED BY <2>1, <2>2
<1> QED BY <1>1, <1>7, <1>8, <1>9

\* createARReceiptHandler
LEMMA ReceiptPosted ==
    ASSUME BooksInv, NEW i \in Invoices, CreateARReceiptHandler(i) PROVE BooksInv'
<1>1. PICK n \in Amounts : PostARReceipt(i, n)
  BY DEF CreateARReceiptHandler
<1>2. n \in Nat /\ n \in Int
  BY BooksAssumption
<1>3. PICK d : d = invoice[i]
  OBVIOUS
<1>4. PICK w : w = Settle(d, n)
  OBVIOUS
<1>5. DocOK(d) /\ MaySettle(d, n)
  BY <1>1, <1>3 DEF BooksInv, DocsOK, PostARReceipt
<1>6. DocOK(w) /\ Open(d) \in Int /\ Open(w) = Open(d) - n
  BY <1>2, <1>4, <1>5, SettledDoc
<1>7. /\ invoice' = [invoice EXCEPT ![i] = w] /\ PostJournal("Cash", "AR", n)
      /\ UNCHANGED <<month, expense, asset, clerk, late>>
  BY <1>1, <1>3, <1>4 DEF PostARReceipt, CreateARReceiptHandler
<1>8. "AR" \in Accounts /\ "Cash" \in Accounts
  BY DEF Accounts
<1>9. Posted("Cash", "AR", n)
  BY <1>2, <1>7, <1>8, PostNow
<1>10. Side("Cash", "AR", n) - Side("AR", "AR", n) = Open(w) - Open(invoice[i])
  <2>1. Side("Cash", "AR", n) = 0 /\ Side("AR", "AR", n) = n
    BY DEF Side
  <2> QED BY <1>2, <1>3, <1>6, <2>1
<1> QED BY <1>2, <1>6, <1>7, <1>8, <1>9, <1>10, TiesInvoice

\* createAPPaymentHandler
LEMMA PaymentPosted ==
    ASSUME BooksInv, NEW i \in Expenses, CreateAPPaymentHandler(i) PROVE BooksInv'
<1>1. PICK n \in Amounts : PostAPPayment(i, n)
  BY DEF CreateAPPaymentHandler
<1>2. n \in Nat /\ n \in Int
  BY BooksAssumption
<1>3. PICK d : d = expense[i]
  OBVIOUS
<1>4. PICK w : w = Settle(d, n)
  OBVIOUS
<1>5. DocOK(d) /\ MaySettle(d, n)
  BY <1>1, <1>3 DEF BooksInv, DocsOK, PostAPPayment
<1>6. DocOK(w) /\ Open(d) \in Int /\ Open(w) = Open(d) - n
  BY <1>2, <1>4, <1>5, SettledDoc
<1>7. /\ expense' = [expense EXCEPT ![i] = w] /\ PostJournal("AP", "Cash", n)
      /\ UNCHANGED <<month, invoice, asset, clerk, late>>
  BY <1>1, <1>3, <1>4 DEF PostAPPayment, CreateAPPaymentHandler
<1>8. "AP" \in Accounts /\ "Cash" \in Accounts
  BY DEF Accounts
<1>9. Posted("AP", "Cash", n)
  BY <1>2, <1>7, <1>8, PostNow
<1>10. Side("AP", "AP", n) - Side("Cash", "AP", n) = Open(expense[i]) - Open(w)
  <2>1. Side("Cash", "AP", n) = 0 /\ Side("AP", "AP", n) = n
    BY DEF Side
  <2> QED BY <1>2, <1>3, <1>6, <2>1
<1> QED BY <1>2, <1>6, <1>7, <1>8, <1>9, <1>10, TiesExpense

\* createExpenseHandler
LEMMA ExpenseCreated ==
    ASSUME BooksInv, NEW i \in Expenses, CreateExpenseHandler(i) PROVE BooksInv'
<1>1. PICK n \in Amounts, due \in Months : CreateExpense(i, n, due)
  BY DEF CreateExpenseHandler
<1>2. n \in Nat /\ n \in Int /\ due \in Int
  BY BooksAssumption DEF Months
<1>3. PICK w : w = [st |-> "unpaid", total |-> n, paid |-> 0, due |-> due]
  OBVIOUS
<1>4. /\ expense' = [expense EXCEPT ![i] = w] /\ expense[i].st = "none" /\ PostJournal("OperatingExpense", "AP", n)
      /\ UNCHANGED <<month, invoice, asset, clerk, late>>
  BY <1>1, <1>3 DEF CreateExpense, CreateExpenseHandler
<1>5. DocOK(w) /\ Open(w) = n /\ Open(expense[i]) = 0
  BY <1>2, <1>3, <1>4 DEF DocOK, Docs, DocStates, Open, Unsettled
<1>6. "AP" \in Accounts /\ "OperatingExpense" \in Accounts
  BY DEF Accounts
<1>7. Posted("OperatingExpense", "AP", n)
  BY <1>2, <1>4, <1>6, PostNow
<1>8. Side("OperatingExpense", "AP", n) - Side("AP", "AP", n) = Open(expense[i]) - Open(w)
  BY <1>2, <1>5 DEF Side
<1> QED BY <1>2, <1>4, <1>5, <1>6, <1>7, <1>8, TiesExpense

-----------------------------------------------------------------------------
(* The fixed asset.                                                        *)

\* What is accumulated is a number.
LEMMA AccumulatedInt == ASSUME AssetType PROVE Accumulated \in Int
<1>1. PICK f \in [Months -> Int] : f = asset
  BY DEF AssetType
<1>2. SumFunctionOnSet(f, Months) \in Int
  BY <1>1, MonthsFinite, SumType
<1>3. Accumulated = SumFunctionOnSet(f, Months)
  BY <1>1 DEF Accumulated, SumFunction
<1> QED BY <1>2, <1>3

\* Nothing is accumulated in a new asset.
LEMMA SumZero == ASSUME NEW f, f = [m \in Months |-> 0] PROVE SumFunctionOnSet(f, Months) = 0
<1>1. \A m \in Months : f[m] = 0
  OBVIOUS
<1> QED BY <1>1, MonthsFinite, SumZeros

\* The control accounts rest.
LEMMA TiesKept ==
    ASSUME BooksInv, UNCHANGED docVars, NEW dr \in Accounts, NEW cr \in Accounts, NEW n \in Int, Posted(dr, cr, n),
           dr \notin {"AR", "AP"}, cr \notin {"AR", "AP"}
    PROVE  DocsOK' /\ Ties'
<1>1. DocsOK' /\ ComputeAging(invoice') = ComputeAging(invoice) /\ ComputeAging(expense') = ComputeAging(expense)
  BY DocsKept
<1>2. {"AR", "AP"} \subseteq Accounts
  BY DEF Accounts
<1>3. Bal(journal', {"AR"}) = Bal(journal, {"AR"}) /\ Bal(journal', {"AP"}) = Bal(journal, {"AP"})
  <2>1. Side(dr, "AP", n) = 0 /\ Side(cr, "AP", n) = 0 /\ Side(dr, "AR", n) = 0 /\ Side(cr, "AR", n) = 0
    BY DEF Side
  <2>2. \A a \in {"AR", "AP"} :
           Bal(journal, {a}) \in Int /\ Bal(journal', {a}) = (Bal(journal, {a}) + Side(dr, a, n)) - Side(cr, a, n)
    BY <1>2 DEF Posted
  <2>3. \A b \in Int : (b + 0) - 0 = b
    OBVIOUS
  <2> QED BY <2>1, <2>2, <2>3
<1>4. Bal(journal', {"AR"}) = ComputeAging(invoice') /\ Bal(journal', {"AP"}) = -ComputeAging(expense')
  BY <1>1, <1>3 DEF BooksInv, Ties
<1> QED BY <1>1, <1>4 DEF Ties, Posted

\* createFixedAsset
LEMMA AssetBought == ASSUME BooksInv, CreateFixedAsset PROVE BooksInv'
<1>1. /\ ~Bought /\ asset' = [m \in Months |-> 0] /\ PostJournal("FixedAssets", "Cash", Depreciable)
      /\ UNCHANGED <<month, docVars, clerk, late>>
  BY DEF CreateFixedAsset
<1>2. "FixedAssets" \in Accounts /\ "Cash" \in Accounts /\ "AccumDepreciation" \in Accounts /\ Depreciable \in Int
      /\ Depreciable \in Nat
  BY BooksAssumption DEF Accounts
<1>3. Posted("FixedAssets", "Cash", Depreciable)
  BY <1>1, <1>2, PostNow
<1>4. DocsOK' /\ Ties'
  BY <1>1, <1>2, <1>3, TiesKept
<1>5. TimeType' /\ ClerkType' /\ AssetType' /\ Bought'
  BY <1>1 DEF BooksInv, TimeType, ClerkType, AssetType, Bought
<1>6. Accumulated' = 0
  <2>1. PICK f : f = asset'
    OBVIOUS
  <2>2. f = [m \in Months |-> 0] /\ DOMAIN f = Months
    BY <1>1, <2>1
  <2>3. SumFunctionOnSet(f, Months) = 0
    BY <2>2, SumZero
  <2> QED BY <2>1, <2>2, <2>3 DEF Accumulated, SumFunction
<1>7. Bal(journal', {"AccumDepreciation"}) = 0
  <2>1. Side("FixedAssets", "AccumDepreciation", Depreciable) = 0 /\ Side("Cash", "AccumDepreciation", Depreciable) = 0
    BY DEF Side
  <2>2. Bal(journal', {"AccumDepreciation"}) = (Bal(journal, {"AccumDepreciation"})
            + Side("FixedAssets", "AccumDepreciation", Depreciable)) - Side("Cash", "AccumDepreciation", Depreciable)
    BY <1>2, <1>3 DEF Posted
  <2>3. Bal(journal, {"AccumDepreciation"}) = 0
    BY <1>1 DEF BooksInv, Wear
  <2> QED BY <2>1, <2>2, <2>3
<1>8. Wear'
  <2>1. \A c \in Clerks : clerk'[c].at # "read"
    BY <1>1 DEF BooksInv, Wear
  <2>2. Bal(journal', {"AccumDepreciation"}) = -(Accumulated') /\ Accumulated' <= Depreciable
    <3>1. PICK a \in Int : a = Accumulated' /\ a = 0
      BY <1>6
    <3>2. a <= 0 /\ a >= 0 /\ a <= Depreciable
      BY <1>2, <3>1
    <3>3. -a = 0
      BY <3>2, MinusZero
    <3> QED BY <1>7, <3>1, <3>2, <3>3
  <2> QED BY <1>5, <2>1, <2>2 DEF Wear
<1> QED BY <1>4, <1>5, <1>8 DEF BooksInv

\* runDepreciation, its read
LEMMA DepreciationBegun == ASSUME BooksInv, NEW c \in Clerks, DepreciationRead(c) PROVE BooksInv'
<1>1. /\ Bought /\ UNCHANGED <<month, journal, docVars, asset, late>>
      /\ clerk' = [clerk EXCEPT ![c] = [at |-> "read", period |-> month, acc |-> Accumulated]]
  BY DEF DepreciationRead
<1>2. DocsOK' /\ TimeType' /\ AssetType'
  BY <1>1, DocsKept DEF BooksInv, TimeType, AssetType
<1>3. Ties'
  BY <1>1 DEF BooksInv, Ties, docVars
<1>4. (Bought' <=> Bought) /\ Accumulated' = Accumulated
  BY <1>1 DEF Bought, Accumulated
<1>5. PICK w : w = [at |-> "read", period |-> month, acc |-> Accumulated]
  OBVIOUS
<1>6. Accumulated \in Int /\ month \in Int /\ month \in Months
  BY AccumulatedInt, BooksAssumption DEF BooksInv, TimeType, Months
<1>7. w \in [at : {"idle", "read"}, period : Int, acc : Int] /\ w.period = month /\ w.acc = Accumulated
  BY <1>5, <1>6
<1>8. ClerkType' /\ clerk'[c] = w /\ \A d \in Clerks : d # c => clerk'[d] = clerk[d]
  BY <1>1, <1>5, <1>7 DEF BooksInv, ClerkType
<1>9. Wear'
  <2>1. ASSUME NEW d \in Clerks, clerk'[d].at = "read"
        PROVE  /\ clerk'[d].period \in Months /\ clerk'[d].period <= month'
               /\ ~late' /\ clerk'[d].period = month' /\ asset'[month'] = 0 => clerk'[d].acc = Accumulated'
    <3>1. CASE d = c
      BY <1>1, <1>4, <1>6, <1>7, <1>8, <3>1
    <3>2. CASE d # c
      BY <1>1, <1>4, <1>8, <2>1, <3>2 DEF BooksInv, Wear
    <3> QED BY <3>1, <3>2
  <2>2. Bal(journal', {"AccumDepreciation"}) = -(Accumulated') /\ (late' \/ Accumulated' <= Depreciable)
    BY <1>1, <1>4 DEF BooksInv, Wear
  <2> QED BY <1>1, <1>4, <2>1, <2>2 DEF Wear
<1> QED BY <1>2, <1>3, <1>8, <1>9 DEF BooksInv

\* The share is never more than what is left.
LEMMA ShareIs ==
    ASSUME NEW acc \in Int PROVE MonthlyShare(acc) \in Int /\ MonthlyShare(acc) <= Depreciable - acc
<1>1. PICK a, b : a = Depreciable \div LifeMonths /\ b = Depreciable - acc
  OBVIOUS
<1>2. a \in Int /\ b \in Int
  <2>1. Depreciable \in Int /\ LifeMonths \in Nat /\ LifeMonths > 0
    BY BooksAssumption
  <2> QED BY <1>1, <2>1
<1>3. \E x \in {a, b} : \A y \in {a, b} : x <= y
  <2>1. CASE a <= b
    BY <1>2, <2>1
  <2>2. CASE b < a
    BY <1>2, <2>2
  <2> QED BY <1>2, <2>1, <2>2
<1>4. Min({a, b}) \in {a, b} /\ \A y \in {a, b} : Min({a, b}) <= y
  BY <1>3 DEF Min
<1>5. MonthlyShare(acc) = Min({a, b})
  BY <1>1 DEF MonthlyShare
<1> QED BY <1>1, <1>2, <1>4, <1>5

\* runDepreciation, its commit
LEMMA DepreciationDone == ASSUME BooksInv, NEW c \in Clerks, DepreciationCommit(c) PROVE BooksInv'
<1>0. PICK n, m : n = MonthlyShare(clerk[c].acc) /\ m = clerk[c].period
  OBVIOUS
<1>1. /\ clerk[c].at = "read" /\ clerk' = [clerk EXCEPT ![c] = IdleClerk] /\ UNCHANGED <<month, docVars>>
      /\ IF n > 0 /\ asset[m] = 0
         THEN /\ asset' = [asset EXCEPT ![m] = n]
              /\ IsPair(journal, journal', m, "DepreciationExpense", "AccumDepreciation", n)
              /\ late' = (late \/ m # month)
         ELSE UNCHANGED <<asset, journal, late>>
  BY <1>0 DEF DepreciationCommit, IsPair
<1>2. clerk[c].acc \in Int /\ m \in Months /\ m <= month /\ Bought
  BY <1>0, <1>1 DEF BooksInv, ClerkType, Wear
<1>3. n \in Int /\ n <= Depreciable - clerk[c].acc
  BY <1>0, <1>2, ShareIs
<1>4. ClerkType' /\ clerk'[c].at = "idle" /\ \A d \in Clerks : d # c => clerk'[d] = clerk[d]
  <2>1. IdleClerk \in [at : {"idle", "read"}, period : Int, acc : Int] /\ IdleClerk.at = "idle"
    BY DEF IdleClerk
  <2> QED BY <1>1, <2>1 DEF BooksInv, ClerkType
<1>5. CASE ~(n > 0 /\ asset[m] = 0)
  <2>1. UNCHANGED <<month, docVars, asset, journal, late>>
    BY <1>1, <1>5
  <2>2. DocsOK' /\ TimeType' /\ AssetType'
    BY <2>1, DocsKept DEF BooksInv, TimeType, AssetType
  <2>3. Ties'
    BY <2>1 DEF BooksInv, Ties, docVars
  <2>4. (Bought' <=> Bought) /\ Accumulated' = Accumulated
    BY <2>1 DEF Bought, Accumulated
  <2>5. ASSUME NEW d \in Clerks, clerk'[d].at = "read"
        PROVE  /\ clerk'[d].period \in Months /\ clerk'[d].period <= month'
               /\ ~late' /\ clerk'[d].period = month' /\ asset'[month'] = 0 => clerk'[d].acc = Accumulated'
    BY <1>4, <2>1, <2>4, <2>5 DEF BooksInv, Wear
  <2>6. Bal(journal', {"AccumDepreciation"}) = -(Accumulated') /\ (late' \/ Accumulated' <= Depreciable)
    BY <1>2, <2>1, <2>4 DEF BooksInv, Wear
  <2>7. Wear'
    BY <1>2, <2>4, <2>5, <2>6 DEF Wear
  <2> QED BY <1>4, <2>2, <2>3, <2>7 DEF BooksInv
<1>6. CASE n > 0 /\ asset[m] = 0
  <2>1. /\ asset' = [asset EXCEPT ![m] = n] /\ late' = (late \/ m # month)
        /\ IsPair(journal, journal', m, "DepreciationExpense", "AccumDepreciation", n)
    BY <1>1, <1>6
  <2>2. "DepreciationExpense" \in Accounts /\ "AccumDepreciation" \in Accounts
    BY DEF Accounts
  <2>3. Posted("DepreciationExpense", "AccumDepreciation", n)
    BY <1>2, <1>3, <2>1, <2>2, PostStep DEF BooksInv
  <2>4. DocsOK' /\ Ties'
    BY <1>1, <1>3, <2>2, <2>3, TiesKept
  <2>5. TimeType' /\ AssetType' /\ asset'[m] = n /\ \A x \in Months : x # m => asset'[x] = asset[x]
    BY <1>1, <1>2, <1>3, <2>1 DEF BooksInv, TimeType, AssetType
  <2>6. Bought'
    <3>1. \A x \in Months : asset'[x] >= 0
      BY <1>2, <1>3, <1>6, <2>5 DEF Bought
    <3> QED BY <3>1 DEF Bought
  <2>7. Accumulated' = Accumulated + n /\ Accumulated \in Int
    <3>1. PICK f, e : f = asset /\ e = asset'
      OBVIOUS
    <3>2. f \in [Months -> Int] /\ e \in [Months -> Int] /\ e[m] = n /\ f[m] = 0 /\ \A x \in Months : x # m => e[x] = f[x]
      BY <1>6, <2>5, <3>1 DEF BooksInv, AssetType
    <3>3. SumFunctionOnSet(e, Months) = (SumFunctionOnSet(f, Months) - f[m]) + e[m]
      BY <1>2, <3>2, MonthsFinite, SumChange
    <3>4. Accumulated = SumFunctionOnSet(f, Months) /\ Accumulated' = SumFunctionOnSet(e, Months)
      BY <3>1, <3>2 DEF Accumulated, SumFunction
    <3>5. Accumulated \in Int
      BY AccumulatedInt DEF BooksInv
    <3> QED BY <1>3, <3>2, <3>3, <3>4, <3>5
  <2>8. Bal(journal', {"AccumDepreciation"}) = -(Accumulated')
    <3>1. /\ Side("DepreciationExpense", "AccumDepreciation", n) = 0
          /\ Side("AccumDepreciation", "AccumDepreciation", n) = n
      BY DEF Side
    <3>2. Bal(journal', {"AccumDepreciation"}) = (Bal(journal, {"AccumDepreciation"}) + 0) - n
      BY <2>2, <2>3, <3>1 DEF Posted
    <3>3. Bal(journal, {"AccumDepreciation"}) = -Accumulated
      BY <1>2 DEF BooksInv, Wear
    <3>4. PICK a \in Int : a = Accumulated
      BY <2>7
    <3>5. ((-a) + 0) - n = -(a + n)
      BY <1>3
    <3> QED BY <2>7, <3>2, <3>3, <3>4, <3>5
  <2>9. late' \/ Accumulated' <= Depreciable
    <3>1. CASE late'
      BY <3>1
    <3>2. CASE ~late'
      <4>1. ~late /\ m = month
        BY <2>1, <3>2
      <4>2. clerk[c].acc = Accumulated
        BY <1>0, <1>1, <1>6, <4>1 DEF BooksInv, Wear
      <4>3. Depreciable \in Int
        BY BooksAssumption
      <4> QED BY <1>3, <2>7, <4>2, <4>3
    <3> QED BY <3>1, <3>2
  <2>10. ASSUME NEW d \in Clerks, clerk'[d].at = "read"
         PROVE  /\ clerk'[d].period \in Months /\ clerk'[d].period <= month'
                /\ ~late' /\ clerk'[d].period = month' /\ asset'[month'] = 0 => clerk'[d].acc = Accumulated'
    <3>1. d # c /\ clerk'[d] = clerk[d]
      BY <1>4, <2>10
    <3>2. clerk[d].period \in Months /\ clerk[d].period <= month
      BY <2>10, <3>1 DEF BooksInv, Wear
    <3>3. ~late' => m = month
      BY <2>1
    <3>4. ~late' => asset'[month'] # 0
      BY <1>1, <1>3, <1>6, <2>5, <3>3
    <3> QED BY <1>1, <3>1, <3>2, <3>4
  <2>11. Wear'
    BY <2>6, <2>8, <2>9, <2>10 DEF Wear
  <2> QED BY <1>4, <2>4, <2>5, <2>11 DEF BooksInv
<1> QED BY <1>5, <1>6

\* The month ends.
LEMMA MonthPassed == ASSUME BooksInv, MonthPasses PROVE BooksInv'
<1>1. month < MaxMonth /\ month' = month + 1 /\ UNCHANGED <<journal, docVars, asset, clerk, late>>
  BY DEF MonthPasses
<1>2. DocsOK' /\ AssetType' /\ ClerkType'
  BY <1>1, DocsKept DEF BooksInv, AssetType, ClerkType
<1>3. Ties'
  BY <1>1 DEF BooksInv, Ties, docVars
<1>4. month \in Int /\ TimeType'
  BY <1>1, BooksAssumption DEF BooksInv, TimeType, Months
<1>5. (Bought' <=> Bought) /\ Accumulated' = Accumulated
  BY <1>1 DEF Bought, Accumulated
<1>6. ASSUME NEW d \in Clerks, clerk'[d].at = "read"
      PROVE  clerk'[d].period \in Months /\ clerk'[d].period <= month' /\ clerk'[d].period # month'
  <2>1. clerk'[d] = clerk[d] /\ clerk[d].period \in Months /\ clerk[d].period <= month
    BY <1>1, <1>6 DEF BooksInv, Wear
  <2>2. clerk[d].period \in Int
    BY <2>1 DEF Months
  <2> QED BY <1>1, <1>4, <2>1, <2>2
<1>7. /\ ~Bought' => Bal(journal', {"AccumDepreciation"}) = 0 /\ \A c \in Clerks : clerk'[c].at = "idle"
      /\ Bought' => Bal(journal', {"AccumDepreciation"}) = -(Accumulated') /\ (late' \/ Accumulated' <= Depreciable)
  BY <1>1, <1>5 DEF BooksInv, Wear
<1>8. Wear'
  BY <1>6, <1>7 DEF Wear
<1> QED BY <1>2, <1>3, <1>4, <1>8 DEF BooksInv

\* Steps that touch no money.
LEMMA BooksRest ==
    ASSUME BooksInv, UNCHANGED <<month, journal, docVars, asset, clerk, late>> PROVE BooksInv'
<1>1. DocsOK'
  BY DocsKept
<1>2. Ties'
  BY DEF BooksInv, Ties, docVars
<1>3. TimeType' /\ ClerkType' /\ AssetType' /\ Wear'
  BY WearKept
<1> QED BY <1>1, <1>2, <1>3 DEF BooksInv

\* Every step keeps the invariant.
LEMMA BooksStep == ASSUME BooksInv, [BooksNext]_booksVars PROVE BooksInv'
<1>1. ASSUME NEW i \in Invoices, VoidInvoiceHandler(i) PROVE BooksInv'
  <2>1. UNCHANGED <<month, expense, asset, clerk, late>> /\ (UNCHANGED <<journal, invoice>> \/ VoidInvoice(i))
    BY <1>1 DEF VoidInvoiceHandler
  <2> QED BY <2>1, InvoiceVoided, BooksRest DEF docVars
<1>2. ASSUME NEW i \in Invoices, ExecuteVoidInvoice(i) PROVE BooksInv'
  <2>1. UNCHANGED <<month, expense, asset, clerk, late>> /\ (UNCHANGED <<journal, invoice>> \/ VoidInvoice(i))
    BY <1>2 DEF ExecuteVoidInvoice
  <2> QED BY <2>1, InvoiceVoided, BooksRest DEF docVars
<1>3. CASE UNCHANGED booksVars
  BY <1>3, BooksRest DEF booksVars
<1> QED BY <1>1, <1>2, <1>3, InvoiceCreated, PaidInvoiceCreated, ReceiptPosted, ExpenseCreated, ExpenseVoided,
           PaymentPosted, AssetBought, DepreciationBegun, DepreciationDone, MonthPassed DEF BooksNext

\* It holds at first.
LEMMA BooksInitial == BooksInit => BooksInv
<1> SUFFICES ASSUME BooksInit PROVE BooksInv
  OBVIOUS
<1>1. TimeType /\ ClerkType
  <2>1. month \in Months /\ late \in BOOLEAN
    <3>1. month = 0 /\ late = FALSE
      BY DEF BooksInit
    <3>2. 0 \in Months
      BY BooksAssumption DEF Months
    <3> QED BY <3>1, <3>2, Zenon
  <2>2. IdleClerk \in [at : {"idle", "read"}, period : Int, acc : Int]
    BY DEF IdleClerk
  <2>3. clerk \in [Clerks -> [at : {"idle", "read"}, period : Int, acc : Int]]
    BY <2>2 DEF BooksInit
  <2> QED BY <2>1, <2>3 DEF TimeType, ClerkType
<1>a. PICK mi \in Int : mi = -1
  OBVIOUS
<1>2. AssetType /\ ~Bought
  <2>1. asset = [m \in Months |-> mi] /\ 0 \in Months /\ mi < 0
    BY <1>a, BooksAssumption DEF BooksInit, Months
  <2> QED BY <2>1 DEF AssetType, Bought
<1>3. NoDoc \in Docs /\ DocOK(NoDoc) /\ ~Unsettled(NoDoc)
  BY DEF NoDoc, Docs, DocOK, DocStates, Unsettled
<1>4. DocsOK
  BY <1>3 DEF BooksInit, DocsOK
<1>5. ComputeAging(invoice) = 0 /\ ComputeAging(expense) = 0
  <2>1. ASSUME NEW D, NEW docs, docs = [d \in D |-> NoDoc] PROVE ComputeAging(docs) = 0
    <3>1. {d \in DOMAIN docs : docs[d].st \notin {"none", "paid", "void"}} = {}
      BY <1>3, <2>1 DEF Unsettled
    <3>2. PICK f : f = [d \in DOMAIN docs |-> docs[d].total - docs[d].paid]
      OBVIOUS
    <3>3. ComputeAging(docs) = SumFunctionOnSet(f, {})
      BY <3>1, <3>2 DEF ComputeAging
    <3> QED BY <3>3, SumEmpty
  <2>2. PICK x, y : x = invoice /\ y = expense
    OBVIOUS
  <2>3. ComputeAging(x) = 0 /\ ComputeAging(y) = 0
    BY <2>1, <2>2 DEF BooksInit
  <2> QED BY <2>2, <2>3
<1>6. journal \in JournalType /\ \A s \in SUBSET Accounts : Bal(journal, s) = 0
  <2>1. PICK j : j = journal
    OBVIOUS
  <2>2. j = [m \in Months |-> [a \in Accounts |-> 0]]
    BY <2>1 DEF BooksInit
  <2>3. ASSUME NEW s \in SUBSET Accounts PROVE Bal(j, s) = 0
    <3>1. PICK z : z = [a \in Accounts |-> 0]
      OBVIOUS
    <3>2. SumFunctionOnSet(z, s) = 0
      <4>1. IsFiniteSet(s) /\ \A a \in s : z[a] = 0
        BY <3>1, AccountsFinite
      <4> QED BY <4>1, SumZeros
    <3>3. [m \in Months |-> SumFunctionOnSet(j[m], s)] = [m \in Months |-> 0]
      <4>1. \A m \in Months : j[m] = z
        BY <2>2, <3>1
      <4> QED BY <3>2, <4>1
    <3>4. PICK f : f = [m \in Months |-> 0]
      OBVIOUS
    <3>5. SumFunctionOnSet(f, Months) = 0
      BY <3>4, SumZero
    <3> QED BY <3>3, <3>4, <3>5 DEF Bal
  <2>4. j \in JournalType
    BY <2>2 DEF JournalType
  <2> QED BY <2>1, <2>3, <2>4
<1>7. Ties
  <2>1. /\ {"Cash", "AR", "FixedAssets", "AccumDepreciation"} \in SUBSET Accounts
        /\ {"AP"} \in SUBSET Accounts /\ {"AR"} \in SUBSET Accounts
        /\ {"Revenue", "OperatingExpense", "DepreciationExpense"} \in SUBSET Accounts
    BY DEF Accounts
  <2>2. Bal(journal, {"AR"}) = 0 /\ Bal(journal, {"AP"}) = 0
    BY <1>6, <2>1
  <2>3. Gap(journal) = 0
    BY <1>6, <2>1 DEF Gap
  <2>4. PICK a \in Int : a = ComputeAging(expense) /\ a = 0
    BY <1>5
  <2>5. -a = 0
    <3>1. a <= 0 /\ a >= 0
      BY <2>4
    <3> QED BY <3>1, MinusZero
  <2>6. Bal(journal, {"AP"}) = -ComputeAging(expense)
    BY <2>2, <2>4, <2>5
  <2> QED BY <1>5, <1>6, <2>2, <2>3, <2>6 DEF Ties
<1>8. Wear
  <2>1. {"AccumDepreciation"} \in SUBSET Accounts
    BY DEF Accounts
  <2>2. Bal(journal, {"AccumDepreciation"}) = 0
    BY <1>6, <2>1
  <2>3. \A c \in Clerks : clerk[c].at = "idle"
    BY DEF BooksInit, IdleClerk
  <2> QED BY <1>2, <2>2, <2>3 DEF Wear
<1> QED BY <1>1, <1>2, <1>4, <1>7, <1>8 DEF BooksInv

\* Receivables and payables are what the aging reports show as open, the sheet
\* balances, and an asset is written off beyond its value only by a run that
\* was committed after its month: for any documents, amounts and months
\* (billing/invoices.go, ar_ap.go, expenses.go, fixed_assets.go, statements.go).
THEOREM BooksCorrect == BooksSpec => []BooksTie
<1>1. BooksInit => BooksInv
  BY BooksInitial
<1>2. BooksInv /\ [BooksNext]_booksVars => BooksInv'
  BY BooksStep
<1>3. BooksInv => BooksTie
  BY BooksInvTie
<1> QED BY <1>1, <1>2, <1>3, PTL DEF BooksSpec

=============================================================================
