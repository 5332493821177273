------------------------- MODULE AcctSessionProofs -------------------------
(***************************************************************************)
(* For every number of records, every octet step, word size, timeout and   *)
(* fault budget: the session's variables keep their types; in any order of *)
(* delivery no octet that an applied record reports is missing from the    *)
(* billed usage; and, as long as nothing of the kinds MCAcctSession        *)
(* records has disturbed the session, usage and connected time are exact   *)
(* and no closed session is shown live.                                    *)
(*                                                                         *)
(* UsageCovers alone is not inductive: Advance adds only the difference to *)
(* the stored counter, so the proof also carries that the stored counter   *)
(* itself never exceeds the usage billed.  Exactness needs more: the row   *)
(* mirrors the newest record applied, and receipt times never decrease.    *)
(***************************************************************************)
EXTENDS MCAcctSession, TLAPS

\* The two halves of a 64-bit counter put together again: what a NAS splits
\* into octets and gigawords, totalBytes restores (record.go).
LEMMA TotalRestored ==
    ASSUME NEW x \in Nat
    PROVE  TotalBytes(x % Word, x \div Word) = x
<1>1. x % Word \in 0..(Word - 1) /\ x \div Word \in Nat
  BY WordAssumption, Z3
<1>2. (x % Word) % Word = x % Word
  BY <1>1, WordAssumption, Z3
<1>3. (x \div Word) * Word + (x % Word) = x
  BY WordAssumption, Z3
<1> QED
  BY <1>1, <1>2, <1>3 DEF TotalBytes

\* The counter of a record is a natural number.
LEMMA TotalType ==
    ASSUME NEW i \in Reports
    PROVE  Total(i) \in Nat
<1>1. i \in Nat /\ i - 1 \in Nat
  BY SessionAssumption DEF Reports
<1>2. Step \in Nat
  BY SessionAssumption
<1> DEFINE k == i - 1
<1>3. k \in Nat
  BY <1>1
<1> HIDE DEF k
<1>4. k * Step \in Nat
  BY <1>2, <1>3, Z3
<1> QED
  BY <1>4 DEF Total, k

\* advance (record.go): for the true counter x, the stored total reaches x
\* and the usage added makes good the whole of it on top of the old total.
LEMMA AdvanceFacts ==
    ASSUME NEW last \in Nat, NEW x \in Nat
    PROVE  LET a == Advance(last, x % Word, x \div Word)
           IN  /\ a.total \in Nat /\ a.delta \in Nat
               /\ a.total >= x
               /\ last + a.delta >= a.total
<1> DEFINE lo == x % Word
           hi == x \div Word
           cur == CurTotal(last, lo, hi)
<1>1. lo \in 0..(Word - 1) /\ hi \in Nat
  BY WordAssumption, Z3
<1>2. TotalBytes(lo, hi) = x
  BY TotalRestored
<1>3. cur \in Nat /\ cur >= x
  <2>1. CASE ~LooksWrapped(last, lo, hi)
    BY <2>1, <1>2 DEF CurTotal
  <2>2. CASE LooksWrapped(last, lo, hi)
    <3>1. hi = 0
      BY <2>2 DEF LooksWrapped
    <3>2. x = lo
      <4>1. (x \div Word) * Word + (x % Word) = x
        BY WordAssumption, Z3
      <4>2. 0 * Word = 0
        BY WordAssumption, Z3
      <4> QED
        BY <4>1, <4>2, <3>1, <1>1, WordAssumption
    <3> DEFINE w == (last \div Word) + 1
    <3>3. w \in Nat
      BY WordAssumption, Z3
    <3>4. cur = w * Word + lo
      BY <2>2 DEF CurTotal
    <3> HIDE DEF w, lo
    <3>5. w * Word \in Nat
      BY <3>3, WordAssumption, Z3
    <3> QED
      BY <3>2, <3>4, <3>5, <1>1, WordAssumption
  <2> QED
    BY <2>1, <2>2
<1>4. Advance(last, lo, hi) =
        [total |-> cur, delta |-> IF cur >= last THEN cur - last ELSE cur]
  BY DEF Advance
<1> HIDE DEF cur
<1> QED
  BY <1>3, <1>4

\* upsertSession: whichever branch computes the delta, usage that covered the
\* stored counter covers the new stored counter, which reaches the report.
LEMMA DeltaFacts ==
    ASSUME TypeOK, NEW i \in Reports
    PROVE  /\ Delta(i).total \in Nat /\ Delta(i).delta \in Nat
           /\ Delta(i).total >= Total(i)
           /\ row.bytes + Delta(i).delta >= Delta(i).total
<1>1. Total(i) \in Nat
  BY TotalType
<1>2. row.bytes \in Nat
  BY DEF TypeOK
<1>3. CASE Resets(i)
  <2>1. TotalBytes(Total(i) % Word, Total(i) \div Word) = Total(i)
    BY <1>1, TotalRestored
  <2>2. Delta(i).total = Total(i) /\ Delta(i).delta = Total(i)
    BY <1>3, <2>1 DEF Delta
  <2> QED
    BY <2>2, <1>1, <1>2
<1>4. CASE ~Resets(i)
  <2>1. Delta(i) = Advance(row.bytes, Total(i) % Word, Total(i) \div Word)
    BY <1>4 DEF Delta
  <2> QED
    BY <2>1, <1>1, <1>2, AdvanceFacts
<1> QED
  BY <1>3, <1>4

-----------------------------------------------------------------------------
\* What Apply, the only step that writes usage, preserves of the types.
LEMMA ApplyType ==
    ASSUME TypeOK, NEW i \in Reports, Apply(i)
    PROVE  TypeOK'
<1>1. Delta(i).total \in Nat /\ Delta(i).delta \in Nat
  BY DeltaFacts
<1>2. evt[i] \in Nat
  BY DEF Apply, TypeOK
<1>3. Connected(i) \in Nat
  BY <1>2 DEF Connected, TypeOK
<1>4. Written(i).bytes \in Nat /\ Written(i).start \in Nat /\ Written(i).last \in Nat
  BY <1>1, <1>2 DEF Written, TypeOK
<1>5. Written(i) \in [st : {"none", "open", "stopped", "reaped"}, bytes : Nat,
                      start : Nat, last : Nat, stale : {"no", "yes"}]
  BY <1>1, <1>2 DEF Written, TypeOK
<1>6. row' \in [st : {"none", "open", "stopped", "reaped"}, bytes : Nat,
                start : Nat, last : Nat, stale : {"no", "yes"}]
  BY <1>5 DEF Apply
<1>7. usage' \in Nat /\ secs' \in Nat
  <2> DEFINE d == Delta(i).delta
             c == Connected(i)
  <2>1. usage' = usage + d /\ secs' = secs + c
    BY DEF Apply
  <2>2. d \in Nat /\ c \in Nat /\ usage \in Nat /\ secs \in Nat
    BY <1>1, <1>3 DEF TypeOK
  <2> HIDE DEF d, c
  <2> QED
    BY <2>1, <2>2
<1>8. applied' \subseteq Reports /\ unacked' \subseteq applied'
  BY DEF Apply, TypeOK
<1>9. job' \in {"idle", "upsert", "remove"}
  BY DEF Apply
<1> QED
  BY <1>6, <1>7, <1>8, <1>9 DEF Apply, TypeOK

\* The reaper's steps keep the types.
LEMMA ReapType ==
    ASSUME TypeOK, Reap
    PROVE  TypeOK'
<1>1. CASE ReapOnce
  BY <1>1 DEF ReapOnce, TypeOK, recVars, sumVars
<1>2. CASE ReapSession
  <2>1. CASE row.st = "open"
    <3>1. /\ row' = [row EXCEPT !.st = "reaped", !.stale = "yes"]
          /\ reaper' = [reaper EXCEPT !.pc = "credit", !.last = row.last]
          /\ UNCHANGED <<now, evt, applied, unacked, usage, secs, live, job, faults>>
      BY <1>2, <2>1 DEF ReapSession, Reaped, recVars, sumVars
    <3>2. row' \in [st : {"none", "open", "stopped", "reaped"}, bytes : Nat,
                    start : Nat, last : Nat, stale : {"no", "yes"}]
      BY <3>1 DEF TypeOK
    <3>3. reaper' \in [pc : {"idle", "reap", "credit", "remove", "mark", "hget", "upsert"},
                       start : Nat, last : Nat]
      BY <3>1 DEF TypeOK
    <3> QED
      BY <3>1, <3>2, <3>3 DEF TypeOK
  <2>2. CASE row.st # "open"
    BY <1>2, <2>2 DEF ReapSession, Reaped, TypeOK, recVars, sumVars, Idle
  <2> QED
    BY <2>1, <2>2
<1>3. CASE ReapCredit
  <2>1. secs' \in Nat
    BY <1>3 DEF ReapCredit, TypeOK
  <2> QED
    BY <1>3, <2>1 DEF ReapCredit, TypeOK, recVars
<1>4. CASE ReapRemove
  BY <1>4 DEF ReapRemove, TypeOK, recVars, sumVars, Idle, Fault
<1>5. CASE MarkStale
  BY <1>5 DEF MarkStale, Dimmed, TypeOK, recVars, sumVars
<1>6. CASE MarkRead
  BY <1>6 DEF MarkRead, TypeOK, recVars, sumVars, Idle
<1>7. CASE MarkWrite
  BY <1>7 DEF MarkWrite, TypeOK, recVars, sumVars, Idle, Fault
<1> QED
  BY <1>1, <1>2, <1>3, <1>4, <1>5, <1>6, <1>7 DEF Reap

\* So do the statements of the reaper that fail.
LEMMA ReapFailsType ==
    ASSUME TypeOK, ReapFails
    PROVE  TypeOK' /\ row'.bytes = row.bytes
<1>1. row \in [st : {"none", "open", "stopped", "reaped"}, bytes : Nat,
               start : Nat, last : Nat, stale : {"no", "yes"}]
  BY DEF TypeOK
<1>2. ASSUME NEW w \in {row, Reaped, Dimmed}
      PROVE  /\ w \in [st : {"none", "open", "stopped", "reaped"}, bytes : Nat,
                       start : Nat, last : Nat, stale : {"no", "yes"}]
             /\ w.bytes = row.bytes
  BY <1>1 DEF Reaped, Dimmed
<1>3. row' \in {row, Reaped, Dimmed}
  BY DEF ReapFails
<1>4. reaper' \in [pc : {"idle", "reap", "credit", "remove", "mark", "hget", "upsert"},
                   start : Nat, last : Nat]
  BY DEF ReapFails, TypeOK, Idle
<1>5. UNCHANGED <<now, evt, applied, unacked, usage, secs, live, job>> /\ faults' \in Nat
  BY DEF ReapFails, Fault, TypeOK, recVars, sumVars
<1> QED
  BY <1>2, <1>3, <1>4, <1>5 DEF TypeOK

\* Every step of the session keeps the types.
LEMMA NextType ==
    ASSUME TypeOK, [Next]_svars
    PROVE  TypeOK'
<1>1. CASE Tick
  BY <1>1 DEF Tick, TypeOK, recVars, sumVars
<1>2. CASE Send
  <2>1. evt' \in Seq(Nat)
    BY <1>2 DEF Send, TypeOK
  <2> QED
    BY <1>2, <2>1 DEF Send, TypeOK, sumVars
<1>3. CASE Consume
  <2>1. PICK i \in Reports : Apply(i) \/ Duplicate(i)
    BY <1>3 DEF Consume
  <2>2. CASE Apply(i)
    BY <2>2, ApplyType
  <2>3. CASE Duplicate(i)
    BY <2>3 DEF Duplicate, TypeOK, sumVars
  <2> QED
    BY <2>1, <2>2, <2>3
<1>4. CASE LiveOp
  BY <1>4 DEF LiveOp, TypeOK, sumVars
<1>5. CASE LiveOpFails
  BY <1>5 DEF LiveOpFails, TypeOK, sumVars, Fault
<1>6. CASE Crash
  BY <1>6 DEF Crash, TypeOK, recVars, sumVars, Idle, Fault
<1>7. CASE Reap
  BY <1>7, ReapType
<1>8. CASE ReapFails
  BY <1>8, ReapFailsType
<1>9. CASE UNCHANGED svars
  BY <1>9 DEF svars, TypeOK, recVars, sumVars
<1> QED
  BY <1>1, <1>2, <1>3, <1>4, <1>5, <1>6, <1>7, <1>8, <1>9 DEF Next

\* The session's variables keep their types, whatever the constants.
THEOREM SessionTypeCorrect == Spec => []TypeOK
<1>1. Init => TypeOK
  BY DEF Init, TypeOK, NoRow, Idle
<1>2. TypeOK /\ [Next]_svars => TypeOK'
  BY NextType
<1> QED
  BY <1>1, <1>2, PTL DEF Spec

-----------------------------------------------------------------------------
\* The strengthening: the counter kept in the row is covered as well.
StoredCovered == usage >= row.bytes

CoverInv == StoredCovered /\ UsageCovers

\* No step but Apply writes the counters or the set of applied records.
LEMMA CountersSame ==
    ASSUME TypeOK, [Next]_svars, ~\E i \in Reports : Apply(i)
    PROVE  usage' = usage /\ row'.bytes = row.bytes /\ applied' = applied
<1>1. CASE Tick \/ Send \/ LiveOp \/ LiveOpFails \/ Crash
  BY <1>1 DEF Tick, Send, LiveOp, LiveOpFails, Crash, recVars, sumVars
<1>2. CASE Consume
  BY <1>2 DEF Consume, Duplicate, sumVars
<1>3. CASE Reap
  <2>1. CASE ReapOnce \/ ReapCredit \/ ReapRemove \/ MarkRead \/ MarkWrite
    BY <2>1 DEF ReapOnce, ReapCredit, ReapRemove, MarkRead, MarkWrite, recVars, sumVars
  <2>2. CASE ReapSession
    <3>1. CASE row.st = "open"
      <4>1. row' = [row EXCEPT !.st = "reaped", !.stale = "yes"]
        BY <2>2, <3>1 DEF ReapSession, Reaped
      <4>2. row'.bytes = row.bytes
        BY <4>1 DEF TypeOK
      <4> QED
        BY <2>2, <4>2 DEF ReapSession, recVars, sumVars
    <3>2. CASE row.st # "open"
      BY <2>2, <3>2 DEF ReapSession, Reaped, recVars, sumVars
    <3> QED
      BY <3>1, <3>2
  <2>3. CASE MarkStale
    BY <2>3 DEF MarkStale, Dimmed, TypeOK, recVars, sumVars
  <2> QED
    BY <1>3, <2>1, <2>2, <2>3 DEF Reap
<1>4. CASE ReapFails
  BY <1>4, ReapFailsType DEF ReapFails, recVars, sumVars
<1>5. CASE UNCHANGED svars
  BY <1>5 DEF svars, recVars, sumVars
<1> QED
  BY <1>1, <1>2, <1>3, <1>4, <1>5 DEF Next

\* A record applied, in whatever order, leaves the usage at or above every
\* counter reported so far.
LEMMA ApplyCovers ==
    ASSUME TypeOK, CoverInv, NEW i \in Reports, Apply(i)
    PROVE  CoverInv'
<1> DEFINE d == Delta(i).delta
           t == Delta(i).total
<1>1. d \in Nat /\ t \in Nat /\ t >= Total(i) /\ row.bytes + d >= t
  BY DeltaFacts
<1>2. usage' = usage + d
  BY DEF Apply
<1>3. row'.bytes = t
  BY DEF Apply, Written
<1>4. usage \in Nat /\ row.bytes \in Nat /\ usage >= row.bytes
  BY DEF TypeOK, CoverInv, StoredCovered
<1> HIDE DEF d, t
<1>5. usage' >= t /\ usage' >= usage /\ usage' \in Nat
  BY <1>1, <1>2, <1>4
<1>6. StoredCovered'
  BY <1>3, <1>5 DEF StoredCovered
<1>7. ASSUME NEW j \in applied'
      PROVE  usage' >= Total(j)
  <2>1. j \in Reports /\ (j = i \/ j \in applied)
    BY <1>7 DEF Apply, TypeOK
  <2>2. Total(j) \in Nat
    BY <2>1, TotalType
  <2>3. CASE j = i
    BY <2>3, <2>2, <1>1, <1>5
  <2>4. CASE j \in applied
    <3>1. usage >= Total(j)
      BY <2>4 DEF CoverInv, UsageCovers
    <3> QED
      BY <3>1, <2>2, <1>4, <1>5
  <2> QED
    BY <2>1, <2>3, <2>4
<1>8. UsageCovers'
  BY <1>7 DEF UsageCovers, Total
<1> QED
  BY <1>6, <1>8 DEF CoverInv

\* No octet reported is missing from the billed usage: in order or not, with
\* reaped and reopened sessions, crashes and lost live updates, for every
\* word size, number of records and timeout.
THEOREM CoversCorrect == Spec => []UsageCovers
<1>1. Init => CoverInv
  BY DEF Init, CoverInv, StoredCovered, UsageCovers, NoRow
<1>2. TypeOK /\ CoverInv /\ [Next]_svars => CoverInv'
  <2> SUFFICES ASSUME TypeOK, CoverInv, [Next]_svars PROVE CoverInv'
    OBVIOUS
  <2>1. CASE \E i \in Reports : Apply(i)
    BY <2>1, ApplyCovers
  <2>2. CASE ~\E i \in Reports : Apply(i)
    <3>1. usage' = usage /\ row'.bytes = row.bytes /\ applied' = applied
      BY <2>2, CountersSame
    <3> QED
      BY <3>1 DEF CoverInv, StoredCovered, UsageCovers
  <2> QED
    BY <2>1, <2>2
<1>3. CoverInv => UsageCovers
  BY DEF CoverInv
<1> QED
  BY <1>1, <1>2, <1>3, SessionTypeCorrect, PTL DEF Spec


-----------------------------------------------------------------------------
\* The history of disturbances watches the session and never steers it.
LEMMA MCStep == [MCNext]_<<svars, odd>> => [Next]_svars
BY DEF MCNext

LEMMA MCTyped == MCSpec => []TypeOK
<1>1. MCInit => Init
  BY DEF MCInit
<1> QED
  BY <1>1, MCStep, SessionTypeCorrect, PTL DEF MCSpec, Spec

\* What a step other than the application of a record may do to the parts
\* that bill: reap the row, credit the reaper's span, receive a record.
LEMMA SideSteps ==
    ASSUME TypeOK, [Next]_svars, ~\E i \in Reports : Apply(i)
    PROVE  /\ row'.start = row.start
           /\ row'.st = row.st \/ (row.st = "open" /\ row'.st = "reaped")
           /\ secs' = secs \/ reaper.pc = "credit"
           /\ reaper'.pc \in {"credit", "remove"}
                => reaper.pc \in {"credit", "remove"} \/ (row.st = "open" /\ row'.st = "reaped")
           /\ (evt' = evt /\ now' \in Nat /\ now' >= now) \/ (evt' = Append(evt, now) /\ now' = now)
<1>1. CASE Tick \/ Send \/ LiveOp \/ LiveOpFails \/ Crash
  <2>1. row' = row /\ secs' = secs /\ (reaper' = reaper \/ reaper' = Idle)
    BY <1>1 DEF Tick, Send, LiveOp, LiveOpFails, Crash, sumVars
  <2>2. (evt' = evt /\ now' \in Nat /\ now' >= now) \/ (evt' = Append(evt, now) /\ now' = now)
    BY <1>1 DEF Tick, Send, LiveOp, LiveOpFails, Crash, recVars, TypeOK
  <2> QED
    BY <2>1, <2>2 DEF Idle
<1>2. CASE Consume
  BY <1>2 DEF Consume, Duplicate, sumVars, TypeOK
<1>3. CASE Reap
  <2>0. evt' = evt /\ now' \in Nat /\ now' >= now
    BY <1>3 DEF Reap, ReapOnce, ReapSession, ReapCredit, ReapRemove, MarkStale, MarkRead,
                MarkWrite, recVars, TypeOK
  <2>1. CASE ReapOnce \/ ReapRemove \/ MarkRead \/ MarkWrite
    <3>1. row' = row /\ secs' = secs
      BY <2>1 DEF ReapOnce, ReapRemove, MarkRead, MarkWrite, sumVars
    <3>2. reaper'.pc \notin {"credit", "remove"}
      BY <2>1 DEF ReapOnce, ReapRemove, MarkRead, MarkWrite, Idle, TypeOK
    <3> QED
      BY <3>1, <3>2, <2>0
  <2>2. CASE ReapSession
    <3>1. CASE row.st = "open"
      <4>1. row' = [row EXCEPT !.st = "reaped", !.stale = "yes"]
        BY <2>2, <3>1 DEF ReapSession, Reaped
      <4>2. row'.start = row.start /\ row'.st = "reaped"
        BY <4>1 DEF TypeOK
      <4> QED
        BY <2>2, <3>1, <4>2, <2>0 DEF ReapSession, sumVars
    <3>2. CASE row.st # "open"
      BY <2>2, <3>2, <2>0 DEF ReapSession, Reaped, sumVars, Idle
    <3> QED
      BY <3>1, <3>2
  <2>3. CASE ReapCredit
    BY <2>3, <2>0 DEF ReapCredit
  <2>4. CASE MarkStale
    <3>1. row'.st = row.st /\ row'.start = row.start
      BY <2>4 DEF MarkStale, Dimmed, TypeOK
    <3>2. reaper'.pc = "hget" /\ secs' = secs
      BY <2>4 DEF MarkStale, sumVars, TypeOK
    <3> QED
      BY <3>1, <3>2, <2>0
  <2> QED
    BY <1>3, <2>1, <2>2, <2>3, <2>4 DEF Reap
<1>4. CASE ReapFails
  <2>1. row' \in {row, Reaped, Dimmed} /\ secs' = secs /\ evt' = evt /\ now' = now /\ now \in Nat
    BY <1>4 DEF ReapFails, recVars, sumVars, TypeOK
  <2>2. reaper'.pc \in {"credit", "remove"} => reaper.pc = "credit"
    BY <1>4 DEF ReapFails, Idle
  <2>3. ASSUME NEW w \in {row, Reaped, Dimmed}
        PROVE  /\ w.start = row.start
               /\ w.st = row.st \/ (row.st = "open" /\ w.st = "reaped")
    BY <2>3 DEF Reaped, Dimmed, TypeOK
  <2> QED
    BY <2>1, <2>2, <2>3
<1>5. CASE UNCHANGED svars
  BY <1>5 DEF svars, recVars, sumVars, TypeOK
<1> QED
  BY <1>1, <1>2, <1>3, <1>4, <1>5 DEF Next

-----------------------------------------------------------------------------
\* Undisturbed, the row mirrors the newest record applied: its state, its
\* counter and the usage billed; the time is credited by the Stop alone, over
\* a span that cannot be negative because receipt times never decrease.
Mirrors(m) ==
    /\ \A j \in applied : j <= m
    /\ usage = Total(m) /\ row.bytes = Total(m)
    /\ row.st = IF m = Last THEN "stopped" ELSE "open"
    /\ \E j \in DOMAIN evt : row.start = evt[j] /\ j <= m

BilledInv ==
    /\ reaper.pc \notin {"credit", "remove"}
    /\ applied = {} => row.st = "none" /\ usage = 0
    /\ applied # {} => \E m \in applied : Mirrors(m)
    /\ row.st # "stopped" => secs = 0
    /\ row.st = "stopped" => secs = evt[Last] - row.start

TimesInv ==
    /\ applied \subseteq DOMAIN evt
    /\ \A i \in DOMAIN evt : evt[i] <= now
    /\ \A i, j \in DOMAIN evt : i <= j => evt[i] <= evt[j]

UndisturbedInv == odd \cap {"late", "reap"} = {} => BilledInv

\* Undisturbed, the live view lags the row by at most the record that is not
\* acknowledged yet, whose redelivery puts it right.
LiveInv ==
    odd \cap {"reap", "mark", "live"} = {} =>
        /\ row.st # "reaped"
        /\ row.st = "none" => live = "none" /\ job = "idle"
        /\ row.st = "stopped" => job # "upsert" /\ (live = "none" \/ unacked = {Last})
        /\ job # "idle" => unacked # {}

\* A disturbance is never forgotten, and each kind names its step.
LEMMA OddStep ==
    ASSUME MCNext
    PROVE  /\ odd \subseteq odd'
           /\ "late" \notin odd' => \A i \in applied' \ applied, j \in applied : ~(j > i)
           /\ "reap" \notin odd' => ~(row.st # "reaped" /\ row'.st = "reaped")
           /\ "mark" \notin odd' => ~(reaper.pc = "upsert" /\ live' = "stale")
           /\ ("live" \notin odd' /\ job # "idle" /\ unacked # {} /\ unacked' = {})
                => live' = (IF job = "upsert" THEN "fresh" ELSE "none")
<1>1. odd' = odd \cup Disturbance
  BY DEF MCNext
<1> QED
  BY <1>1 DEF Disturbance

\* A later record reports at least as much.
LEMMA TotalGrows ==
    ASSUME NEW i \in Reports, NEW j \in Reports, i <= j
    PROVE  Total(i) <= Total(j)
<1>1. i \in Nat /\ j \in Nat /\ i >= 1
  BY SessionAssumption DEF Reports
<1>2. Step \in Nat
  BY SessionAssumption
<1> DEFINE a == i - 1
           b == j - i
<1>3. a \in Nat /\ b \in Nat /\ j - 1 = a + b
  BY <1>1
<1> HIDE DEF a, b
<1>4. a * Step \in Nat /\ b * Step \in Nat
  BY <1>2, <1>3, Z3
<1>5. (a + b) * Step = a * Step + b * Step
  BY <1>2, <1>3, Z3
<1>6. Total(i) = a * Step
  BY DEF Total, a
<1>7. Total(j) = (a + b) * Step
  BY <1>3 DEF Total
<1> QED
  BY <1>4, <1>5, <1>6, <1>7

\* A counter that has not fallen below the stored one is stored as it is and
\* adds the difference: the wrap correction stays out of it.
LEMMA AdvanceInOrder ==
    ASSUME NEW last \in Nat, NEW x \in Nat, x >= last
    PROVE  /\ Advance(last, x % Word, x \div Word).total = x
           /\ Advance(last, x % Word, x \div Word).delta = x - last
<1> DEFINE lo == x % Word
           hi == x \div Word
           cur == CurTotal(last, lo, hi)
<1>1. TotalBytes(lo, hi) = x
  BY TotalRestored
<1>2. ~LooksWrapped(last, lo, hi)
  <2> SUFFICES ASSUME hi = 0, lo < last % Word PROVE FALSE
    BY DEF LooksWrapped
  <2>1. lo \in Nat /\ last % Word \in Nat /\ last % Word <= last
    <3>1. lo \in Nat /\ last % Word \in Nat
      BY WordAssumption, Z3
    <3>2. last = (last \div Word) * Word + (last % Word) /\ last \div Word \in Nat
      BY WordAssumption, Z3
    <3>3. (last \div Word) * Word \in Nat
      BY <3>2, WordAssumption, Z3
    <3> DEFINE q == (last \div Word) * Word
               r == last % Word
    <3>4. q \in Nat /\ r \in Nat
      BY <3>1, <3>3
    <3>5. last = q + r
      BY WordAssumption, Z3
    <3> HIDE DEF q, r
    <3>6. r <= last
      BY <3>4, <3>5
    <3> QED
      BY <3>1, <3>6 DEF r
  <2>2. x = lo
    <3>1. (x \div Word) * Word + (x % Word) = x
      BY WordAssumption, Z3
    <3>2. 0 * Word = 0
      BY WordAssumption, Z3
    <3> QED
      BY <3>1, <3>2, <2>1, WordAssumption
  <2> HIDE DEF lo, hi
  <2> QED
    BY <2>1, <2>2
<1>3. cur = x
  BY <1>1, <1>2 DEF CurTotal
<1>4. Advance(last, lo, hi) =
        [total |-> cur, delta |-> IF cur >= last THEN cur - last ELSE cur]
  BY DEF Advance
<1> HIDE DEF cur
<1> QED
  BY <1>3, <1>4

\* Records are stamped in the order in which they are received.
LEMMA TimesNext ==
    ASSUME TypeOK, TimesInv, [Next]_svars
    PROVE  TimesInv'
<1>1. CASE \E i \in Reports : Apply(i)
  BY <1>1 DEF Apply, TimesInv
<1>2. CASE ~\E i \in Reports : Apply(i)
  <2>1. applied' = applied
    BY <1>2, CountersSame
  <2>2. CASE evt' = evt /\ now' \in Nat /\ now' >= now
    <3>1. \A i \in DOMAIN evt : evt[i] \in Nat
      BY DEF TypeOK
    <3> QED
      BY <2>1, <2>2, <3>1 DEF TimesInv, TypeOK
  <2>3. CASE evt' = Append(evt, now) /\ now' = now
    <3>1. /\ DOMAIN evt' = 1..(Len(evt) + 1) /\ DOMAIN evt = 1..Len(evt) /\ Len(evt) \in Nat
          /\ \A i \in 1..Len(evt) : evt'[i] = evt[i] /\ evt[i] \in Nat
          /\ evt'[Len(evt) + 1] = now
      BY <2>3 DEF TypeOK
    <3>2. ASSUME NEW i \in DOMAIN evt'
          PROVE  evt'[i] <= now /\ evt'[i] \in Nat
      BY <3>1, <3>2, SMTT(30) DEF TimesInv, TypeOK
    <3>3. ASSUME NEW i \in DOMAIN evt', NEW j \in DOMAIN evt', i <= j
          PROVE  evt'[i] <= evt'[j]
      <4>1. CASE j = Len(evt) + 1
        BY <4>1, <3>1, <3>2
      <4>2. CASE j # Len(evt) + 1
        <5>1. i \in DOMAIN evt /\ j \in DOMAIN evt
          BY <4>2, <3>1, <3>3
        <5> QED
          BY <5>1, <3>1, <3>3 DEF TimesInv
      <4> QED
        BY <4>1, <4>2
    <3>4. applied' \subseteq DOMAIN evt'
      BY <2>1, <3>1 DEF TimesInv
    <3> QED
      BY <2>3, <3>2, <3>3, <3>4 DEF TimesInv
  <2> QED
    BY <1>2, <2>2, <2>3, SideSteps
<1> QED
  BY <1>1, <1>2

\* A record applied behind none: what it adds to the usage and to the time.
LEMMA ApplyInOrder ==
    ASSUME TypeOK, TimesInv, BilledInv, NEW i \in Reports, Apply(i),
           \A j \in applied : ~(j > i)
    PROVE  BilledInv'
<1>1. /\ i \in DOMAIN evt /\ i \notin applied
      /\ row' = Written(i) /\ usage' = usage + Delta(i).delta
      /\ secs' = secs + Connected(i) /\ applied' = applied \cup {i}
      /\ UNCHANGED <<evt, reaper>>
  BY DEF Apply
<1>2. \A j \in applied : j <= i /\ j # i /\ j \in Nat /\ i \in Nat
  BY <1>1 DEF TypeOK, Reports
<1>3. Total(i) \in Nat
  BY TotalType
<1>4. /\ row'.st = (IF i = Last THEN "stopped" ELSE "open")
      /\ row'.bytes = Delta(i).total
      /\ row'.start = (IF i = 1 \/ row.st = "none" THEN evt[i] ELSE row.start)
  BY <1>1 DEF Written, IsStop, IsStart
<1>5. evt[i] \in Nat /\ row.start \in Nat
  BY <1>1 DEF TypeOK
<1>6. CASE applied = {}
  <2>1. row.st = "none" /\ usage = 0 /\ secs = 0
    BY <1>6 DEF BilledInv
  <2>2. Delta(i).total = Total(i) /\ Delta(i).delta = Total(i)
    BY <2>1, <1>3, TotalRestored DEF Delta, Resets
  <2>3. Connected(i) = 0
    BY <2>1 DEF Connected
  <2>4. usage' = Total(i) /\ secs' = 0 /\ row'.bytes = Total(i)
    BY <1>1, <1>3, <1>4, <2>1, <2>2, <2>3
  <2>5. row'.start = evt[i] /\ applied' = {i}
    BY <1>1, <1>4, <1>6, <2>1
  <2>6. Mirrors(i)'
    BY <1>1, <1>4, <2>4, <2>5 DEF Mirrors, Total, Reports
  <2>7. row'.st = "stopped" => secs' = evt'[Last] - row'.start
    BY <1>1, <1>4, <1>5, <2>4, <2>5
  <2> QED
    BY <1>1, <2>4, <2>5, <2>6, <2>7 DEF BilledInv
<1>7. CASE applied # {}
  <2>1. PICK m \in applied : Mirrors(m)
    BY <1>7 DEF BilledInv
  <2>2. m \in Reports /\ m <= i /\ m # i
    BY <1>2 DEF TypeOK
  <2>3. m # Last /\ i # 1
    BY <2>2, SessionAssumption DEF Reports
  <2>4. row.st = "open" /\ usage = Total(m) /\ row.bytes = Total(m) /\ secs = 0
    BY <2>1, <2>3 DEF Mirrors, BilledInv
  <2>5. Total(m) \in Nat /\ Total(i) >= Total(m)
    BY <2>2, <1>3, TotalType, TotalGrows
  <2>6. Delta(i).total = Total(i) /\ Delta(i).delta = Total(i) - Total(m)
    <3>1. Delta(i) = Advance(row.bytes, Total(i) % Word, Total(i) \div Word)
      BY <2>3, <2>4 DEF Delta, Resets, IsStart
    <3> QED
      BY <3>1, <2>4, <2>5, <1>3, AdvanceInOrder
  <2>7. usage' = Total(i) /\ row'.bytes = Total(i)
    BY <1>1, <1>3, <1>4, <2>4, <2>5, <2>6
  <2>8. row'.start = row.start
    BY <1>4, <2>3, <2>4
  <2>9. PICK k \in DOMAIN evt : row.start = evt[k] /\ k <= m
    BY <2>1 DEF Mirrors
  <2>10. k <= i /\ evt[k] <= evt[i]
    <3>1. k \in Nat
      BY DEF TypeOK
    <3>2. k <= i
      BY <3>1, <2>2, <2>9, <1>2
    <3> QED
      BY <3>2, <1>1 DEF TimesInv
  <2>11. Mirrors(i)'
    <3>1. \A j \in applied' : j <= i
      BY <1>1, <1>2 DEF Reports
    <3>2. \E j \in DOMAIN evt' : row'.start = evt'[j] /\ j <= i
      BY <1>1, <2>8, <2>9, <2>10
    <3> QED
      BY <3>1, <3>2, <1>4, <2>7 DEF Mirrors, Total
  <2>12. row'.st # "stopped" => secs' = 0
    <3> SUFFICES ASSUME i # Last PROVE secs' = 0
      BY <1>4
    <3>1. Connected(i) = 0
      BY DEF Connected, IsStop
    <3> QED
      BY <3>1, <1>1, <2>4
  <2>13. row'.st = "stopped" => secs' = evt'[Last] - row'.start
    <3> SUFFICES ASSUME i = Last PROVE secs' = evt[i] - row.start
      BY <1>1, <1>4, <2>8
    <3>1. row.start <= evt[i]
      BY <2>9, <2>10
    <3>2. Connected(i) = evt[i] - row.start
      BY <3>1, <2>4, <1>5 DEF Connected, IsStop
    <3> QED
      BY <3>2, <1>1, <1>5, <2>4
  <2> QED
    BY <1>1, <2>11, <2>12, <2>13 DEF BilledInv
<1> QED
  BY <1>6, <1>7

\* The other steps leave the bill alone unless they reap.
LEMMA SideBilled ==
    ASSUME TypeOK, TimesInv, BilledInv, [Next]_svars, ~\E i \in Reports : Apply(i),
           ~(row.st # "reaped" /\ row'.st = "reaped")
    PROVE  BilledInv'
<1>1. /\ usage' = usage /\ row'.bytes = row.bytes /\ applied' = applied
      /\ row'.start = row.start /\ row'.st = row.st /\ secs' = secs
      /\ reaper'.pc \notin {"credit", "remove"}
  BY CountersSame, SideSteps DEF BilledInv
<1>2. evt' = evt \/ evt' = Append(evt, now)
  BY SideSteps
<1>3. DOMAIN evt \subseteq DOMAIN evt' /\ \A j \in DOMAIN evt : evt'[j] = evt[j]
  <2>1. CASE evt' = evt
    BY <2>1
  <2>2. CASE evt' = Append(evt, now)
    <3>1. /\ DOMAIN evt' = 1..(Len(evt) + 1) /\ DOMAIN evt = 1..Len(evt) /\ Len(evt) \in Nat
          /\ \A i \in 1..Len(evt) : evt'[i] = evt[i]
      BY <2>2 DEF TypeOK
    <3> QED
      BY <3>1
  <2> QED
    BY <1>2, <2>1, <2>2
<1>4. ASSUME NEW m \in applied, Mirrors(m) PROVE Mirrors(m)'
  BY <1>1, <1>3, <1>4 DEF Mirrors, Total
<1>5. row.st = "stopped" => Last \in DOMAIN evt
  <2> SUFFICES ASSUME row.st = "stopped" PROVE Last \in DOMAIN evt
    OBVIOUS
  <2>1. PICK m \in applied : Mirrors(m)
    BY DEF BilledInv
  <2> QED
    BY <2>1 DEF Mirrors, TimesInv
<1>6. row'.st = "stopped" => secs' = evt'[Last] - row'.start
  BY <1>1, <1>3, <1>5 DEF BilledInv
<1> QED
  BY <1>1, <1>4, <1>6 DEF BilledInv

\* The highest counter applied is the newest record's.
LEMMA HighestIs ==
    ASSUME TypeOK, BilledInv
    PROVE  Highest = usage
<1> DEFINE P(t) == /\ \A i \in applied : t >= Total(i)
                   /\ t = 0 \/ \E i \in applied : t = Total(i)
<1>1. \A i \in applied : Total(i) \in Nat /\ Total(i) <= Total(Last)
  <2> SUFFICES ASSUME NEW i \in applied PROVE Total(i) \in Nat /\ Total(i) <= Total(Last)
    OBVIOUS
  <2>1. i \in Reports /\ Last \in Reports /\ i <= Last
    BY SessionAssumption DEF TypeOK, Reports
  <2> QED
    BY <2>1, TotalType, TotalGrows
<1>2. Total(Last) \in Nat
  BY SessionAssumption, TotalType DEF Reports
<1>3. usage \in 0..Total(Last) /\ P(usage) /\ \A t \in 0..Total(Last) : P(t) => t = usage
  <2>1. CASE applied = {}
    BY <2>1, <1>2 DEF BilledInv
  <2>2. CASE applied # {}
    <3>1. PICK m \in applied : Mirrors(m)
      BY <2>2 DEF BilledInv
    <3>2. usage = Total(m)
      BY <3>1 DEF Mirrors
    <3>3. \A i \in applied : Total(i) <= usage
      <4> SUFFICES ASSUME NEW i \in applied PROVE Total(i) <= Total(m)
        BY <3>2
      <4>1. i \in Reports /\ m \in Reports /\ i <= m
        BY <3>1 DEF TypeOK, Mirrors
      <4> QED
        BY <4>1, TotalGrows
    <3>4. usage \in Nat /\ usage <= Total(Last)
      BY <3>2, <1>1
    <3>5. P(usage)
      BY <3>2, <3>3, <3>4, <1>1
    <3>6. ASSUME NEW t \in 0..Total(Last), P(t) PROVE t = usage
      <4>1. t >= usage
        BY <3>2, <3>6
      <4>2. t = 0 \/ \E i \in applied : t = Total(i)
        BY <3>6
      <4>3. t <= usage
        BY <4>2, <3>3, <3>4
      <4> QED
        BY <4>1, <4>3, <3>4, <1>2
    <3> QED
      BY <3>4, <3>5, <3>6, <1>2
  <2> QED
    BY <2>1, <2>2
<1>4. Highest = CHOOSE t \in 0..Total(Last) : P(t)
  BY DEF Highest
<1> HIDE DEF P
<1> QED
  BY <1>3, <1>4

\* The billed usage is exact and the connected time is credited once, over
\* the whole span: for every number of records, word size, timeout and fault
\* budget, through crashes, duplicates and failed statements, as long as no
\* older record overtakes a newer one and the reaper closes nothing.
THEOREM ExactCorrect == MCSpec => []ExactUndisturbed
<1>1. MCInit => TimesInv /\ UndisturbedInv
  <2> SUFFICES ASSUME MCInit PROVE TimesInv /\ BilledInv
    BY DEF UndisturbedInv
  <2>1. evt = <<>> /\ applied = {} /\ row = NoRow /\ usage = 0 /\ secs = 0 /\ reaper = Idle
    BY DEF MCInit, Init
  <2>2. DOMAIN evt = {}
    BY <2>1
  <2> QED
    BY <2>1, <2>2 DEF TimesInv, BilledInv, NoRow, Idle
<1>2. TypeOK /\ TimesInv /\ UndisturbedInv /\ [MCNext]_<<svars, odd>> => TimesInv' /\ UndisturbedInv'
  <2> SUFFICES ASSUME TypeOK, TimesInv, UndisturbedInv, [MCNext]_<<svars, odd>>
               PROVE  TimesInv' /\ UndisturbedInv'
    OBVIOUS
  <2>0. [Next]_svars
    BY MCStep
  <2>1. TimesInv'
    BY <2>0, TimesNext
  <2>2. CASE UNCHANGED <<svars, odd>>
    <3>1. UndisturbedInv'
      BY <2>2 DEF UndisturbedInv, BilledInv, Mirrors, svars, recVars, sumVars
    <3> QED
      BY <2>1, <3>1
  <2>3. CASE MCNext
    <3> SUFFICES ASSUME odd' \cap {"late", "reap"} = {} PROVE BilledInv'
      BY <2>1 DEF UndisturbedInv
    <3>1. BilledInv
      BY <2>3, OddStep DEF UndisturbedInv
    <3>2. CASE \E i \in Reports : Apply(i)
      <4>1. PICK i \in Reports : Apply(i)
        BY <3>2
      <4>2. i \in applied' \ applied
        BY <4>1 DEF Apply
      <4>3. \A j \in applied : ~(j > i)
        BY <4>2, <2>3, OddStep
      <4> QED
        BY <4>1, <4>3, <3>1, ApplyInOrder
    <3>3. CASE ~\E i \in Reports : Apply(i)
      BY <3>3, <3>1, <2>0, <2>3, OddStep, SideBilled
    <3> QED
      BY <3>2, <3>3
  <2> QED
    BY <2>2, <2>3
<1>3. TypeOK /\ UndisturbedInv => ExactUndisturbed
  BY HighestIs DEF UndisturbedInv, ExactUndisturbed, UsageExact, SecsExact, BilledInv
<1> QED
  BY <1>1, <1>2, <1>3, MCTyped, PTL DEF MCSpec

-----------------------------------------------------------------------------
\* A closed session is not shown live: for every number of records, timeout
\* and fault budget, wherever a crash falls between the commit and the update
\* of the live hash, as long as the reaper has written nothing and Redis has
\* refused nothing.
THEOREM GhostCorrect == MCSpec => []GhostFree
<1>1. MCInit => LiveInv
  BY DEF MCInit, Init, LiveInv, NoRow
<1>2. TypeOK /\ LiveInv /\ [MCNext]_<<svars, odd>> => LiveInv'
  <2> SUFFICES ASSUME TypeOK, LiveInv, [MCNext]_<<svars, odd>> PROVE LiveInv'
    OBVIOUS
  <2>1. CASE UNCHANGED <<svars, odd>>
    BY <2>1 DEF LiveInv, svars, recVars, sumVars
  <2>2. CASE MCNext
    <3> SUFFICES ASSUME odd' \cap {"reap", "mark", "live"} = {}
                 PROVE  /\ row'.st # "reaped"
                        /\ row'.st = "none" => live' = "none" /\ job' = "idle"
                        /\ row'.st = "stopped" => job' # "upsert" /\ (live' = "none" \/ unacked' = {Last})
                        /\ job' # "idle" => unacked' # {}
      BY DEF LiveInv
    <3>1. /\ row.st # "reaped"
          /\ row.st = "none" => live = "none" /\ job = "idle"
          /\ row.st = "stopped" => job # "upsert" /\ (live = "none" \/ unacked = {Last})
          /\ job # "idle" => unacked # {}
      BY <2>2, OddStep DEF LiveInv
    <3>2. /\ ~(row.st # "reaped" /\ row'.st = "reaped")
          /\ ~(reaper.pc = "upsert" /\ live' = "stale")
          /\ (job # "idle" /\ unacked # {} /\ unacked' = {})
                => live' = (IF job = "upsert" THEN "fresh" ELSE "none")
      BY <2>2, OddStep
    <3>3. [Next]_svars
      BY <2>2 DEF MCNext
    <3>4. CASE \E i \in Reports : Apply(i)
      <4>1. PICK i \in Reports : Apply(i)
        BY <3>4
      <4>2. /\ row'.st = (IF i = Last THEN "stopped" ELSE "open") /\ unacked' = {i}
            /\ job' = (IF i = Last THEN "remove" ELSE "upsert")
        BY <4>1 DEF Apply, Written, IsStop
      <4> QED
        BY <4>2
    <3>5. CASE ~\E i \in Reports : Apply(i)
      <4>1. row'.st = row.st
        BY <3>1, <3>2, <3>3, <3>5, SideSteps
      <4>2. CASE LiveOp \/ LiveOpFails
        BY <4>1, <4>2, <3>1, <3>2 DEF LiveOp, LiveOpFails, TypeOK
      <4>3. CASE Consume
        BY <4>1, <4>3, <3>1, <3>5 DEF Consume, Duplicate, IsStop
      <4>4. CASE Crash
        BY <4>1, <4>4, <3>1 DEF Crash, recVars
      <4>5. CASE Tick \/ Send \/ Reap \/ ReapFails \/ UNCHANGED svars
        <5>1. /\ job' = job /\ unacked' = unacked
              /\ live' = live \/ live' = "none" \/ (reaper.pc = "upsert" /\ live' = "stale")
          BY <4>5 DEF Tick, Send, Reap, ReapFails, ReapOnce, ReapSession, ReapCredit,
                      ReapRemove, MarkStale, MarkRead, MarkWrite, svars, recVars, sumVars
        <5> QED
          BY <5>1, <4>1, <3>1, <3>2
      <4> QED
        BY <3>3, <4>2, <4>3, <4>4, <4>5 DEF Next
    <3> QED
      BY <3>4, <3>5
  <2> QED
    BY <2>1, <2>2
<1>3. LiveInv => GhostFree
  BY DEF LiveInv, GhostFree, NoLiveGhost, Quiet
<1> QED
  BY <1>1, <1>2, <1>3, MCTyped, PTL DEF MCSpec

=============================================================================
