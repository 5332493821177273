------------------------- MODULE AcctPipelineProofs -------------------------
(***************************************************************************)
(* Proofs about AcctPipeline, its audit counters and its octet arithmetic, *)
(* for any set of records, any number of handlers and faults, any batch    *)
(* size and any word size: the lossless contract as an invariant and as a  *)
(* refinement of AcctContract, no stranded entries, exact counters, and    *)
(* exact usage.                                                            *)
(***************************************************************************)
EXTENDS AcctCounters, AcctDelta, FiniteSetTheorems, WellFoundedInduction, TLAPS

\* FirstOf picks from its argument.
LEMMA FirstOfSubset == \A S : FirstOf(S) \subseteq S
BY DEF FirstOf

\* The initial state has the types of the variables.
LEMMA InitType == Init => TypeOK
<1> SUFFICES ASSUME Init PROVE TypeOK
  OBVIOUS
<1>1. wal \in Seq(Rec \cup {Corrupt}) /\ log \in Seq(Rec)
  BY DEF Init
<1>2. QED
  BY <1>1, PipelineAssumption DEF Init, TypeOK, NasId

\* A line written to the WAL is a record or a corrupt line.
LEMMA WriteLineType ==
    ASSUME TypeOK, NEW h \in Handler, WriteLine(hrec[h])
    PROVE  wal' \in Seq(Rec \cup {Corrupt}) /\ tail' \in {"clean", "torn"}
<1>1. Line(hrec[h]) \in Rec \cup {Corrupt} /\ wal \in Seq(Rec \cup {Corrupt})
  BY DEF Line, TypeOK
<1>2. wal' = Append(wal, Line(hrec[h])) /\ tail' = "clean"
  BY DEF WriteLine
<1>3. QED
  BY <1>1, <1>2

\* Facts on sequences that the steps below need.
LEMMA AppendFacts ==
    ASSUME NEW S, NEW q \in Seq(S), NEW x \in S
    PROVE  /\ Append(q, x) \in Seq(S)
           /\ Len(Append(q, x)) = Len(q) + 1
           /\ Append(q, x)[Len(q) + 1] = x
           /\ \A i \in 1..Len(q) : Append(q, x)[i] = q[i]
           /\ Len(q) \in Nat
OBVIOUS

\* A fault leaves its kind in the history.
LEMMA FaultType ==
    ASSUME TypeOK, NEW k, Fault(k)
    PROVE  faults' \in Seq(FaultKinds)
<1>1. k \in FaultKinds /\ faults \in Seq(FaultKinds) /\ faults' = Append(faults, k)
  BY PipelineAssumption DEF Fault, TypeOK
<1>2. QED
  BY <1>1, AppendFacts

\* An XADD keeps every entry and adds one of the record's.
LEMMA XAddFacts ==
    ASSUME TypeOK, NEW x \in Rec, XAdd(x)
    PROVE  /\ log' \in Seq(Rec)
           /\ entries' \subseteq 1..Len(log') /\ entries \subseteq entries'
           /\ \A i \in entries : log'[i] = log[i]
           /\ \E i \in entries' : log'[i] = x
<1>1. log \in Seq(Rec) /\ entries \subseteq 1..Len(log)
  BY DEF TypeOK
<1>2. log' = Append(log, x) /\ entries' = entries \cup {Len(log) + 1}
  BY DEF XAdd
<1>3. /\ log' \in Seq(Rec) /\ Len(log') = Len(log) + 1 /\ log'[Len(log) + 1] = x
      /\ \A i \in 1..Len(log) : log'[i] = log[i]
      /\ Len(log) \in Nat
  BY <1>1, <1>2, AppendFacts
<1>4. entries' \subseteq 1..Len(log')
  <2> SUFFICES ASSUME NEW i \in entries' PROVE i \in 1..Len(log')
    OBVIOUS
  <2>1. i \in 1..Len(log) \/ i = Len(log) + 1
    BY <1>1, <1>2
  <2>2. QED
    BY <2>1, <1>3
<1>5. QED
  BY <1>1, <1>2, <1>3, <1>4

\* A delivery hands out entries of the stream.
LEMMA DeliverFacts ==
    ASSUME TypeOK, Deliver(FirstOf(Fresh))
    PROVE  lastId' \in Nat /\ pel' \subseteq entries /\ FirstOf(Fresh) \subseteq entries
<1>1. FirstOf(Fresh) \subseteq entries
  BY FirstOfSubset DEF Fresh
<1>2. pel' \subseteq entries
  BY <1>1 DEF Deliver, TypeOK
<1>3. lastId' \in entries
  BY <1>1 DEF Deliver, IsNewest
<1>4. entries \subseteq Nat
  BY AppendFacts DEF TypeOK
<1>5. QED
  BY <1>1, <1>2, <1>3, <1>4

\* The line of the WAL a drain has come to, if it can be parsed, is a record.
LEMMA WalLine == ASSUME TypeOK, di <= Len(wal), wal[di] # Corrupt PROVE wal[di] \in Rec
<1>1. wal \in Seq(Rec \cup {Corrupt}) /\ di \in Nat \ {0}
  BY DEF TypeOK
<1>2. Len(wal) \in Nat
  BY <1>1
<1>3. di \in 1..Len(wal)
  BY <1>1, <1>2
<1>4. wal[di] \in Rec \cup {Corrupt}
  BY <1>1, <1>3
<1> QED
  BY <1>4

\* Every step keeps the types of the variables.
LEMMA NextType == TypeOK /\ [Next]_vars => TypeOK'
<1> SUFFICES ASSUME TypeOK, [Next]_vars PROVE TypeOK'
  OBVIOUS
<1> USE PipelineAssumption DEF TypeOK
<1>1. ASSUME NEW h \in Handler, Ingest(h) PROVE TypeOK'
  <2>1. ASSUME NEW r \in Rec, Receive(h, r) PROVE TypeOK'
    BY <2>1 DEF Receive, Goto, walVars, dVars, redVars, conVars, envVars
  <2>2. CASE EnqueueStream(h)
    <3>1. hrec[h] \in Rec
      BY <2>2 DEF EnqueueStream
    <3>2. log' \in Seq(Rec) /\ entries' \subseteq 1..Len(log') /\ entries \subseteq entries'
      <4>1. XAdd(hrec[h])
        BY <2>2 DEF EnqueueStream
      <4> HIDE DEF TypeOK
      <4> QED
        BY <4>1, <3>1, XAddFacts
    <3>3. QED
      BY <2>2, <3>2 DEF EnqueueStream, Goto, netVars, walVars, dVars, conVars, envVars
  <2>3. CASE EnqueueFails(h)
    BY <2>3 DEF EnqueueFails, Goto, netVars, walVars, dVars, redVars, conVars, envVars
  <2>4. CASE EnqueueAmbiguous(h)
    <3>1. hrec[h] \in Rec
      BY <2>4 DEF EnqueueAmbiguous
    <3>2. log' \in Seq(Rec) /\ entries' \subseteq 1..Len(log') /\ entries \subseteq entries'
      <4>1. XAdd(hrec[h])
        BY <2>4 DEF EnqueueAmbiguous
      <4> HIDE DEF TypeOK
      <4> QED
        BY <4>1, <3>1, XAddFacts
    <3>3. QED
      BY <2>4, <3>2, FaultType DEF EnqueueAmbiguous, Goto, netVars, walVars, dVars, conVars, envVars
  <2>5. CASE SpillAppend(h)
    BY <2>5 DEF SpillAppend, WriteLine, Line, Goto, netVars, dVars, redVars, conVars, envVars
  <2>6. CASE SpillFails(h)
    <3>1. wal' \in Seq(Rec \cup {Corrupt}) /\ tail' \in {"clean", "torn"}
      BY <2>6, WriteLineType DEF SpillFails
    <3>2. faults' \in Seq(FaultKinds)
      BY <2>6, FaultType DEF SpillFails
    <3>3. QED
      BY <2>6, <3>1, <3>2 DEF SpillFails, Finish, Goto, netVars, dVars, redVars, conVars, envVars
  <2>7. CASE Reply(h)
    BY <2>7 DEF Reply, Finish, Goto, walVars, dVars, redVars, conVars, envVars
  <2>8. QED
    BY <1>1, <2>1, <2>2, <2>3, <2>4, <2>5, <2>6, <2>7 DEF Ingest
<1>2. CASE Drainer
  <2>1. CASE StartDrain
    BY <2>1 DEF StartDrain, netVars, hVars, walVars, redVars, conVars, envVars
  <2>2. CASE SkipLine
    BY <2>2 DEF SkipLine, netVars, hVars, walVars, redVars, conVars, envVars
  <2>3. CASE PushLine
    <3>1. wal[di] \in Rec
      <4>1. di <= Len(wal) /\ wal[di] # Corrupt
        BY <2>3 DEF PushLine
      <4> HIDE DEF TypeOK
      <4> QED
        BY <4>1, WalLine
    <3>2. log' \in Seq(Rec) /\ entries' \subseteq 1..Len(log') /\ entries \subseteq entries'
      <4>1. XAdd(wal[di])
        BY <2>3 DEF PushLine
      <4> HIDE DEF TypeOK
      <4> QED
        BY <4>1, <3>1, XAddFacts
    <3>3. /\ di' \in Nat \ {0}
          /\ UNCHANGED <<sends, acked, hpc, hrec, wal, tail, pendN, dpc, pel, lastId>>
          /\ UNCHANGED <<cpc, backlog, batch, size, cur, dedup, redis, db, faults>>
      BY <2>3 DEF PushLine, netVars, hVars, walVars, conVars, envVars
    <3>4. pel' \subseteq entries' /\ batch' \subseteq entries'
      BY <3>2, <3>3
    <3>5. QED
      BY <3>2, <3>3, <3>4
  <2>4. CASE PushFails
    <3>1. wal[di] \in Rec
      <4>1. di <= Len(wal) /\ wal[di] # Corrupt
        BY <2>4 DEF PushFails
      <4> HIDE DEF TypeOK
      <4> QED
        BY <4>1, WalLine
    <3>2. log' \in Seq(Rec) /\ entries' \subseteq 1..Len(log') /\ entries \subseteq entries'
      <4>1. XAdd(wal[di]) \/ UNCHANGED <<log, entries>>
        BY <2>4 DEF PushFails
      <4>2. CASE UNCHANGED <<log, entries>>
        BY <4>2
      <4>3. CASE XAdd(wal[di])
        <5> HIDE DEF TypeOK
        <5> QED
          BY <4>3, <3>1, XAddFacts
      <4> QED
        BY <4>1, <4>2, <4>3
    <3>3. faults' \in Seq(FaultKinds)
      BY <2>4, FaultType DEF PushFails
    <3>4. QED
      BY <2>4, <3>2, <3>3 DEF PushFails, netVars, hVars, walVars, conVars, envVars
  <2>5. CASE TruncateWal
    BY <2>5 DEF TruncateWal, netVars, hVars, redVars, conVars, envVars
  <2>6. CASE DrainFails
    BY <2>6, FaultType DEF DrainFails, netVars, hVars, walVars, redVars, conVars, envVars
  <2>7. CASE TruncateFails
    <3>1. tail' \in {"clean", "torn"} /\ faults' \in Seq(FaultKinds) /\ (wal' = wal \/ wal' = <<>>)
      BY <2>7, FaultType DEF TruncateFails
    <3>2. wal' \in Seq(Rec \cup {Corrupt})
      <4>1. CASE wal' = wal
        BY <4>1
      <4>2. CASE wal' = <<>>
        BY <4>2
      <4>3. QED
        BY <3>1, <4>1, <4>2
    <3>3. QED
      BY <2>7, <3>1, <3>2 DEF TruncateFails, netVars, hVars, redVars, conVars, envVars
  <2>8. QED
    BY <1>2, <2>1, <2>2, <2>3, <2>4, <2>5, <2>6, <2>7 DEF Drainer
<1>3. CASE Consumer
  <2>1. CASE EnsureGroup
    BY <2>1 DEF EnsureGroup, netVars, hVars, walVars, dVars, redVars, envVars
  <2>2. CASE ReadOwn
    BY <2>2, FirstOfSubset, ZenonT(60) DEF ReadOwn, TakeBatch, netVars, hVars, walVars, dVars, redVars, envVars
  <2>3. CASE ReadNew
    <3>1. lastId' \in Nat /\ pel' \subseteq entries /\ FirstOf(Fresh) \subseteq entries
      BY <2>3, DeliverFacts DEF ReadNew
    <3>2. QED
      BY <2>3, <3>1 DEF ReadNew, TakeBatch, netVars, hVars, walVars, dVars, envVars
  <2>4. CASE ReadReplyLost
    <3>1. lastId' \in Nat /\ pel' \subseteq entries
      BY <2>4, DeliverFacts DEF ReadReplyLost
    <3>2. QED
      BY <2>4, <3>1, FaultType DEF ReadReplyLost, netVars, hVars, walVars, dVars, conVars, envVars
  <2>5. ASSUME NEW k \in NasId, Process(k) PROVE TypeOK'
    <3>1. PICK m \in batch : dedup' = dedup \cup {<<k, log[m]>>} /\ cur' = m
      BY <2>5 DEF Process
    <3>2. <<k, log[m]>> \in NasId \X Rec /\ m \in Nat
      OBVIOUS
    <3>3. dedup' \subseteq NasId \X Rec /\ cur' \in Nat
      BY <3>1, <3>2
    <3>4. faults' \in Seq(FaultKinds) /\ cpc' = "ack"
      BY <2>5, FaultType DEF Process, Lookup
    <3>5. UNCHANGED <<netVars, hVars, walVars, dVars, redVars, backlog, batch, size, envVars>>
      BY <2>5 DEF Process
    <3>6. QED
      BY <3>3, <3>4, <3>5 DEF netVars, hVars, walVars, dVars, redVars, envVars
  <2>6. CASE ProcessFails
    <3>1. dedup' \subseteq NasId \X Rec
      <4>1. ASSUME NEW m \in batch PROVE <<"nas", log[m]>> \in NasId \X Rec
        BY DEF NasId
      <4>2. QED
        BY <2>6, <4>1, ZenonT(60) DEF ProcessFails
    <3>2. faults' \in Seq(FaultKinds)
      BY <2>6, FaultType DEF ProcessFails
    <3>3. QED
      BY <2>6, <3>1, <3>2 DEF ProcessFails, Retry, netVars, hVars, walVars, dVars, redVars, envVars
  <2>7. CASE AckDelete
    BY <2>7 DEF AckDelete, netVars, hVars, walVars, dVars, envVars
  <2>8. QED
    BY <1>3, <2>1, <2>2, <2>3, <2>4, <2>5, <2>6, <2>7 DEF Consumer
<1>4. CASE Environment
  <2>1. CASE RedisDown \/ RedisBack \/ DbDown \/ DbBack
    <3>1. faults' \in Seq(FaultKinds) /\ redis' \in {"up", "down"} /\ db' \in {"up", "down"}
      BY <2>1, FaultType DEF RedisDown, RedisBack, DbDown, DbBack
    <3>2. UNCHANGED <<netVars, hVars, walVars, dVars, redVars, conVars, dedup>>
      BY <2>1 DEF RedisDown, RedisBack, DbDown, DbBack
    <3>3. QED
      BY <3>1, <3>2 DEF netVars, hVars, walVars, dVars, redVars, conVars
  <2>2. CASE Crash
    <3>1. wal' \in Seq(Rec \cup {Corrupt}) /\ tail' \in {"clean", "torn"}
      BY <2>2, WriteLineType DEF Crash, KillAppend
    <3>2. pendN' \in Nat
      <4>1. pendN' = Len(wal') + (IF tail' = "torn" THEN 1 ELSE 0) /\ Len(wal') \in Nat
        BY <2>2, <3>1 DEF Crash
      <4>2. QED
        BY <4>1
    <3>3. /\ hpc' \in [Handler -> {"idle", "xadd", "spill", "reply"}]
          /\ hrec' \in [Handler -> Rec \cup {Corrupt}]
          /\ \A h \in Handler : hpc'[h] # "idle" => hrec'[h] \in Rec
      BY <2>2 DEF Crash
    <3>4. faults' \in Seq(FaultKinds) /\ UNCHANGED <<sends, acked, log, entries, pel, lastId, dedup,
                                        redis, db>>
      BY <2>2, FaultType DEF Crash, netVars, redVars, envVars
    <3>5. /\ dpc' = "boot" /\ di' = 1 /\ cpc' = "group" /\ backlog' = "own"
          /\ batch' = {} /\ size' = "full" /\ cur' = 0
      BY <2>2 DEF Crash
    <3>6. QED
      BY <3>1, <3>2, <3>3, <3>4, <3>5
  <2>3. QED
    BY <1>4, <2>1, <2>2 DEF Environment
<1>5. CASE UNCHANGED vars
  BY <1>5 DEF vars, netVars, hVars, walVars, dVars, redVars, conVars, envVars
<1>6. QED
  BY <1>1, <1>2, <1>3, <1>4, <1>5 DEF Next

\* The variables keep their types in every behaviour of the pipeline.
THEOREM TypeCorrect == Spec => []TypeOK
BY InitType, NextType, PTL DEF Spec

-----------------------------------------------------------------------------
(* The lossless contract.  AckedDurable alone is not inductive: it must be *)
(* known that a handler about to reply has made its record durable, that   *)
(* the drainer queued every line it has passed before it truncates, and    *)
(* that the entry being acknowledged is stored.  All of this holds while   *)
(* no append leaves a partial line behind.                                 *)

\* The records on the stream or in the database.
Queued == InStream \cup Stored

NoPartialLine == tail = "clean" /\ \A i \in DOMAIN wal : wal[i] \in Rec

DurableInv ==
    /\ NoPartialLine
    /\ acked \subseteq InWal \cup Queued
    /\ \A h \in Handler : hpc[h] = "reply" => hrec[h] \in InWal \cup Queued
    /\ dpc = "push" => \A i \in DOMAIN wal : i < di => wal[i] \in Queued
    /\ cpc = "ack" => cur \in batch /\ log[cur] \in Stored

\* An XADD keeps what is queued and queues its record.
LEMMA XAddQueues ==
    ASSUME TypeOK, NEW x \in Rec, XAdd(x), dedup' = dedup
    PROVE  /\ Queued \subseteq Queued' /\ x \in Queued'
           /\ Stored' = Stored
           /\ \A i \in entries : log'[i] = log[i]
<1>1. /\ \A i \in entries : log'[i] = log[i] /\ i \in entries'
      /\ \E i \in entries' : log'[i] = x
  BY XAddFacts
<1>2. Stored' = Stored
  BY DEF Stored
<1>3. InStream \subseteq InStream' /\ x \in InStream'
  BY <1>1 DEF InStream
<1>4. QED
  BY <1>1, <1>2, <1>3 DEF Queued

\* Writing a line behind a complete one keeps every line and adds its own.
LEMMA WriteLineKeeps ==
    ASSUME TypeOK, NoPartialLine, NEW x \in Rec, WriteLine(x)
    PROVE  NoPartialLine' /\ InWal \subseteq InWal' /\ x \in InWal'
<1>1. wal' = Append(wal, x) /\ tail' = "clean"
  BY DEF WriteLine, Line, NoPartialLine
<1>2. wal \in Seq(Rec \cup {Corrupt})
  BY DEF TypeOK
<1>3. /\ DOMAIN wal' = 1..(Len(wal) + 1) /\ DOMAIN wal = 1..Len(wal)
      /\ wal'[Len(wal) + 1] = x /\ \A i \in DOMAIN wal : wal'[i] = wal[i]
      /\ Len(wal) \in Nat
  BY <1>1, <1>2
<1>4. /\ \A i \in DOMAIN wal : i \in DOMAIN wal' /\ wal'[i] = wal[i]
      /\ \E i \in DOMAIN wal' : wal'[i] = x
  BY <1>3
<1>5. \A i \in DOMAIN wal' : wal'[i] = x \/ (i \in DOMAIN wal /\ wal'[i] = wal[i])
  <2> SUFFICES ASSUME NEW i \in 1..(Len(wal) + 1)
               PROVE  wal'[i] = x \/ (i \in DOMAIN wal /\ wal'[i] = wal[i])
    BY <1>3
  <2>1. i = Len(wal) + 1 \/ i \in 1..Len(wal)
    BY <1>3
  <2>2. QED
    BY <2>1, <1>3
<1>6. NoPartialLine'
  BY <1>1, <1>5 DEF NoPartialLine
<1>7. QED
  BY <1>4, <1>6 DEF InWal

\* What is queued does not depend on the WAL.
LEMMA QueuedSame ==
    ASSUME UNCHANGED <<log, entries, dedup>>
    PROVE  Queued' = Queued /\ Stored' = Stored
BY DEF Queued, InStream, Stored

\* What the WAL holds depends on its lines only.
LEMMA WalSame ==
    ASSUME UNCHANGED <<wal, tail>>
    PROVE  InWal' = InWal /\ (NoPartialLine => NoPartialLine')
BY DEF InWal, NoPartialLine

\* A record committed to the database stays queued, others too.
LEMMA CommitQueues ==
    ASSUME TypeOK, NEW k \in NasId, NEW x \in Rec, UNCHANGED <<log, entries>>,
           dedup' = dedup \cup {<<k, x>>}
    PROVE  Queued \subseteq Queued' /\ x \in Stored' /\ Stored \subseteq Stored'
BY DEF Queued, InStream, Stored

\* The initial state satisfies the invariant.
LEMMA DurableInit == Init => DurableInv
BY DEF Init, DurableInv, NoPartialLine

\* Every step of the pipeline keeps what makes the acked records durable.
LEMMA DurableNext ==
    ASSUME "torn" \notin Faults, TypeOK, TypeOK', DurableInv, [Next]_vars
    PROVE  DurableInv'
<1> USE DEF DurableInv
<1>1. ASSUME NEW h \in Handler, Ingest(h) PROVE DurableInv'
  <2>1. ASSUME NEW r \in Rec, Receive(h, r) PROVE DurableInv'
    BY <2>1, QueuedSame, WalSame DEF Receive, Goto, walVars, dVars, redVars, conVars, TypeOK
  <2>2. CASE EnqueueStream(h)
    <3>1. hrec[h] \in Rec
      BY <2>2 DEF EnqueueStream, TypeOK
    <3>2. Queued \subseteq Queued' /\ hrec[h] \in Queued' /\ Stored' = Stored
          /\ \A i \in entries : log'[i] = log[i]
      BY <2>2, <3>1, XAddQueues DEF EnqueueStream
    <3>3. QED
      BY <2>2, <3>2, WalSame DEF EnqueueStream, Goto, netVars, walVars, dVars, conVars, TypeOK
  <2>3. CASE EnqueueFails(h)
    BY <2>3, QueuedSame, WalSame DEF EnqueueFails, Goto, netVars, walVars, dVars, redVars, conVars, TypeOK
  <2>4. CASE EnqueueAmbiguous(h)
    <3>1. hrec[h] \in Rec
      BY <2>4 DEF EnqueueAmbiguous, TypeOK
    <3>2. Queued \subseteq Queued' /\ Stored' = Stored /\ \A i \in entries : log'[i] = log[i]
      BY <2>4, <3>1, XAddQueues DEF EnqueueAmbiguous
    <3>3. QED
      BY <2>4, <3>2, WalSame DEF EnqueueAmbiguous, Goto, netVars, walVars, dVars, conVars, TypeOK
  <2>5. CASE SpillAppend(h)
    <3>1. hrec[h] \in Rec
      BY <2>5 DEF SpillAppend, TypeOK
    <3>2. NoPartialLine' /\ InWal \subseteq InWal' /\ hrec[h] \in InWal'
      BY <2>5, <3>1, WriteLineKeeps DEF SpillAppend
    <3>3. QED
      BY <2>5, <3>2, QueuedSame DEF SpillAppend, WalFree, Goto, netVars, dVars, redVars, conVars, TypeOK
  <2>6. CASE SpillFails(h)
    <3>1. hrec[h] \in Rec
      BY <2>6 DEF SpillFails, TypeOK
    <3>2. NoPartialLine' /\ InWal \subseteq InWal'
      BY <2>6, <3>1, WriteLineKeeps, WalSame DEF SpillFails, Fault
    <3>3. QED
      BY <2>6, <3>2, QueuedSame DEF SpillFails, WalFree, Finish, Goto, netVars, dVars, redVars, conVars, TypeOK
  <2>7. CASE Reply(h)
    BY <2>7, QueuedSame, WalSame DEF Reply, Finish, Goto, walVars, dVars, redVars, conVars, TypeOK
  <2>8. QED
    BY <1>1, <2>1, <2>2, <2>3, <2>4, <2>5, <2>6, <2>7 DEF Ingest
<1>2. CASE Drainer
  <2>1. CASE StartDrain
    BY <2>1, QueuedSame, WalSame DEF StartDrain, netVars, hVars, walVars, redVars, conVars, TypeOK
  <2>2. CASE SkipLine
    BY <2>2, PipelineAssumption DEF SkipLine, NoPartialLine, TypeOK
  <2>3. CASE PushLine
    <3>1. wal[di] \in Rec
      BY <2>3 DEF PushLine, TypeOK
    <3>2. /\ Queued \subseteq Queued' /\ wal[di] \in Queued' /\ Stored' = Stored
          /\ \A i \in entries : log'[i] = log[i]
      BY <2>3, <3>1, XAddQueues DEF PushLine
    <3>3. \A i \in DOMAIN wal' : i < di' => wal'[i] \in Queued'
      BY <2>3, <3>2 DEF PushLine, walVars, TypeOK
    <3>4. QED
      BY <2>3, <3>2, <3>3, WalSame DEF PushLine, netVars, hVars, walVars, conVars, TypeOK
  <2>4. CASE PushFails
    <3>1. wal[di] \in Rec
      BY <2>4 DEF PushFails, TypeOK
    <3>2. Queued \subseteq Queued' /\ Stored' = Stored /\ \A i \in entries : log'[i] = log[i]
      BY <2>4, <3>1, XAddQueues, QueuedSame DEF PushFails
    <3>3. QED
      BY <2>4, <3>2, WalSame DEF PushFails, netVars, hVars, walVars, conVars, TypeOK
  <2>5. CASE TruncateWal
    <3>1. InWal \subseteq Queued
      BY <2>5 DEF TruncateWal, InWal, TypeOK
    <3>2. NoPartialLine'
      BY <2>5 DEF TruncateWal, NoPartialLine
    <3>3. QED
      BY <2>5, <3>1, <3>2, QueuedSame DEF TruncateWal, netVars, hVars, redVars, conVars, TypeOK
  <2>6. CASE DrainFails
    BY <2>6, QueuedSame, WalSame DEF DrainFails, netVars, hVars, walVars, redVars, conVars, TypeOK
  <2>7. CASE TruncateFails
    <3>1. InWal \subseteq Queued
      BY <2>7 DEF TruncateFails, InWal, TypeOK
    <3>2. NoPartialLine' /\ (InWal' = InWal \/ InWal' = {})
      BY <2>7, WalSame DEF TruncateFails, NoPartialLine, InWal
    <3>3. QED
      BY <2>7, <3>1, <3>2, QueuedSame DEF TruncateFails, netVars, hVars, redVars, conVars, TypeOK
  <2>8. QED
    BY <1>2, <2>1, <2>2, <2>3, <2>4, <2>5, <2>6, <2>7 DEF Drainer
<1>3. CASE Consumer
  <2>1. CASE EnsureGroup \/ ReadOwn \/ ReadNew \/ ReadReplyLost
    <3>1. UNCHANGED <<log, entries, dedup, acked, hpc, hrec, wal, tail, dpc, di>> /\ cpc # "ack"
      BY <2>1 DEF EnsureGroup, ReadOwn, ReadNew, ReadReplyLost, netVars, hVars, walVars, dVars, redVars
    <3>2. cpc' # "ack"
      BY <2>1 DEF EnsureGroup, ReadOwn, ReadNew, ReadReplyLost, TakeBatch, conVars
    <3>3. QED
      BY <3>1, <3>2, QueuedSame, WalSame
  <2>2. ASSUME NEW k \in NasId, Process(k) PROVE DurableInv'
    <3>1. PICK m \in batch : dedup' = dedup \cup {<<k, log[m]>>} /\ cur' = m
      BY <2>2 DEF Process
    <3>2. log[m] \in Rec
      BY DEF TypeOK
    <3>3. UNCHANGED <<log, entries, acked, hpc, hrec, wal, tail, dpc, di, batch>>
      BY <2>2 DEF Process, netVars, hVars, walVars, dVars, redVars
    <3>4. Queued \subseteq Queued' /\ log[m] \in Stored'
      BY <3>1, <3>2, <3>3, CommitQueues
    <3>5. QED
      BY <3>1, <3>3, <3>4, WalSame
  <2>3. CASE ProcessFails
    <3>1. UNCHANGED <<log, entries, acked, hpc, hrec, wal, tail, dpc, di>> /\ cpc' = "read"
      BY <2>3 DEF ProcessFails, Retry, netVars, hVars, walVars, dVars, redVars
    <3>2. Queued \subseteq Queued'
      <4>1. CASE dedup' = dedup
        BY <4>1, <3>1, QueuedSame
      <4>2. ASSUME NEW m \in batch, dedup' = dedup \cup {<<"nas", log[m]>>} PROVE Queued \subseteq Queued'
        BY <4>2, <3>1, CommitQueues DEF NasId, TypeOK
      <4>3. QED
        BY <2>3, <4>1, <4>2 DEF ProcessFails
    <3>3. QED
      BY <3>1, <3>2, WalSame
  <2>4. CASE AckDelete
    <3>1. UNCHANGED <<log, dedup, acked, hpc, hrec, wal, tail, dpc, di>> /\ cpc' # "ack"
      BY <2>4 DEF AckDelete, netVars, hVars, walVars, dVars
    <3>2. cur \in batch /\ log[cur] \in Stored /\ entries' = entries \ {cur}
      BY <2>4 DEF AckDelete
    <3>3. Queued \subseteq Queued'
      BY <3>1, <3>2 DEF Queued, InStream, Stored
    <3>4. QED
      BY <3>1, <3>3, WalSame
  <2>5. QED
    BY <1>3, <2>1, <2>2, <2>3, <2>4 DEF Consumer
<1>4. CASE Environment
  <2>1. CASE RedisDown \/ RedisBack \/ DbDown \/ DbBack
    <3>1. UNCHANGED <<netVars, hVars, walVars, dVars, redVars, conVars, dedup>>
      BY <2>1 DEF RedisDown, RedisBack, DbDown, DbBack
    <3>2. QED
      BY <3>1, QueuedSame, WalSame DEF netVars, hVars, walVars, dVars, redVars, conVars
  <2>2. CASE Crash
    <3>1. \A h \in Handler : hpc[h] = "spill" => hrec[h] \in Rec
      BY DEF TypeOK
    <3>2. NoPartialLine' /\ InWal \subseteq InWal'
      <4>1. CASE UNCHANGED <<wal, tail>>
        BY <4>1, WalSame
      <4>2. ASSUME NEW h \in Handler, hpc[h] = "spill", WriteLine(hrec[h])
            PROVE  NoPartialLine' /\ InWal \subseteq InWal'
        BY <4>2, <3>1, WriteLineKeeps
      <4>3. QED
        BY <2>2, <4>1, <4>2 DEF Crash, KillAppend
    <3>3. UNCHANGED <<acked, log, entries, dedup>>
      BY <2>2 DEF Crash, netVars, redVars
    <3>4. dpc' = "boot" /\ cpc' = "group" /\ \A h \in Handler : hpc'[h] = "idle"
      BY <2>2 DEF Crash
    <3>5. QED
      BY <3>2, <3>3, <3>4, QueuedSame
  <2>3. QED
    BY <1>4, <2>1, <2>2 DEF Environment
<1>5. CASE UNCHANGED vars
  BY <1>5, QueuedSame, WalSame DEF vars, netVars, hVars, walVars, dVars, redVars, conVars
<1>6. QED
  BY <1>1, <1>2, <1>3, <1>4, <1>5 DEF Next

\* While no append leaves a partial line, the invariant always holds.
THEOREM DurableCorrect == "torn" \notin Faults => (Spec => []DurableInv)
<1> SUFFICES ASSUME "torn" \notin Faults PROVE Spec => []DurableInv
  OBVIOUS
<1>1. TypeOK /\ TypeOK' /\ DurableInv /\ [Next]_vars => DurableInv'
  BY DurableNext
<1>2. QED
  BY <1>1, DurableInit, TypeCorrect, PTL DEF Spec

\* The lossless contract of ingestHandler, for every number of records,
\* handlers, retransmissions and faults: unless an append is cut in the
\* middle of a line, a record answered with 204 is never lost.
THEOREM NeverLost == "torn" \notin Faults => (Spec => []AckedDurable)
<1>1. DurableInv => AckedDurable
  BY DEF DurableInv, AckedDurable, Queued, Held
<1>2. QED
  BY <1>1, DurableCorrect, PTL

-----------------------------------------------------------------------------
(* Stranding.  A batch shorter than readCount holds everything there was   *)
(* to read, which is what lets the consumer leave its own backlog.         *)

\* A set of natural numbers that is not empty has a least element.
LEMMA LeastElement ==
    ASSUME NEW T \in SUBSET Nat, T # {}
    PROVE  \E x \in T : \A y \in T : x <= y
<1> DEFINE R == OpToRel(<, Nat)
<1>1. IsWellFoundedOn(R, Nat)
  BY NatLessThanWellFounded, Zenon
<1>2. \A a, b \in Nat : a < b => <<a, b>> \in R
  BY DEF OpToRel
<1> HIDE DEF R
<1>3. PICK x \in T : \A y \in T : ~(<<y, x>> \in R)
  BY <1>1, WFMin
<1>4. ASSUME NEW y \in T
      PROVE  x <= y
  <2>1. x \in Nat /\ y \in Nat
    OBVIOUS
  <2>2. ~(y < x)
    BY <1>2, <1>3, <2>1
  <2> QED
    BY <2>1, <2>2
<1> QED
  BY <1>4

\* XREADGROUP returns all there is when it returns fewer than it may.
LEMMA ShortIsAll ==
    ASSUME NEW top \in Nat, NEW S \in SUBSET (1..top), Cardinality(FirstOf(S)) < ReadCount
    PROVE  FirstOf(S) = S
<1> SUFFICES ASSUME FirstOf(S) # S PROVE FALSE
  OBVIOUS
<1>1. IsFiniteSet(S) /\ S \in SUBSET Nat
  <2>1. IsFiniteSet(1..top)
    BY FS_Interval
  <2>2. IsFiniteSet(S)
    BY <2>1, FS_Subset
  <2> QED
    BY <2>2
<1>2. S \ FirstOf(S) # {} /\ S \ FirstOf(S) \in SUBSET Nat
  BY <1>1, FirstOfSubset
<1>3. PICK m \in S \ FirstOf(S) : \A y \in S \ FirstOf(S) : m <= y
  BY <1>2, LeastElement
<1> DEFINE Below == {j \in S : j < m}
<1>4. ASSUME NEW j \in Below
      PROVE  j \in FirstOf(S)
  <2>1. j \in S /\ j < m /\ j \in Nat /\ m \in Nat
    BY <1>1, <1>3
  <2> QED
    BY <1>3, <2>1
<1>5. IsFiniteSet(FirstOf(S))
  BY <1>1, FirstOfSubset, FS_Subset
<1> HIDE DEF Below
<1>6. Cardinality(Below) <= Cardinality(FirstOf(S)) /\ IsFiniteSet(Below)
  <2>1. Below \in SUBSET FirstOf(S)
    BY <1>4
  <2> QED
    BY <1>5, <2>1, FS_Subset
<1>7. Cardinality(Below) \in Nat /\ Cardinality(FirstOf(S)) \in Nat
  BY <1>5, <1>6, FS_CardinalityType
<1>8. Cardinality(Below) < ReadCount
  BY <1>6, <1>7, PipelineAssumption
<1>9. m \in FirstOf(S)
  BY <1>3, <1>8 DEF FirstOf, Below
<1> QED
  BY <1>3, <1>9

\* The consumer has a batch in hand exactly while it works on one.
InHand ==
    /\ cpc \in {"group", "read"} => batch = {}
    /\ cpc = "ack" => batch # {}

StrandInv == InHand /\ NoneStranded

\* The history of faults only grows.
LEMMA HistoryGrows ==
    ASSUME TypeOK, NEW k, NEW K, faults' = Append(faults, k)
    PROVE  /\ Happened(K) => Happened(K)'
           /\ k \in K => Happened(K)'
           /\ Len(faults') = Len(faults) + 1 /\ Len(faults) \in Nat
<1>1. faults \in Seq(FaultKinds)
  BY DEF TypeOK
<1>2. /\ Len(faults) \in Nat /\ Len(faults') = Len(faults) + 1
      /\ DOMAIN faults = 1..Len(faults) /\ DOMAIN faults' = 1..(Len(faults) + 1)
      /\ \A i \in 1..Len(faults) : faults'[i] = faults[i]
      /\ faults'[Len(faults) + 1] = k
  BY <1>1
<1> QED
  BY <1>2 DEF Happened

\* A step that leaves the consumer and its pending-entries list alone.
LEMMA ElsewhereStrands ==
    ASSUME TypeOK, StrandInv, UNCHANGED <<conVars, pel>>,
           faults' = faults \/ \E k : faults' = Append(faults, k)
    PROVE  StrandInv'
<1>1. Happened({"read"}) => Happened({"read"})'
  <2>1. CASE faults' = faults
    BY <2>1 DEF Happened
  <2> QED
    BY <2>1, HistoryGrows
<1> QED
  BY <1>1 DEF conVars, StrandInv, InHand, NoneStranded

\* The reads.
LEMMA ReadStrands ==
    ASSUME TypeOK, StrandInv, ReadOwn \/ ReadNew
    PROVE  StrandInv'
<1>1. /\ faults' = faults /\ cpc = "read" /\ batch = {}
      /\ Happened({"read"}) => Happened({"read"})'
  BY DEF ReadOwn, ReadNew, StrandInv, InHand, Happened
<1>2. CASE ReadOwn /\ pel = {}
  <2>1. pel' = {} /\ batch' = {} /\ cpc' = "read"
    BY <1>1, <1>2 DEF ReadOwn, redVars
  <2> QED
    BY <2>1 DEF StrandInv, InHand, NoneStranded
<1>3. CASE ReadOwn /\ pel # {}
  <2>1. /\ pel' = pel /\ batch' = FirstOf(pel) /\ backlog' = "own" /\ cpc' = "process"
        /\ size' = IF Cardinality(FirstOf(pel)) < ReadCount THEN "short" ELSE "full"
    BY <1>3 DEF ReadOwn, TakeBatch, redVars
  <2>2. CASE Cardinality(FirstOf(pel)) < ReadCount
    <3>1. Len(log) \in Nat /\ pel \in SUBSET (1..Len(log))
      BY DEF TypeOK
    <3>2. FirstOf(pel) = pel
      BY <2>2, <3>1, ShortIsAll
    <3> QED
      BY <2>1, <3>2 DEF StrandInv, InHand, NoneStranded
  <2>3. CASE ~(Cardinality(FirstOf(pel)) < ReadCount)
    BY <2>1, <2>3 DEF StrandInv, InHand, NoneStranded
  <2> QED
    BY <2>2, <2>3
<1>4. CASE ReadNew
  <2>1. /\ backlog = "new" /\ pel' = pel \cup FirstOf(Fresh)
        /\ batch' = FirstOf(Fresh) /\ cpc' = "process"
    BY <1>4 DEF ReadNew, Deliver, TakeBatch
  <2>2. pel = {} \/ Happened({"read"})
    BY <1>1, <2>1 DEF StrandInv, NoneStranded
  <2> QED
    BY <1>1, <2>1, <2>2 DEF StrandInv, InHand, NoneStranded
<1> QED
  BY <1>2, <1>3, <1>4

\* An entry acknowledged leaves both the batch and the pending-entries list.
LEMMA AckStrands ==
    ASSUME TypeOK, StrandInv, AckDelete
    PROVE  StrandInv'
<1>1. /\ batch # {} /\ pel' = pel \ {cur} /\ batch' = batch \ {cur}
      /\ size' = size /\ faults' = faults
      /\ cpc' = IF batch' # {} THEN "process" ELSE "read"
      /\ backlog' = IF batch' = {} /\ backlog = "own" /\ size = "short"
                    THEN "new" ELSE backlog
  BY DEF AckDelete, StrandInv, InHand
<1>2. InHand'
  BY <1>1 DEF InHand
<1>3. CASE pel \subseteq batch
  BY <1>1, <1>2, <1>3 DEF StrandInv, NoneStranded
<1>4. CASE backlog = "own" /\ (batch # {} => size = "full")
  BY <1>1, <1>2, <1>4 DEF StrandInv, NoneStranded
<1>5. CASE Happened({"read"})
  BY <1>1, <1>2, <1>5 DEF StrandInv, NoneStranded, Happened
<1> QED
  BY <1>3, <1>4, <1>5 DEF StrandInv, NoneStranded

\* Every step keeps entries from being stranded.
LEMMA StrandNext ==
    ASSUME TypeOK, StrandInv, [Next]_vars
    PROVE  StrandInv'
<1>1. ASSUME NEW h \in Handler, Ingest(h) PROVE StrandInv'
  <2>1. /\ UNCHANGED <<conVars, pel>>
        /\ faults' = faults \/ \E k : faults' = Append(faults, k)
    BY <1>1 DEF Ingest, Receive, EnqueueStream, EnqueueFails, EnqueueAmbiguous,
                SpillAppend, SpillFails, Reply, redVars, Fault
  <2> QED
    BY <2>1, ElsewhereStrands
<1>2. CASE Drainer
  <2>1. /\ UNCHANGED <<conVars, pel>>
        /\ faults' = faults \/ \E k : faults' = Append(faults, k)
    BY <1>2 DEF Drainer, StartDrain, DrainFails, SkipLine, PushLine, PushFails,
                TruncateWal, TruncateFails, redVars, Fault
  <2> QED
    BY <2>1, ElsewhereStrands
<1>3. CASE Consumer
  <2>1. CASE EnsureGroup
    BY <2>1 DEF EnsureGroup, redVars, StrandInv, InHand, NoneStranded, Happened
  <2>2. CASE ReadOwn \/ ReadNew
    BY <2>2, ReadStrands
  <2>3. CASE ReadReplyLost
    <3>1. UNCHANGED conVars /\ faults' = Append(faults, "read")
      BY <2>3 DEF ReadReplyLost, Fault
    <3>2. Happened({"read"})'
      BY <3>1, HistoryGrows
    <3> QED
      BY <3>1, <3>2 DEF conVars, StrandInv, InHand, NoneStranded
  <2>4. ASSUME NEW k \in NasId, Process(k) PROVE StrandInv'
    <3>1. PICK m \in batch : cur' = m /\ cpc' = "ack"
      BY <2>4 DEF Process
    <3>2. UNCHANGED <<pel, backlog, batch, size>>
      BY <2>4 DEF Process, redVars
    <3>3. Happened({"read"}) => Happened({"read"})'
      <4>1. faults' = faults \/ \E q : faults' = Append(faults, q)
        BY <2>4 DEF Process, Lookup, Fault
      <4> QED
        BY <4>1, HistoryGrows DEF Happened
    <3> QED
      BY <3>1, <3>2, <3>3 DEF StrandInv, InHand, NoneStranded
  <2>5. CASE ProcessFails
    BY <2>5 DEF ProcessFails, Retry, StrandInv, InHand, NoneStranded
  <2>6. CASE AckDelete
    BY <2>6, AckStrands
  <2> QED
    BY <1>3, <2>1, <2>2, <2>3, <2>4, <2>5, <2>6 DEF Consumer
<1>4. CASE RedisDown \/ RedisBack \/ DbDown \/ DbBack
  <2>1. /\ UNCHANGED <<conVars, pel>>
        /\ faults' = faults \/ \E k : faults' = Append(faults, k)
    BY <1>4 DEF RedisDown, RedisBack, DbDown, DbBack, redVars, Fault
  <2> QED
    BY <2>1, ElsewhereStrands
<1>5. CASE Crash
  BY <1>5 DEF Crash, StrandInv, InHand, NoneStranded
<1>6. CASE UNCHANGED vars
  <2>1. UNCHANGED <<conVars, pel>> /\ faults' = faults
    BY <1>6 DEF vars, redVars
  <2> QED
    BY <2>1, ElsewhereStrands
<1> QED
  BY <1>1, <1>2, <1>3, <1>4, <1>5, <1>6 DEF Next, Environment

\* For any readCount and any interleaving of failures, commits and restarts:
\* no entry delivered to the consumer is left outside its batch once the
\* consumer reads new ones only, unless the reply of a read was lost.
THEOREM NoStranding == Spec => []NoneStranded
<1>1. Init => StrandInv
  BY DEF Init, StrandInv, InHand, NoneStranded
<1>2. TypeOK /\ StrandInv /\ [Next]_vars => StrandInv'
  BY StrandNext
<1>3. StrandInv => NoneStranded
  BY DEF StrandInv
<1> QED
  BY <1>1, <1>2, <1>3, TypeCorrect, PTL DEF Spec

-----------------------------------------------------------------------------
(* The refinement of AcctContract: under the mapping held <- Held,         *)
(* stored <- Stored every step of the pipeline is a step of the contract   *)
(* or leaves what the contract speaks of unchanged.                        *)

\* The steps of the contract in the variables of the pipeline: a record is
\* taken.
LEMMA TakesStep ==
    ASSUME NEW x \in Rec, Held' = Held \cup {x}, UNCHANGED <<acked, Stored>>
    PROVE  Contract!Next
BY DEF Contract!Next, Contract!Take

\* An answer, for a record that is held or stored.
LEMMA AcksStep ==
    ASSUME NEW x \in Rec, x \in Held \cup Stored, acked' = acked \cup {x},
           UNCHANGED <<Held, Stored>>
    PROVE  Contract!Next
BY DEF Contract!Next, Contract!Acknowledge

\* A commit, of a record that is held.
LEMMA StoresStep ==
    ASSUME NEW x \in Held, Stored' = Stored \cup {x}, UNCHANGED <<acked, Held>>
    PROVE  Contract!Next
<1>1. x \in Rec
  BY DEF Held, InWal, InStream
<1> QED
  BY <1>1 DEF Contract!Next, Contract!Store

\* Copies that are dropped are of stored records.
LEMMA DropsStep ==
    ASSUME Held' \subseteq Held, Held \subseteq Held' \cup Stored,
           UNCHANGED <<acked, Stored>>
    PROVE  Contract!Next
<1> DEFINE S == Held \ Held'
<1>1. S \in SUBSET Rec
  BY DEF Held, InWal, InStream
<1>2. S \subseteq Stored /\ Held' = Held \ S
  OBVIOUS
<1> HIDE DEF S
<1>3. Contract!Discard(S)
  BY <1>2 DEF Contract!Discard
<1> QED
  BY <1>1, <1>3 DEF Contract!Next

\* An XADD adds its record to the stream and nothing else.
LEMMA XAddStream ==
    ASSUME TypeOK, NEW x \in Rec, XAdd(x)
    PROVE  InStream' = InStream \cup {x}
<1>1. log \in Seq(Rec) /\ entries \subseteq 1..Len(log)
  BY DEF TypeOK
<1>2. log' = Append(log, x) /\ entries' = entries \cup {Len(log) + 1}
  BY DEF XAdd
<1>3. /\ log'[Len(log) + 1] = x
      /\ \A i \in 1..Len(log) : log'[i] = log[i]
  BY <1>1, <1>2, AppendFacts
<1>4. \A i \in entries : log'[i] = log[i]
  BY <1>1, <1>3
<1> QED
  BY <1>2, <1>3, <1>4 DEF InStream

\* A whole line adds its record to the WAL and nothing else.
LEMMA WriteLineWal ==
    ASSUME TypeOK, NoPartialLine, NEW x \in Rec, WriteLine(x)
    PROVE  InWal' = InWal \cup {x}
<1>1. wal' = Append(wal, x)
  BY DEF WriteLine, Line, NoPartialLine
<1>2. wal \in Seq(Rec \cup {Corrupt})
  BY DEF TypeOK
<1>3. /\ DOMAIN wal' = 1..(Len(wal) + 1) /\ DOMAIN wal = 1..Len(wal)
      /\ wal'[Len(wal) + 1] = x /\ \A i \in DOMAIN wal : wal'[i] = wal[i]
      /\ Len(wal) \in Nat
  BY <1>1, <1>2
<1>4. DOMAIN wal' = DOMAIN wal \cup {Len(wal) + 1}
  BY <1>3
<1> QED
  BY <1>3, <1>4 DEF InWal

\* What each variable of the contract depends on.
LEMMA MapSame ==
    /\ UNCHANGED wal => InWal' = InWal
    /\ UNCHANGED <<log, entries>> => InStream' = InStream
    /\ UNCHANGED dedup => Stored' = Stored
BY DEF InWal, InStream, Stored

\* Ingest takes and acknowledges.
LEMMA IngestRefines ==
    ASSUME "torn" \notin Faults, TypeOK, DurableInv, NEW h \in Handler, Ingest(h)
    PROVE  [Contract!Next]_(Contract!cvars)
<1>1. \A g \in Handler : hpc[g] # "idle" => hrec[g] \in Rec
  BY DEF TypeOK
<1>2. CASE (\E r \in Rec : Receive(h, r)) \/ EnqueueFails(h)
  <2>1. UNCHANGED <<acked, wal, log, entries, dedup>>
    BY <1>2 DEF Receive, EnqueueFails, netVars, walVars, redVars
  <2> QED
    BY <2>1, MapSame DEF Contract!cvars, Held
<1>3. CASE EnqueueStream(h) \/ EnqueueAmbiguous(h)
  <2>1. XAdd(hrec[h]) /\ hrec[h] \in Rec /\ UNCHANGED <<acked, wal, dedup>>
    BY <1>1, <1>3 DEF EnqueueStream, EnqueueAmbiguous, netVars, walVars
  <2>2. InStream' = InStream \cup {hrec[h]} /\ InWal' = InWal /\ Stored' = Stored
    BY <2>1, XAddStream, MapSame
  <2>3. Held' = Held \cup {hrec[h]}
    BY <2>2 DEF Held
  <2> QED
    BY <2>1, <2>2, <2>3, TakesStep
<1>4. CASE SpillAppend(h) \/ SpillFails(h)
  <2>1. hrec[h] \in Rec /\ UNCHANGED <<acked, log, entries, dedup>>
    BY <1>1, <1>4 DEF SpillAppend, SpillFails, netVars, redVars
  <2>2. WriteLine(hrec[h]) \/ UNCHANGED wal
    BY <1>4 DEF SpillAppend, SpillFails
  <2>3. CASE UNCHANGED wal
    BY <2>1, <2>3, MapSame DEF Contract!cvars, Held
  <2>4. CASE WriteLine(hrec[h])
    <3>1. InWal' = InWal \cup {hrec[h]} /\ InStream' = InStream /\ Stored' = Stored
      BY <2>1, <2>4, WriteLineWal, MapSame DEF DurableInv
    <3>2. Held' = Held \cup {hrec[h]}
      BY <3>1 DEF Held
    <3> QED
      BY <2>1, <3>1, <3>2, TakesStep
  <2> QED
    BY <2>2, <2>3, <2>4
<1>5. CASE Reply(h)
  <2>1. /\ hrec[h] \in Rec /\ acked' = acked \cup {hrec[h]}
        /\ UNCHANGED <<wal, log, entries, dedup>>
    BY <1>1, <1>5 DEF Reply, walVars, redVars
  <2>2. hrec[h] \in Held \cup Stored
    BY <1>5 DEF Reply, DurableInv, Queued, Held
  <2>3. Held' = Held /\ Stored' = Stored
    BY <2>1, MapSame DEF Held
  <2> QED
    BY <2>1, <2>2, <2>3, AcksStep
<1> QED
  BY <1>2, <1>3, <1>4, <1>5 DEF Ingest

\* The drainer copies lines to the stream and drops them once all are there.
LEMMA DrainerRefines ==
    ASSUME TypeOK, DurableInv, Drainer
    PROVE  [Contract!Next]_(Contract!cvars)
<1>1. CASE StartDrain \/ DrainFails \/ SkipLine
  <2>1. UNCHANGED <<acked, wal, log, entries, dedup>>
    BY <1>1 DEF StartDrain, DrainFails, SkipLine, netVars, walVars, redVars
  <2> QED
    BY <2>1, MapSame DEF Contract!cvars, Held
<1>2. CASE PushLine \/ PushFails
  <2>1. /\ XAdd(wal[di]) \/ UNCHANGED <<log, entries>>
        /\ di <= Len(wal) /\ wal[di] # Corrupt /\ UNCHANGED <<acked, wal, dedup>>
    BY <1>2 DEF PushLine, PushFails, netVars, walVars
  <2>2. wal[di] \in Rec
    BY <2>1, WalLine
  <2>3. CASE UNCHANGED <<log, entries>>
    BY <2>1, <2>3, MapSame DEF Contract!cvars, Held
  <2>4. CASE XAdd(wal[di])
    <3>1. InStream' = InStream \cup {wal[di]} /\ InWal' = InWal /\ Stored' = Stored
      BY <2>1, <2>2, <2>4, XAddStream, MapSame
    <3>2. Held' = Held \cup {wal[di]}
      BY <3>1 DEF Held
    <3> QED
      BY <2>1, <2>2, <3>1, <3>2, TakesStep
  <2> QED
    BY <2>1, <2>3, <2>4
<1>3. CASE TruncateWal \/ TruncateFails
  <2>1. /\ dpc = "push" /\ di > Len(wal) /\ UNCHANGED <<acked, log, entries, dedup>>
        /\ wal' = wal \/ wal' = <<>>
    BY <1>3 DEF TruncateWal, TruncateFails, netVars, redVars
  <2>2. InWal \subseteq Queued
    BY <2>1 DEF DurableInv, InWal, TypeOK
  <2>3. InWal' = InWal \/ InWal' = {}
    BY <2>1 DEF InWal
  <2>4. InStream' = InStream /\ Stored' = Stored
    BY <2>1, MapSame
  <2>5. Held' \subseteq Held /\ Held \subseteq Held' \cup Stored
    BY <2>2, <2>3, <2>4 DEF Held, Queued
  <2> QED
    BY <2>1, <2>4, <2>5, DropsStep
<1> QED
  BY <1>1, <1>2, <1>3 DEF Drainer

\* The consumer stores, and drops an entry once it is stored.
LEMMA ConsumerRefines ==
    ASSUME TypeOK, DurableInv, Consumer
    PROVE  [Contract!Next]_(Contract!cvars)
<1>1. CASE EnsureGroup \/ ReadOwn \/ ReadNew \/ ReadReplyLost
  <2>1. UNCHANGED <<acked, wal, log, entries, dedup>>
    BY <1>1 DEF EnsureGroup, ReadOwn, ReadNew, ReadReplyLost, netVars, walVars, redVars
  <2> QED
    BY <2>1, MapSame DEF Contract!cvars, Held
<1>2. ASSUME NEW k \in NasId, NEW m \in batch, dedup' = dedup \cup {<<k, log[m]>>},
             UNCHANGED <<acked, wal, log, entries>>
      PROVE  Contract!Next
  <2>1. log[m] \in Rec /\ m \in entries
    BY DEF TypeOK
  <2>2. Stored' = Stored \cup {log[m]}
    BY <1>2, <2>1 DEF Stored
  <2>3. log[m] \in Held /\ Held' = Held
    BY <1>2, <2>1, MapSame DEF Held, InStream
  <2> QED
    BY <1>2, <2>2, <2>3, StoresStep
<1>3. ASSUME NEW k \in NasId, Process(k)
      PROVE  Contract!Next
  BY <1>2, <1>3 DEF Process, netVars, walVars, redVars
<1>4. CASE ProcessFails
  <2>1. UNCHANGED <<acked, wal, log, entries>>
    BY <1>4 DEF ProcessFails, netVars, walVars, redVars
  <2>2. dedup' = dedup \/ \E m \in batch : dedup' = dedup \cup {<<"nas", log[m]>>}
    BY <1>4 DEF ProcessFails
  <2>3. CASE dedup' = dedup
    BY <2>1, <2>3, MapSame DEF Contract!cvars, Held
  <2>4. CASE \E m \in batch : dedup' = dedup \cup {<<"nas", log[m]>>}
    BY <1>2, <2>1, <2>4 DEF NasId
  <2> QED
    BY <2>2, <2>3, <2>4
<1>5. CASE AckDelete
  <2>1. /\ UNCHANGED <<acked, wal, log, dedup>> /\ entries' = entries \ {cur}
        /\ log[cur] \in Stored
    BY <1>5 DEF AckDelete, netVars, walVars, DurableInv
  <2>2. InWal' = InWal /\ Stored' = Stored
    BY <2>1, MapSame
  <2>3. InStream' \subseteq InStream /\ InStream \subseteq InStream' \cup Stored
    BY <2>1 DEF InStream
  <2>4. Held' \subseteq Held /\ Held \subseteq Held' \cup Stored
    BY <2>2, <2>3 DEF Held
  <2> QED
    BY <2>1, <2>2, <2>4, DropsStep
<1> QED
  BY <1>1, <1>3, <1>4, <1>5 DEF Consumer

\* A kill may leave the line of an append in flight: the record is taken.
LEMMA EnvironmentRefines ==
    ASSUME "torn" \notin Faults, TypeOK, DurableInv, Environment \/ UNCHANGED vars
    PROVE  [Contract!Next]_(Contract!cvars)
<1>1. UNCHANGED <<acked, log, entries, dedup>>
  BY DEF Environment, RedisDown, RedisBack, DbDown, DbBack, Crash, vars, netVars, redVars
<1>2. UNCHANGED wal \/ \E h \in Handler : hpc[h] = "spill" /\ WriteLine(hrec[h])
  BY DEF Environment, RedisDown, RedisBack, DbDown, DbBack, Crash, KillAppend, vars, walVars
<1>3. CASE UNCHANGED wal
  BY <1>1, <1>3, MapSame DEF Contract!cvars, Held
<1>4. ASSUME NEW h \in Handler, hpc[h] = "spill", WriteLine(hrec[h])
      PROVE  Contract!Next
  <2>1. hrec[h] \in Rec
    BY <1>4 DEF TypeOK
  <2>2. InWal' = InWal \cup {hrec[h]} /\ InStream' = InStream /\ Stored' = Stored
    BY <1>1, <1>4, <2>1, WriteLineWal, MapSame DEF DurableInv
  <2>3. Held' = Held \cup {hrec[h]}
    BY <2>2 DEF Held
  <2> QED
    BY <1>1, <2>1, <2>2, <2>3, TakesStep
<1> QED
  BY <1>2, <1>3, <1>4

\* The accounting pipeline implements the ack contract: for any number of
\* records, handlers, retransmissions and faults other than a partial line,
\* what a 204 promises is what an atomic store would promise.
THEOREM Refinement == "torn" \notin Faults => (Spec => ImplementsContract)
<1> SUFFICES ASSUME "torn" \notin Faults PROVE Spec => ImplementsContract
  OBVIOUS
<1>1. Init => Contract!Init
  BY DEF Init, Contract!Init, Held, InWal, InStream, Stored
<1>2. TypeOK /\ DurableInv /\ [Next]_vars => [Contract!Next]_(Contract!cvars)
  BY IngestRefines, DrainerRefines, ConsumerRefines, EnvironmentRefines DEF Next
<1> QED
  BY <1>1, <1>2, TypeCorrect, DurableCorrect, PTL
     DEF Spec, ImplementsContract, Contract!Spec

-----------------------------------------------------------------------------
(* The audit counters of AcctCounters.                                     *)

CountersType ==
    /\ received \in Nat /\ persisted \in Nat /\ deduplicated \in Nat
    /\ rdReceived \in Nat /\ pgReceived \in Nat
    /\ pgPersisted \in Nat /\ pgDeduplicated \in Nat

\* Counting changes nothing of the pipeline.
LEMMA CountersStep == [CountersNext]_allVars => [Next]_vars
<1> SUFFICES ASSUME CountersNext \/ UNCHANGED allVars PROVE Next \/ UNCHANGED vars
  OBVIOUS
<1>1. CASE \/ \E h \in Handler, r \in Rec : CountReceive(h, r)
           \/ \E k \in NasId : CountProcess(k)
           \/ CountProcessFails \/ CountCrash
  BY <1>1 DEF CountReceive, CountProcess, CountProcessFails, CountCrash, Next, Ingest,
              Consumer, Environment
<1>2. CASE Flush \/ UNCHANGED allVars
  BY <1>2 DEF Flush, allVars
<1>3. CASE Uncounted
  BY <1>3 DEF Uncounted, Next, Ingest, Consumer, Environment
<1> QED
  BY <1>1, <1>2, <1>3 DEF CountersNext

\* What each step does to the counters.
LEMMA CountersKeepType ==
    ASSUME CountersType, [CountersNext]_allVars
    PROVE  CountersType'
<1>1. ASSUME NEW h \in Handler, NEW r \in Rec, CountReceive(h, r) PROVE CountersType'
  BY <1>1 DEF CountReceive, CountersType
<1>2. ASSUME NEW k \in NasId, CountProcess(k) PROVE CountersType'
  <2>1. CASE dedup' # dedup
    BY <1>2, <2>1 DEF CountProcess, CountersType
  <2>2. CASE dedup' = dedup
    BY <1>2, <2>2 DEF CountProcess, CountersType
  <2> QED
    BY <2>1, <2>2
<1>3. CASE CountProcessFails
  BY <1>3 DEF CountProcessFails, CountersType, memVars
<1>4. CASE Flush
  BY <1>4 DEF Flush, CountersType, memVars
<1>5. CASE CountCrash
  BY <1>5 DEF CountCrash, Load, Larger, mirrors, CountersType
<1>6. CASE Uncounted \/ UNCHANGED allVars
  BY <1>6 DEF Uncounted, allVars, cntVars, memVars, mirrors, CountersType
<1> QED
  BY <1>1, <1>2, <1>3, <1>4, <1>5, <1>6 DEF CountersNext

\* The persisted column counts the rows of acct_dedup.
PersistedInv == IsFiniteSet(dedup) /\ PersistedExact

\* A commit of a new record counts one row, a conflict counts none.
LEMMA DedupCount ==
    ASSUME IsFiniteSet(dedup), NEW x, dedup' = dedup \cup {x}
    PROVE  /\ IsFiniteSet(dedup')
           /\ Cardinality(dedup') = Cardinality(dedup) + (IF dedup' # dedup THEN 1 ELSE 0)
<1>1. /\ IsFiniteSet(dedup')
      /\ Cardinality(dedup') = IF x \in dedup THEN Cardinality(dedup) ELSE Cardinality(dedup) + 1
  BY FS_AddElement
<1>2. Cardinality(dedup) \in Nat
  BY FS_CardinalityType
<1>3. (x \in dedup) <=> (dedup' = dedup)
  OBVIOUS
<1> QED
  BY <1>1, <1>2, <1>3

\* Every step keeps the column exact and the atomic behind it.
LEMMA PersistedNext ==
    ASSUME CountersType, PersistedInv, [CountersNext]_allVars
    PROVE  PersistedInv'
<1> DEFINE new == IF dedup' # dedup THEN 1 ELSE 0
<1>1. /\ IsFiniteSet(dedup) /\ pgPersisted = Cardinality(dedup) /\ persisted <= pgPersisted
      /\ persisted \in Nat /\ pgPersisted \in Nat
  BY DEF PersistedInv, PersistedExact, CountersType
<1>2. ASSUME IsFiniteSet(dedup') /\ Cardinality(dedup') = Cardinality(dedup) + new,
             pgPersisted' = pgPersisted + new,
             persisted' = persisted \/ persisted' = persisted + new
      PROVE  PersistedInv'
  BY <1>1, <1>2 DEF PersistedInv, PersistedExact
<1>3. ASSUME dedup' = dedup, pgPersisted' = pgPersisted, persisted' \in {persisted, pgPersisted, 0}
      PROVE  PersistedInv'
  BY <1>1, <1>3 DEF PersistedInv, PersistedExact
<1>4. ASSUME NEW k \in NasId, CountProcess(k) PROVE PersistedInv'
  <2>1. \E x : dedup' = dedup \cup {x}
    BY <1>4 DEF CountProcess, Process
  <2>2. pgPersisted' = pgPersisted + new /\ persisted' = persisted + new
    BY <1>1, <1>4 DEF CountProcess
  <2> HIDE DEF new
  <2>3. IsFiniteSet(dedup') /\ Cardinality(dedup') = Cardinality(dedup) + new
    BY <1>1, <2>1, DedupCount DEF new
  <2> QED
    BY <1>2, <2>2, <2>3
<1>5. CASE CountProcessFails
  <2>1. dedup' = dedup \/ \E x : dedup' = dedup \cup {x}
    BY <1>5 DEF CountProcessFails, ProcessFails
  <2>2. pgPersisted' = pgPersisted + new /\ persisted' = persisted
    BY <1>5 DEF CountProcessFails, memVars
  <2>3. CASE dedup' = dedup
    BY <1>1, <1>3, <2>2, <2>3
  <2>4. CASE \E x : dedup' = dedup \cup {x}
    <3> HIDE DEF new
    <3>1. IsFiniteSet(dedup') /\ Cardinality(dedup') = Cardinality(dedup) + new
      BY <1>1, <2>4, DedupCount DEF new
    <3> QED
      BY <1>2, <2>2, <3>1
  <2> QED
    BY <2>1, <2>3, <2>4
<1>6. CASE \/ \E h \in Handler, r \in Rec : CountReceive(h, r)
           \/ Flush \/ CountCrash \/ UNCHANGED allVars
  <2>1. dedup' = dedup
    BY <1>6 DEF CountReceive, Receive, Flush, vars, CountCrash, Crash, allVars
  <2>2. pgPersisted' = pgPersisted /\ persisted' \in {persisted, pgPersisted, 0}
    BY <1>6 DEF CountReceive, Flush, memVars, CountCrash, Load, mirrors, allVars, cntVars
  <2> QED
    BY <1>3, <2>1, <2>2
<1>7. CASE Uncounted
  <2>1. dedup' = dedup
    BY <1>7 DEF Uncounted, EnqueueStream, EnqueueFails, EnqueueAmbiguous, SpillAppend,
                SpillFails, Reply, Drainer, StartDrain, DrainFails, SkipLine, PushLine,
                PushFails, TruncateWal, TruncateFails, EnsureGroup, ReadOwn, ReadNew,
                ReadReplyLost, AckDelete, RedisDown, RedisBack, DbDown, DbBack
  <2>2. pgPersisted' = pgPersisted /\ persisted' = persisted
    BY <1>7 DEF Uncounted, cntVars, memVars, mirrors
  <2> QED
    BY <1>3, <2>1, <2>2
<1> QED
  BY <1>4, <1>5, <1>6, <1>7 DEF CountersNext

\* The counters keep their types and the pipeline its own.
LEMMA CountersTyped == CountersSpec => [](TypeOK /\ CountersType)
<1>1. CountersInit => Init /\ CountersType
  BY DEF CountersInit, CountersType
<1>2. CountersType /\ [CountersNext]_allVars => CountersType'
  BY CountersKeepType
<1> QED
  BY <1>1, <1>2, CountersStep, TypeCorrect, PTL DEF CountersSpec, Spec

\* bumpPersistedInTx: whatever is killed, whichever answer is lost, the
\* persisted column is the number of rows committed, and the atomic never
\* runs ahead of it.
THEOREM PersistedCorrect == CountersSpec => []PersistedExact
<1>1. CountersInit => PersistedInv
  BY FS_EmptySet DEF CountersInit, Init, PersistedInv, PersistedExact
<1>2. CountersType /\ PersistedInv /\ [CountersNext]_allVars => PersistedInv'
  BY PersistedNext
<1>3. PersistedInv => PersistedExact
  BY DEF PersistedInv
<1> QED
  BY <1>1, <1>2, <1>3, CountersTyped, PTL DEF CountersSpec

-----------------------------------------------------------------------------
\* What the counters of a killed process are restored from: with both stores
\* always up, the Redis mirror is the count itself.
SurviveInv ==
    /\ deduplicated <= pgDeduplicated /\ persisted <= pgPersisted
    /\ ~Happened({"redis", "db"}) =>
          redis = "up" /\ db = "up" /\ received = rdReceived /\ pgReceived <= rdReceived

\* Every step appends at most one fault.
LEMMA FaultSteps ==
    ASSUME [CountersNext]_allVars
    PROVE  faults' = faults \/ \E k \in Faults : faults' = Append(faults, k)
<1>1. CASE \/ \E h \in Handler, r \in Rec : CountReceive(h, r)
           \/ \E k \in NasId : CountProcess(k)
           \/ CountProcessFails \/ CountCrash \/ Flush \/ UNCHANGED allVars
  BY <1>1 DEF CountReceive, CountProcess, CountProcessFails, CountCrash, Receive, Process,
              Lookup, ProcessFails, Crash, Flush, allVars, vars, Fault
<1>2. CASE Uncounted
  BY <1>2 DEF Uncounted, EnqueueStream, EnqueueFails, EnqueueAmbiguous, SpillAppend,
              SpillFails, Reply, Drainer, StartDrain, DrainFails, SkipLine, PushLine,
              PushFails, TruncateWal, TruncateFails, EnsureGroup, ReadOwn, ReadNew,
              ReadReplyLost, AckDelete, RedisDown, RedisBack, DbDown, DbBack, Fault
<1> QED
  BY <1>1, <1>2 DEF CountersNext

\* A step that takes a store down leaves that in the history.
LEMMA StoresUp ==
    ASSUME TypeOK, [CountersNext]_allVars, ~Happened({"redis", "db"})',
           redis = "up", db = "up"
    PROVE  redis' = "up" /\ db' = "up"
<1>1. \A k \in {"redis", "db"} : ~Fault(k)
  BY HistoryGrows DEF Fault
<1>2. ~RedisDown /\ ~DbDown
  BY <1>1 DEF RedisDown, DbDown
<1>3. CASE \/ \E h \in Handler, r \in Rec : CountReceive(h, r)
           \/ \E k \in NasId : CountProcess(k)
           \/ CountProcessFails \/ CountCrash \/ Flush \/ UNCHANGED allVars
  BY <1>3 DEF CountReceive, CountProcess, CountProcessFails, CountCrash, Receive, Process,
              ProcessFails, Crash, Flush, allVars, vars, envVars
<1>4. CASE Uncounted
  BY <1>2, <1>4 DEF Uncounted, EnqueueStream, EnqueueFails, EnqueueAmbiguous, SpillAppend,
              SpillFails, Reply, Drainer, StartDrain, DrainFails, SkipLine, PushLine,
              PushFails, TruncateWal, TruncateFails, EnsureGroup, ReadOwn, ReadNew,
              ReadReplyLost, AckDelete, RedisBack, DbBack, envVars
<1> QED
  BY <1>3, <1>4 DEF CountersNext

\* Every step keeps the mirrors ahead of the atomics, and no total falls.
LEMMA SurviveNext ==
    ASSUME TypeOK, CountersType, SurviveInv, [CountersNext]_allVars
    PROVE  /\ SurviveInv'
           /\ ~Happened({"redis", "db"}) => /\ received' >= received
                                            /\ persisted' >= persisted
                                            /\ deduplicated' >= deduplicated
<1>1. Happened({"redis", "db"}) => Happened({"redis", "db"})'
  <2>1. CASE faults' = faults
    BY <2>1 DEF Happened
  <2> QED
    BY <2>1, FaultSteps, HistoryGrows
<1>2. ASSUME ~Happened({"redis", "db"})'
      PROVE  redis = "up" /\ db = "up" /\ redis' = "up" /\ db' = "up"
             /\ received = rdReceived /\ pgReceived <= rdReceived
  BY <1>1, <1>2, StoresUp DEF SurviveInv
<1>3. ASSUME NEW h \in Handler, NEW r \in Rec, CountReceive(h, r)
      PROVE  /\ SurviveInv'
             /\ received' >= received /\ persisted' >= persisted /\ deduplicated' >= deduplicated
  BY <1>2, <1>3 DEF CountReceive, SurviveInv, CountersType
<1>4. ASSUME NEW k \in NasId, CountProcess(k)
      PROVE  /\ SurviveInv'
             /\ received' >= received /\ persisted' >= persisted /\ deduplicated' >= deduplicated
  <2>1. CASE dedup' # dedup
    BY <1>2, <1>4, <2>1 DEF CountProcess, SurviveInv, CountersType
  <2>2. CASE dedup' = dedup
    BY <1>2, <1>4, <2>2 DEF CountProcess, SurviveInv, CountersType
  <2> QED
    BY <2>1, <2>2
<1>5. CASE CountProcessFails
  BY <1>2, <1>5 DEF CountProcessFails, memVars, SurviveInv, CountersType
<1>6. CASE Flush
  BY <1>2, <1>6 DEF Flush, memVars, SurviveInv, CountersType
<1>7. CASE CountCrash
  <2>1. UNCHANGED <<rdReceived, pgReceived, pgPersisted, pgDeduplicated>>
    BY <1>7 DEF CountCrash, mirrors
  <2>2. /\ persisted' \in {pgPersisted, 0} /\ deduplicated' \in {pgDeduplicated, 0}
        /\ redis = "up" /\ db = "up" =>
              /\ received' = Larger(pgReceived, rdReceived)
              /\ persisted' = pgPersisted /\ deduplicated' = pgDeduplicated
    BY <1>7 DEF CountCrash, Load
  <2>3. ~Happened({"redis", "db"}) => redis = "up" /\ db = "up"
    BY DEF SurviveInv
  <2>4. SurviveInv'
    BY <1>2, <2>1, <2>2 DEF SurviveInv, CountersType, Larger
  <2> QED
    BY <2>2, <2>3, <2>4 DEF SurviveInv, CountersType, Larger
<1>8. CASE Uncounted \/ UNCHANGED allVars
  <2>1. UNCHANGED <<received, persisted, deduplicated, rdReceived, pgReceived,
                    pgPersisted, pgDeduplicated>>
    BY <1>8 DEF Uncounted, allVars, cntVars, memVars, mirrors
  <2> QED
    BY <1>2, <2>1 DEF SurviveInv, CountersType
<1> QED
  BY <1>3, <1>4, <1>5, <1>6, <1>7, <1>8 DEF CountersNext

\* counters.load: while both stores have always answered, a kill never sets a
\* total back.
THEOREM TotalsCorrect == CountersSpec => TotalsSurvive
<1>1. CountersInit => SurviveInv
  BY DEF CountersInit, Init, SurviveInv
<1>2. TypeOK /\ CountersType /\ SurviveInv /\ [CountersNext]_allVars => SurviveInv'
  BY SurviveNext
<1>3. TypeOK /\ CountersType /\ SurviveInv /\ [CountersNext]_allVars =>
        [~Happened({"redis", "db"}) => /\ received' >= received
                                       /\ persisted' >= persisted
                                       /\ deduplicated' >= deduplicated]_allVars
  BY SurviveNext
<1> QED
  BY <1>1, <1>2, <1>3, CountersTyped, PTL DEF CountersSpec, TotalsSurvive

-----------------------------------------------------------------------------
(* The conservation law.  It is a sum of what four parts of the pipeline   *)
(* hold, so every step that moves a record is a step of two of them.  The  *)
(* part that is not obvious is the drain: a push that fails would count    *)
(* the lines before it twice, and it cannot fail behind a push that        *)
(* succeeded unless Redis has gone down a second time.                     *)

\* Nothing but one outage of a store so far.
Calm == ~Happened(FaultKinds \ {"redis", "db"}) /\ Len(faults) <= 1

\* Requests that are counted and not yet durable.
Busy == {h \in Handler : hpc[h] \in {"xadd", "spill"}}

Requeued  == IF dpc = "push" THEN di - 1 ELSE 0
Committed == IF cpc = "ack" THEN 1 ELSE 0

Law == received = persisted + deduplicated + Cardinality(entries) + pendN
                  + Cardinality(Busy) - Requeued - Committed

WholeWal ==
    /\ pendN = Len(wal) /\ NoPartialLine
    /\ dpc = "push" => di <= Len(wal) + 1 /\ (di > 1 => redis = "up")

\* Without a fault nothing is spilled.
NoSpillYet ==
    faults = <<>> => redis = "up" /\ wal = <<>> /\ \A h \in Handler : hpc[h] # "spill"

ConserveInv ==
    /\ IsFiniteSet(Busy)
    /\ cpc = "ack" => cur \in batch
    /\ Calm => Law /\ WholeWal /\ NoSpillYet

\* The terms of the law are numbers.
LEMMA LawTypes ==
    ASSUME TypeOK, IsFiniteSet(Busy)
    PROVE  /\ IsFiniteSet(entries) /\ Cardinality(entries) \in Nat
           /\ Cardinality(Busy) \in Nat /\ pendN \in Nat /\ di \in Nat \ {0}
           /\ Len(wal) \in Nat /\ Len(log) \in Nat
<1>1. /\ entries \in SUBSET (1..Len(log)) /\ Len(log) \in Nat /\ Len(wal) \in Nat
      /\ pendN \in Nat /\ di \in Nat \ {0}
  BY DEF TypeOK
<1>2. IsFiniteSet(1..Len(log))
  BY <1>1, FS_Interval
<1>3. IsFiniteSet(entries)
  BY <1>1, <1>2, FS_Subset
<1> QED
  BY <1>1, <1>3, FS_CardinalityType

\* In a calm history no other fault has happened, and an outage is the first.
LEMMA CalmBefore ==
    ASSUME TypeOK, [CountersNext]_allVars, Calm'
    PROVE  /\ Calm
           /\ \A k \in FaultKinds \ {"redis", "db"} : ~Fault(k)
           /\ \A k : Fault(k) => faults = <<>>
           /\ faults' = <<>> => faults = <<>>
<1> DEFINE K == FaultKinds \ {"redis", "db"}
<1>1. faults \in Seq(FaultKinds) /\ Len(faults) \in Nat
  BY DEF TypeOK
<1>2. ASSUME NEW k, faults' = Append(faults, k)
      PROVE  /\ Happened(K) => Happened(K)'
             /\ k \in K => Happened(K)'
             /\ Len(faults') = Len(faults) + 1
  <2> HIDE DEF K
  <2> QED
    BY <1>2, HistoryGrows
<1>3. ~Happened(K)' /\ Len(faults') <= 1
  BY DEF Calm
<1>4. CASE faults' = faults
  <2>1. \A k : ~Fault(k)
    BY <1>1, <1>2, <1>4 DEF Fault
  <2>2. Calm
    BY <1>4 DEF Calm, Happened
  <2> QED
    BY <1>4, <2>1, <2>2
<1>5. ASSUME NEW k \in Faults, faults' = Append(faults, k)
      PROVE  Calm /\ faults = <<>> /\ faults' # <<>>
  <2>1. (Happened(K) => Happened(K)') /\ Len(faults') = Len(faults) + 1
    BY <1>2, <1>5
  <2>2. ~Happened(K)
    BY <1>3, <2>1
  <2>3. Len(faults) = 0 /\ Len(faults') = 1
    BY <1>1, <1>3, <2>1
  <2> QED
    BY <1>1, <2>2, <2>3 DEF Calm
<1>6. \A k \in K : ~Fault(k)
  BY <1>2, <1>3 DEF Fault
<1> QED
  BY <1>4, <1>5, <1>6, FaultSteps

\* A handler joins, leaves or stays among the busy ones.
LEMMA BusyMoves ==
    ASSUME TypeOK, IsFiniteSet(Busy), NEW h \in Handler, NEW l, Goto(h, l)
    PROVE  /\ IsFiniteSet(Busy')
           /\ Cardinality(Busy') = Cardinality(Busy)
                + (IF l \in {"xadd", "spill"} THEN 1 ELSE 0)
                - (IF hpc[h] \in {"xadd", "spill"} THEN 1 ELSE 0)
<1>1. Cardinality(Busy) \in Nat
  BY FS_CardinalityType
<1>2. /\ hpc' = [hpc EXCEPT ![h] = l] /\ hpc'[h] = l
      /\ \A g \in Handler : g # h => hpc'[g] = hpc[g]
  BY DEF Goto, TypeOK
<1>3. h \in Busy <=> hpc[h] \in {"xadd", "spill"}
  BY DEF Busy
<1>4. CASE l \in {"xadd", "spill"}
  <2>1. Busy' = Busy \cup {h}
    BY <1>2, <1>4 DEF Busy
  <2>2. /\ IsFiniteSet(Busy \cup {h})
        /\ Cardinality(Busy \cup {h}) =
              IF h \in Busy THEN Cardinality(Busy) ELSE Cardinality(Busy) + 1
    BY FS_AddElement
  <2> QED
    BY <1>1, <1>3, <1>4, <2>1, <2>2
<1>5. CASE l \notin {"xadd", "spill"}
  <2>1. Busy' = Busy \ {h}
    BY <1>2, <1>5 DEF Busy
  <2>2. /\ IsFiniteSet(Busy \ {h})
        /\ Cardinality(Busy \ {h}) =
              IF h \in Busy THEN Cardinality(Busy) - 1 ELSE Cardinality(Busy)
    BY FS_RemoveElement
  <2> QED
    BY <1>1, <1>3, <1>5, <2>1, <2>2
<1> QED
  BY <1>4, <1>5

\* An XADD makes the stream one entry longer, an XDEL one shorter.
LEMMA StreamMoves ==
    ASSUME TypeOK
    PROVE  /\ \A x : XAdd(x) => Cardinality(entries') = Cardinality(entries) + 1
           /\ cur \in entries /\ entries' = entries \ {cur} =>
                 Cardinality(entries') = Cardinality(entries) - 1
<1>1. IsFiniteSet(entries) /\ entries \in SUBSET (1..Len(log)) /\ Len(log) \in Nat
  <2>1. entries \in SUBSET (1..Len(log)) /\ Len(log) \in Nat
    BY DEF TypeOK
  <2>2. IsFiniteSet(1..Len(log))
    BY <2>1, FS_Interval
  <2> QED
    BY <2>1, <2>2, FS_Subset
<1>2. Len(log) + 1 \notin entries
  BY <1>1
<1>3. ASSUME NEW x, XAdd(x)
      PROVE  Cardinality(entries') = Cardinality(entries) + 1
  <2>1. entries' = entries \cup {Len(log) + 1}
    BY <1>3 DEF XAdd
  <2> QED
    BY <1>1, <1>2, <2>1, FS_AddElement
<1>4. ASSUME cur \in entries, entries' = entries \ {cur}
      PROVE  Cardinality(entries') = Cardinality(entries) - 1
  BY <1>1, <1>4, FS_RemoveElement
<1> QED
  BY <1>3, <1>4

\* The numbers of the law before a step.
LEMMA LawNumbers ==
    ASSUME TypeOK, CountersType, ConserveInv
    PROVE  /\ received \in Nat /\ persisted \in Nat /\ deduplicated \in Nat
           /\ Cardinality(entries) \in Nat /\ pendN \in Nat /\ Cardinality(Busy) \in Nat
           /\ Requeued \in Nat /\ Committed \in Nat
           /\ Len(wal) \in Nat /\ di \in Nat \ {0}
<1>1. IsFiniteSet(Busy)
  BY DEF ConserveInv
<1>2. Requeued \in Nat /\ Committed \in Nat
  BY DEF Requeued, Committed, TypeOK
<1> QED
  BY <1>1, <1>2, LawTypes DEF CountersType

\* A request moves from being counted to being durable.
LEMMA IngestConserves ==
    ASSUME TypeOK, CountersType, ConserveInv, CountersNext, NEW h \in Handler,
           \/ (\E r \in Rec : CountReceive(h, r))
           \/ /\ UNCHANGED cntVars
              /\ \/ EnqueueStream(h) \/ EnqueueFails(h) \/ EnqueueAmbiguous(h)
                 \/ SpillAppend(h) \/ SpillFails(h) \/ Reply(h)
    PROVE  ConserveInv'
<1> DEFINE in(l) == IF l \in {"xadd", "spill"} THEN 1 ELSE 0
<1>1. /\ received \in Nat /\ persisted \in Nat /\ deduplicated \in Nat
      /\ Cardinality(entries) \in Nat /\ pendN \in Nat /\ Cardinality(Busy) \in Nat
      /\ Requeued \in Nat /\ Committed \in Nat
      /\ Len(wal) \in Nat /\ di \in Nat \ {0}
  BY LawNumbers
<1>2. /\ UNCHANGED <<dpc, di, cpc, cur, batch, redis>>
      /\ UNCHANGED <<persisted, deduplicated>>
  BY DEF CountReceive, Receive, EnqueueStream, EnqueueFails, EnqueueAmbiguous, SpillAppend,
         SpillFails, Reply, dVars, conVars, envVars, cntVars, memVars
<1>3. Requeued' = Requeued /\ Committed' = Committed /\ (cpc' = "ack" => cur' \in batch')
  BY <1>2 DEF Requeued, Committed, ConserveInv
<1>4. ASSUME NEW l, Goto(h, l)
      PROVE  /\ IsFiniteSet(Busy')
             /\ Cardinality(Busy') = Cardinality(Busy) + in(l) - in(hpc[h])
             /\ hpc'[h] = l /\ \A g \in Handler : g # h => hpc'[g] = hpc[g]
  <2>1. IsFiniteSet(Busy)
    BY DEF ConserveInv
  <2>2. hpc'[h] = l /\ \A g \in Handler : g # h => hpc'[g] = hpc[g]
    BY <1>4 DEF Goto, TypeOK
  <2> QED
    BY <1>4, <2>1, <2>2, BusyMoves
<1>5. Calm' => /\ Calm /\ Law /\ WholeWal /\ NoSpillYet
               /\ \A k \in FaultKinds \ {"redis", "db"} : ~Fault(k)
               /\ faults' = <<>> => faults = <<>>
  BY CalmBefore DEF ConserveInv
<1>6. ASSUME NEW r \in Rec, CountReceive(h, r) PROVE ConserveInv'
  <2>1. /\ hpc[h] = "idle" /\ Goto(h, "xadd") /\ received' = received + 1
        /\ UNCHANGED <<wal, tail, pendN, entries>>
    BY <1>6 DEF CountReceive, Receive, walVars, redVars
  <2>2. IsFiniteSet(Busy') /\ Cardinality(Busy') = Cardinality(Busy) + 1
    BY <1>1, <1>4, <2>1
  <2>3. ASSUME Calm' PROVE Law' /\ WholeWal' /\ NoSpillYet'
    <3>1. Law'
      BY <1>1, <1>2, <1>3, <1>5, <2>1, <2>2, <2>3, SMTT(30) DEF Law
    <3>2. WholeWal' /\ NoSpillYet'
      BY <1>2, <1>4, <1>5, <2>1, <2>3 DEF WholeWal, NoPartialLine, NoSpillYet
    <3> QED
      BY <3>1, <3>2
  <2> QED
    BY <1>3, <2>2, <2>3 DEF ConserveInv
<1>7. CASE UNCHANGED cntVars /\ EnqueueStream(h)
  <2>1. /\ hpc[h] = "xadd" /\ Goto(h, "reply") /\ received' = received
        /\ UNCHANGED <<wal, tail, pendN>> /\ XAdd(hrec[h])
    BY <1>7 DEF EnqueueStream, walVars, cntVars, memVars
  <2>2. IsFiniteSet(Busy') /\ Cardinality(Busy') = Cardinality(Busy) - 1
    BY <1>1, <1>4, <2>1
  <2>3. Cardinality(entries') = Cardinality(entries) + 1
    BY <2>1, StreamMoves
  <2>4. ASSUME Calm' PROVE Law' /\ WholeWal' /\ NoSpillYet'
    <3>1. Law'
      BY <1>1, <1>2, <1>3, <1>5, <2>1, <2>2, <2>3, <2>4, SMTT(30) DEF Law
    <3>2. WholeWal' /\ NoSpillYet'
      BY <1>2, <1>4, <1>5, <2>1, <2>4 DEF WholeWal, NoPartialLine, NoSpillYet
    <3> QED
      BY <3>1, <3>2
  <2> QED
    BY <1>3, <2>2, <2>4 DEF ConserveInv
<1>8. CASE UNCHANGED cntVars /\ EnqueueFails(h)
  <2>1. /\ hpc[h] = "xadd" /\ Goto(h, "spill") /\ received' = received /\ redis = "down"
        /\ UNCHANGED <<wal, tail, pendN, entries>>
    BY <1>8 DEF EnqueueFails, walVars, redVars, cntVars, memVars
  <2>2. IsFiniteSet(Busy') /\ Cardinality(Busy') = Cardinality(Busy)
    BY <1>1, <1>4, <2>1
  <2>3. ASSUME Calm' PROVE Law' /\ WholeWal' /\ NoSpillYet'
    <3>1. Law'
      BY <1>1, <1>2, <1>3, <1>5, <2>1, <2>2, <2>3 DEF Law
    <3>2. WholeWal' /\ NoSpillYet'
      BY <1>2, <1>5, <2>1, <2>3 DEF WholeWal, NoPartialLine, NoSpillYet
    <3> QED
      BY <3>1, <3>2
  <2> QED
    BY <1>3, <2>2, <2>3 DEF ConserveInv
<1>9. CASE UNCHANGED cntVars /\ (EnqueueAmbiguous(h) \/ SpillFails(h))
  <2>1. /\ \E l : Goto(h, l)
        /\ Fault("xadd") \/ Fault("disk") \/ Fault("torn")
    BY <1>9 DEF EnqueueAmbiguous, SpillFails, Finish
  <2>2. IsFiniteSet(Busy')
    BY <1>4, <2>1
  <2>3. ~Calm'
    BY <1>5, <2>1 DEF FaultKinds
  <2> QED
    BY <1>3, <2>2, <2>3 DEF ConserveInv
<1>10. CASE UNCHANGED cntVars /\ SpillAppend(h)
  <2>1. /\ hpc[h] = "spill" /\ Goto(h, "reply") /\ received' = received /\ dpc # "push"
        /\ pendN' = pendN + 1 /\ entries' = entries /\ WriteLine(hrec[h])
        /\ faults' = faults
    BY <1>10 DEF SpillAppend, WalFree, redVars, cntVars, memVars
  <2>2. IsFiniteSet(Busy') /\ Cardinality(Busy') = Cardinality(Busy) - 1
    BY <1>1, <1>4, <2>1
  <2>3. ASSUME Calm' PROVE Law' /\ WholeWal' /\ NoSpillYet'
    <3>1. Law'
      <4>1. Law
        BY <1>5, <2>3
      <4>2. /\ received' = received /\ pendN' = pendN + 1
            /\ persisted' = persisted /\ deduplicated' = deduplicated
            /\ Cardinality(entries') = Cardinality(entries)
        BY <1>2, <2>1
      <4>3. PICK r, p, d, e, w, b, q, c \in Int :
                 /\ r = received /\ p = persisted /\ d = deduplicated
                 /\ e = Cardinality(entries) /\ w = pendN /\ b = Cardinality(Busy)
                 /\ q = Requeued /\ c = Committed
        BY <1>1
      <4>4. r = p + d + e + w + b - q - c
        BY <4>1, <4>3 DEF Law
      <4>5. r = p + d + e + (w + 1) + (b - 1) - q - c
        BY <4>4
      <4>6. /\ received' = r /\ persisted' = p /\ deduplicated' = d
            /\ Cardinality(entries') = e /\ pendN' = w + 1 /\ Cardinality(Busy') = b - 1
            /\ Requeued' = q /\ Committed' = c
        BY <1>3, <2>2, <4>2, <4>3
      <4> QED
        BY <4>5, <4>6 DEF Law
    <3>2. hrec[h] \in Rec
      BY <2>1 DEF TypeOK
    <3>3. NoPartialLine' /\ Len(wal') = Len(wal) + 1
      <4>1. NoPartialLine
        BY <1>5, <2>3 DEF WholeWal
      <4>2. wal' = Append(wal, Line(hrec[h])) /\ wal \in Seq(Rec \cup {Corrupt})
        BY <2>1 DEF WriteLine, TypeOK
      <4> QED
        BY <2>1, <3>2, <4>1, <4>2, WriteLineKeeps
    <3>4. WholeWal'
      BY <1>1, <1>2, <1>5, <2>1, <2>3, <3>3 DEF WholeWal
    <3>5. NoSpillYet'
      BY <1>5, <2>1, <2>3 DEF NoSpillYet
    <3> QED
      BY <3>1, <3>4, <3>5
  <2> QED
    BY <1>3, <2>2, <2>3 DEF ConserveInv
<1>11. CASE UNCHANGED cntVars /\ Reply(h)
  <2>1. /\ hpc[h] = "reply" /\ Goto(h, "idle") /\ received' = received
        /\ UNCHANGED <<wal, tail, pendN, entries>>
    BY <1>11 DEF Reply, Finish, walVars, redVars, cntVars, memVars
  <2>2. IsFiniteSet(Busy') /\ Cardinality(Busy') = Cardinality(Busy)
    BY <1>1, <1>4, <2>1
  <2>3. ASSUME Calm' PROVE Law' /\ WholeWal' /\ NoSpillYet'
    <3>1. Law'
      BY <1>1, <1>2, <1>3, <1>5, <2>1, <2>2, <2>3 DEF Law
    <3>2. WholeWal' /\ NoSpillYet'
      BY <1>2, <1>4, <1>5, <2>1, <2>3 DEF WholeWal, NoPartialLine, NoSpillYet
    <3> QED
      BY <3>1, <3>2
  <2> QED
    BY <1>3, <2>2, <2>3 DEF ConserveInv
<1> QED
  BY <1>6, <1>7, <1>8, <1>9, <1>10, <1>11

\* Lines are counted on the stream as they are pushed and leave the WAL
\* together.
LEMMA DrainConserves ==
    ASSUME TypeOK, CountersType, ConserveInv, CountersNext, Drainer, UNCHANGED cntVars
    PROVE  ConserveInv'
<1>1. /\ received \in Nat /\ persisted \in Nat /\ deduplicated \in Nat
      /\ Cardinality(entries) \in Nat /\ pendN \in Nat /\ Cardinality(Busy) \in Nat
      /\ Requeued \in Nat /\ Committed \in Nat
      /\ Len(wal) \in Nat /\ di \in Nat \ {0}
  BY LawNumbers
<1>2. /\ UNCHANGED <<hpc, cpc, cur, batch, redis>>
      /\ UNCHANGED <<received, persisted, deduplicated>>
  BY DEF Drainer, StartDrain, DrainFails, SkipLine, PushLine, PushFails, TruncateWal,
         TruncateFails, hVars, conVars, envVars, cntVars, memVars
<1>3. Busy' = Busy /\ Committed' = Committed /\ (cpc' = "ack" => cur' \in batch')
  BY <1>2 DEF Busy, Committed, ConserveInv
<1>4. Calm' => /\ Calm /\ Law /\ WholeWal /\ NoSpillYet
               /\ \A k \in FaultKinds \ {"redis", "db"} : ~Fault(k)
               /\ faults' = <<>> => faults = <<>>
  BY CalmBefore DEF ConserveInv
<1>5. ASSUME Calm' => Law' /\ WholeWal' /\ NoSpillYet'
      PROVE  ConserveInv'
  BY <1>3, <1>5 DEF ConserveInv
<1> SUFFICES ASSUME Calm' PROVE Law' /\ WholeWal' /\ NoSpillYet'
  BY <1>5
<1>6. CASE StartDrain
  <2>1. dpc # "push" /\ dpc' = "push" /\ di' = 1 /\ UNCHANGED <<wal, tail, pendN, entries>>
    BY <1>6 DEF StartDrain, walVars, redVars
  <2>2. Requeued' = Requeued
    BY <2>1 DEF Requeued
  <2>3. Law'
    BY <1>1, <1>2, <1>3, <1>4, <2>1, <2>2 DEF Law
  <2> QED
    BY <1>1, <1>2, <1>4, <2>1, <2>3 DEF WholeWal, NoPartialLine, NoSpillYet
<1>7. CASE DrainFails \/ TruncateFails
  BY <1>4, <1>7 DEF DrainFails, TruncateFails, FaultKinds
<1>8. CASE SkipLine
  <2>1. di \in DOMAIN wal /\ wal[di] = Corrupt
    BY <1>8 DEF SkipLine, TypeOK
  <2> QED
    BY <1>4, <2>1, PipelineAssumption DEF WholeWal, NoPartialLine
<1>9. CASE PushLine
  <2>1. /\ dpc = "push" /\ dpc' = "push" /\ di' = di + 1 /\ di <= Len(wal) /\ redis = "up"
        /\ UNCHANGED <<wal, tail, pendN>> /\ XAdd(wal[di])
    BY <1>9 DEF PushLine, walVars
  <2>2. Cardinality(entries') = Cardinality(entries) + 1
    BY <2>1, StreamMoves
  <2>3. Requeued' = Requeued + 1
    BY <1>1, <2>1 DEF Requeued
  <2>4. Law'
    BY <1>1, <1>2, <1>3, <1>4, <2>1, <2>2, <2>3, SMTT(30) DEF Law
  <2> QED
    BY <1>1, <1>2, <1>4, <2>1, <2>4 DEF WholeWal, NoPartialLine, NoSpillYet
<1>10. CASE PushFails
  <2>1. ~Fault("xadd")
    BY <1>4 DEF FaultKinds
  <2>2. /\ dpc = "push" /\ dpc' = "tick" /\ redis = "down"
        /\ UNCHANGED <<wal, tail, pendN, entries>>
    BY <1>10, <2>1 DEF PushFails, walVars
  <2>3. di = 1
    BY <1>1, <1>4, <2>2 DEF WholeWal
  <2>4. Requeued' = Requeued
    BY <2>2, <2>3 DEF Requeued
  <2>5. Law'
    BY <1>1, <1>2, <1>3, <1>4, <2>2, <2>4 DEF Law
  <2> QED
    BY <1>1, <1>2, <1>4, <2>2, <2>5 DEF WholeWal, NoPartialLine, NoSpillYet
<1>11. CASE TruncateWal
  <2>1. /\ dpc = "push" /\ dpc' = "tick" /\ di > Len(wal) /\ wal' = <<>> /\ tail' = "clean"
        /\ pendN' = 0 /\ entries' = entries
    BY <1>11 DEF TruncateWal, redVars
  <2>2. di = Len(wal) + 1 /\ pendN = Len(wal)
    BY <1>1, <1>4, <2>1 DEF WholeWal
  <2>3. Requeued = pendN /\ Requeued' = 0
    BY <1>1, <2>1, <2>2 DEF Requeued
  <2>4. Law'
    BY <1>1, <1>2, <1>3, <1>4, <2>1, <2>3 DEF Law
  <2> QED
    BY <1>2, <1>4, <2>1, <2>4 DEF WholeWal, NoPartialLine, NoSpillYet
<1> QED
  BY <1>6, <1>7, <1>8, <1>9, <1>10, <1>11 DEF Drainer

\* A commit counts an entry once, before the entry is deleted.
LEMMA ConsumerConserves ==
    ASSUME TypeOK, CountersType, ConserveInv, CountersNext,
           \/ (\E k \in NasId : CountProcess(k)) \/ CountProcessFails
           \/ UNCHANGED cntVars /\ (EnsureGroup \/ ReadOwn \/ ReadNew \/ ReadReplyLost \/ AckDelete)
    PROVE  ConserveInv'
<1>1. /\ received \in Nat /\ persisted \in Nat /\ deduplicated \in Nat
      /\ Cardinality(entries) \in Nat /\ pendN \in Nat /\ Cardinality(Busy) \in Nat
      /\ Requeued \in Nat /\ Committed \in Nat
      /\ Len(wal) \in Nat /\ di \in Nat \ {0}
  BY LawNumbers
<1>2. UNCHANGED <<hpc, wal, tail, pendN, dpc, di, redis, received>>
  BY DEF CountProcess, Process, CountProcessFails, ProcessFails, EnsureGroup, ReadOwn,
         ReadNew, ReadReplyLost, AckDelete, hVars, walVars, dVars, envVars, cntVars, memVars
<1>3. /\ Busy' = Busy /\ Requeued' = Requeued
      /\ IsFiniteSet(Busy')
  BY <1>2 DEF Busy, Requeued, ConserveInv
<1>4. Calm' => /\ Calm /\ Law /\ WholeWal /\ NoSpillYet
               /\ \A k \in FaultKinds \ {"redis", "db"} : ~Fault(k)
               /\ faults' = <<>> => faults = <<>>
  BY CalmBefore DEF ConserveInv
<1>5. Calm' => WholeWal' /\ NoSpillYet'
  BY <1>2, <1>4 DEF WholeWal, NoPartialLine, NoSpillYet
<1>6. ASSUME NEW k \in NasId, CountProcess(k) PROVE ConserveInv'
  <2>1. cpc = "process" /\ cpc' = "ack" /\ cur' \in batch' /\ entries' = entries
    BY <1>6 DEF CountProcess, Process, redVars
  <2>2. \/ persisted' = persisted + 1 /\ deduplicated' = deduplicated
        \/ persisted' = persisted /\ deduplicated' = deduplicated + 1
    BY <1>6 DEF CountProcess
  <2>4. Committed = 0 /\ Committed' = 1
    BY <2>1 DEF Committed
  <2>5. ASSUME Calm' PROVE Law'
    <3>1. Law
      BY <1>4, <2>5
    <3>2. /\ received' = received /\ pendN' = pendN
          /\ Cardinality(entries') = Cardinality(entries)
          /\ Cardinality(Busy') = Cardinality(Busy)
      BY <1>2, <1>3, <2>1
    <3> QED
      BY <1>1, <1>3, <2>2, <2>4, <3>1, <3>2, SMTT(30) DEF Law
  <2> QED
    BY <1>3, <1>5, <2>1, <2>5 DEF ConserveInv
<1>7. CASE \/ CountProcessFails
           \/ UNCHANGED cntVars /\ (EnsureGroup \/ ReadOwn \/ ReadNew \/ ReadReplyLost)
  <2>1. cpc # "ack" /\ cpc' # "ack" /\ UNCHANGED <<persisted, deduplicated, entries>>
    BY <1>7 DEF CountProcessFails, ProcessFails, Retry, EnsureGroup, ReadOwn, ReadNew,
                ReadReplyLost, TakeBatch, conVars, redVars, cntVars, memVars
  <2>2. Committed' = Committed
    BY <2>1 DEF Committed
  <2>3. Calm' => Law'
    BY <1>1, <1>2, <1>3, <1>4, <2>1, <2>2 DEF Law
  <2> QED
    BY <1>3, <1>5, <2>1, <2>3 DEF ConserveInv
<1>8. CASE UNCHANGED cntVars /\ AckDelete
  <2>1. /\ cpc = "ack" /\ cpc' # "ack" /\ entries' = entries \ {cur}
        /\ UNCHANGED <<persisted, deduplicated>>
    BY <1>8 DEF AckDelete, cntVars, memVars
  <2>2. cur \in entries
    BY <2>1 DEF ConserveInv, TypeOK
  <2>3. Cardinality(entries') = Cardinality(entries) - 1
    BY <2>1, <2>2, StreamMoves
  <2>4. Committed = 1 /\ Committed' = 0
    BY <2>1 DEF Committed
  <2>5. Calm' => Law'
    BY <1>1, <1>2, <1>3, <1>4, <2>1, <2>3, <2>4 DEF Law
  <2> QED
    BY <1>3, <1>5, <2>1, <2>5 DEF ConserveInv
<1> QED
  BY <1>6, <1>7, <1>8

\* The other steps: an outage, which the law survives once, and a kill.
LEMMA OthersConserve ==
    ASSUME TypeOK, CountersType, ConserveInv, [CountersNext]_allVars,
           \/ Flush \/ CountCrash \/ UNCHANGED allVars
           \/ UNCHANGED cntVars /\ (RedisDown \/ RedisBack \/ DbDown \/ DbBack)
    PROVE  ConserveInv'
<1>1. Calm' => /\ Calm /\ Law /\ WholeWal /\ NoSpillYet
               /\ \A k \in FaultKinds \ {"redis", "db"} : ~Fault(k)
               /\ \A k : Fault(k) => faults = <<>>
               /\ faults' = <<>> => faults = <<>>
  BY CalmBefore DEF ConserveInv
<1>2. CASE CountCrash
  <2>1. Fault("crash") /\ cpc' = "group" /\ \A h \in Handler : hpc'[h] = "idle"
    BY <1>2 DEF CountCrash, Crash
  <2>2. Busy' = {}
    BY <2>1 DEF Busy
  <2>3. ~Calm'
    BY <1>1, <2>1 DEF FaultKinds
  <2> QED
    BY <2>1, <2>2, <2>3, FS_EmptySet DEF ConserveInv
<1>3. CASE \/ Flush \/ UNCHANGED allVars
           \/ UNCHANGED cntVars /\ (RedisDown \/ RedisBack \/ DbDown \/ DbBack)
  <2>1. UNCHANGED <<hVars, walVars, dVars, redVars, conVars, memVars>>
    BY <1>3 DEF Flush, allVars, vars, cntVars, RedisDown, RedisBack, DbDown, DbBack
  <2>2. /\ Busy' = Busy /\ Requeued' = Requeued /\ Committed' = Committed
        /\ IsFiniteSet(Busy') /\ (cpc' = "ack" => cur' \in batch')
    BY <2>1 DEF hVars, dVars, conVars, Busy, Requeued, Committed, ConserveInv
  <2>3. Law => Law'
    BY <2>1, <2>2 DEF Law, memVars, walVars, redVars
  <2>4. ASSUME Calm' PROVE WholeWal' /\ NoSpillYet'
    <3>1. UNCHANGED <<wal, tail, pendN, dpc, di, hpc>>
      BY <2>1 DEF walVars, dVars, hVars
    <3>2. WholeWal /\ NoSpillYet /\ di \in Nat \ {0} /\ Len(wal) \in Nat
      BY <1>1, <2>4 DEF TypeOK
    <3>3. CASE ~RedisDown
      <4>1. redis = "up" => redis' = "up"
        BY <1>3, <3>3 DEF Flush, allVars, vars, envVars, RedisBack, DbDown, DbBack
      <4>2. WholeWal'
        BY <3>1, <3>2, <4>1 DEF WholeWal, NoPartialLine
      <4> QED
        BY <1>1, <2>4, <3>1, <3>2, <4>1, <4>2 DEF NoSpillYet
    <3>4. CASE RedisDown
      <4>1. faults = <<>> /\ faults' # <<>>
        <5>1. Fault("redis") /\ faults' = Append(faults, "redis") /\ faults \in Seq(FaultKinds)
          BY <3>4 DEF RedisDown, Fault, TypeOK
        <5>2. faults = <<>>
          BY <1>1, <2>4, <5>1
        <5>3. Len(faults') # 0
          BY <5>1, <5>2
        <5> QED
          BY <5>2, <5>3
      <4>2. wal = <<>>
        BY <3>2, <4>1 DEF NoSpillYet
      <4>3. Len(wal) = 0
        BY <4>2
      <4>4. WholeWal'
        BY <3>1, <3>2, <4>3 DEF WholeWal, NoPartialLine
      <4> QED
        BY <4>1, <4>4 DEF NoSpillYet
    <3> QED
      BY <3>3, <3>4
  <2> QED
    BY <1>1, <2>2, <2>3, <2>4 DEF ConserveInv
<1> QED
  BY <1>2, <1>3

\* FR-40 while records are moving: for any number of records and handlers,
\* through one outage of Redis or Postgres, every packet received is
\* persisted, dropped as a duplicate, queued, or in the hands of exactly one
\* handler, drain or acknowledgement.
THEOREM ConservedCorrect == CountersSpec => []Conserved
<1>1. CountersInit => ConserveInv
  <2> SUFFICES ASSUME CountersInit PROVE ConserveInv
    OBVIOUS
  <2>1. Busy = {} /\ entries = {} /\ wal = <<>>
    BY DEF CountersInit, Init, Busy
  <2>2. Law
    BY <2>1, FS_EmptySet DEF CountersInit, Init, Law, Requeued, Committed
  <2>3. WholeWal /\ NoSpillYet
    BY DEF CountersInit, Init, WholeWal, NoSpillYet, NoPartialLine
  <2> QED
    BY <2>1, <2>2, <2>3, FS_EmptySet DEF ConserveInv, CountersInit, Init
<1>2. TypeOK /\ CountersType /\ ConserveInv /\ [CountersNext]_allVars => ConserveInv'
  <2> SUFFICES ASSUME TypeOK, CountersType, ConserveInv, [CountersNext]_allVars
               PROVE  ConserveInv'
    OBVIOUS
  <2>1. CASE Flush \/ CountCrash \/ UNCHANGED allVars
    BY <2>1, OthersConserve
  <2>2. ASSUME NEW h \in Handler, NEW r \in Rec, CountReceive(h, r) PROVE ConserveInv'
    <3>1. CountersNext
      BY <2>2 DEF CountersNext
    <3> QED
      BY <2>2, <3>1, IngestConserves
  <2>3. CASE (\E k \in NasId : CountProcess(k)) \/ CountProcessFails
    <3>1. CountersNext
      BY <2>3 DEF CountersNext
    <3> QED
      BY <2>3, <3>1, ConsumerConserves
  <2>4. CASE Uncounted
    <3>1. CountersNext
      BY <2>4 DEF CountersNext
    <3> QED
      BY <2>4, <3>1, IngestConserves, DrainConserves, ConsumerConserves, OthersConserve
         DEF Uncounted
  <2> QED
    BY <2>1, <2>2, <2>3, <2>4 DEF CountersNext
<1>3. TypeOK /\ CountersType /\ ConserveInv => Conserved
  <2> SUFFICES ASSUME TypeOK, CountersType, ConserveInv, Calm, Law PROVE Conserved
    <3>1. Calm \/ Happened(FaultKinds \ {"redis", "db"}) \/ Len(faults) > 1
      BY DEF Calm, TypeOK
    <3> QED
      BY <3>1 DEF ConserveInv, Conserved
  <2>1. /\ received \in Nat /\ persisted \in Nat /\ deduplicated \in Nat
        /\ Cardinality(entries) \in Nat /\ pendN \in Nat /\ Cardinality(Busy) \in Nat
        /\ Requeued \in Nat /\ Committed \in Nat
    BY LawNumbers
  <2>2. received = persisted + deduplicated + InQueue + Cardinality(Busy) - Requeued - Committed
    BY <2>1 DEF Law, InQueue
  <2> QED
    BY <2>2 DEF Conserved, Busy, Requeued, Committed
<1> QED
  BY <1>1, <1>2, <1>3, CountersTyped, PTL DEF CountersSpec

-----------------------------------------------------------------------------
(* The octet counters of AcctDelta, for every word size.                   *)

\* Division with remainder by the word size.
LEMMA WordParts ==
    ASSUME NEW x \in Nat
    PROVE  /\ x % Word \in 0..(Word - 1) /\ x \div Word \in Nat
           /\ x = (x \div Word) * Word + (x % Word)
BY WordAssumption, Z3

\* The parts are unique.
LEMMA WordUnique ==
    ASSUME NEW q \in Nat, NEW r \in 0..(Word - 1)
    PROVE  (q * Word + r) % Word = r /\ q * Word + r \in Nat
<1> DEFINE x == q * Word + r
           p == x \div Word
           s == x % Word
<1>1. x \in Nat
  BY WordAssumption, Z3
<1>2. s \in 0..(Word - 1) /\ p \in Nat /\ x = p * Word + s
  BY <1>1, WordParts
<1> HIDE DEF p, s
<1>3. q * Word + r = p * Word + s
  BY <1>2
<1>4. ~(p < q)
  <2> SUFFICES ASSUME p < q PROVE FALSE
    OBVIOUS
  <2>1. q = p + (q - p) /\ q - p \in Nat /\ q - p >= 1
    BY <1>2
  <2>2. (q - p) * Word >= Word
    BY <2>1, WordAssumption, Z3
  <2>3. q * Word = p * Word + (q - p) * Word
    BY <1>2, <2>1, WordAssumption, Z3
  <2> QED
    BY <1>2, <1>3, <2>2, <2>3, WordAssumption, Z3
<1>5. ~(q < p)
  <2> SUFFICES ASSUME q < p PROVE FALSE
    OBVIOUS
  <2>1. p - q \in Nat /\ p - q >= 1
    BY <1>2
  <2>2. (p - q) * Word >= Word
    BY <2>1, WordAssumption, Z3
  <2>3. p * Word = q * Word + (p - q) * Word
    BY <1>2, <2>1, WordAssumption, Z3
  <2> QED
    BY <1>2, <1>3, <2>2, <2>3, WordAssumption, Z3
<1>6. p = q
  BY <1>2, <1>4, <1>5
<1>7. s = r
  BY <1>2, <1>3, <1>6, WordAssumption, Z3
<1> QED
  BY <1>1, <1>7 DEF s

\* A number below the word size is its own remainder.
LEMMA SmallWord ==
    ASSUME NEW x \in 0..(Word - 1)
    PROVE  x % Word = x /\ x \div Word = 0
<1>1. (0 * Word + x) % Word = x
  BY WordUnique
<1>2. 0 * Word + x = x
  BY WordAssumption
<1>3. x % Word = x
  BY <1>1, <1>2
<1>4. x \in Nat /\ x \div Word \in Nat /\ x = (x \div Word) * Word + (x % Word)
  BY WordAssumption, WordParts
<1>5. (x \div Word) * Word = 0
  BY <1>3, <1>4, WordAssumption, Z3
<1>6. x \div Word = 0
  BY <1>4, <1>5, WordAssumption, Z3
<1> QED
  BY <1>3, <1>6

\* The low word after d more octets: it wraps at most once.
LEMMA LowWord ==
    ASSUME NEW x \in Nat, NEW d \in 0..(Half - 1)
    PROVE  (x + d) % Word = IF (x % Word) + d < Word THEN (x % Word) + d
                                                      ELSE (x % Word) + d - Word
<1> DEFINE q == x \div Word
           r == x % Word
<1>1. r \in 0..(Word - 1) /\ q \in Nat /\ x = q * Word + r
  BY WordParts
<1>2. Half \in Nat /\ Half <= Word /\ d \in Nat /\ d < Word
  BY WordAssumption, Z3 DEF Half
<1> HIDE DEF q, r
<1>3. CASE r + d < Word
  <2>1. r + d \in 0..(Word - 1) /\ x + d = q * Word + (r + d)
    BY <1>1, <1>2, <1>3, WordAssumption, Z3
  <2>2. (x + d) % Word = r + d
    BY <1>1, <2>1, WordUnique
  <2> QED
    BY <1>3, <2>2 DEF r
<1>4. CASE ~(r + d < Word)
  <2>1. r + d - Word \in 0..(Word - 1) /\ q + 1 \in Nat
    BY <1>1, <1>2, <1>4, WordAssumption
  <2>2. x + d = (q + 1) * Word + (r + d - Word)
    BY <1>1, <1>2, WordAssumption, Z3
  <2>3. (x + d) % Word = r + d - Word
    BY <2>1, <2>2, WordUnique
  <2> QED
    BY <1>4, <2>3 DEF r
<1> QED
  BY <1>3, <1>4

\* The stored total: the octets themselves with gigawords, their low word
\* without; until the first wrap there is no difference.
DeltaInv ==
    /\ giga \in {"yes", "no"} /\ n \in Nat /\ last \in Nat /\ usage \in Nat
    /\ giga = "yes" => last = n /\ usage = n
    /\ giga = "no" => /\ last % Word = n % Word
                      /\ usage >= n
                      /\ n < Word => last = n /\ usage = n

\* With gigawords a report is taken for what it says.
LEMMA GigaReport ==
    ASSUME NEW x \in Nat, last \in Nat, last <= x
    PROVE  LET a == Advance(last, x % Word, x \div Word)
           IN  a.total = x /\ a.delta = x - last
<1> DEFINE o == x % Word
           g == x \div Word
<1>1. o \in 0..(Word - 1) /\ g \in Nat /\ x = g * Word + o
  BY WordParts
<1>2. ~LooksWrapped(last, o, g)
  <2> SUFFICES ASSUME g = 0 PROVE ~(o < last % Word)
    BY DEF LooksWrapped
  <2>1. x = o
    BY <1>1, WordAssumption, Z3
  <2>2. last \in 0..(Word - 1)
    BY <1>1, <2>1, WordAssumption
  <2>3. last % Word = last
    BY <2>2, SmallWord
  <2> HIDE DEF o
  <2> QED
    BY <1>1, <2>1, <2>3, WordAssumption
<1>3. o % Word = o
  BY <1>1, SmallWord
<1> HIDE DEF o, g
<1>4. CurTotal(last, o, g) = x
  BY <1>1, <1>2, <1>3 DEF CurTotal, TotalBytes
<1>5. LET a == Advance(last, o, g) IN a.total = x /\ a.delta = x - last
  BY <1>4 DEF Advance
<1> QED
  BY <1>5 DEF o, g

\* Without gigawords the low word is kept, and no octet is missed.
LEMMA PlainReport ==
    ASSUME n \in Nat, last \in Nat, last % Word = n % Word, NEW d \in 0..(Half - 1)
    PROVE  LET a == Advance(last, (n + d) % Word, 0)
           IN  /\ a.total \in Nat /\ a.delta \in Nat /\ a.delta >= d
               /\ a.total % Word = (n + d) % Word
               /\ n = last /\ n + d < Word => a.total = n + d /\ a.delta = d
<1> DEFINE low == n % Word
           o == (n + d) % Word
           q == last \div Word
<1>1. /\ low \in 0..(Word - 1) /\ o \in 0..(Word - 1) /\ q \in Nat
      /\ last = q * Word + low /\ d \in Nat /\ n + d \in Nat
  BY WordParts, WordAssumption
<1>2. o = IF low + d < Word THEN low + d ELSE low + d - Word
  BY LowWord
<1>3. Half \in Nat /\ 2 * Half <= Word /\ Word <= 2 * Half + 1 /\ d < Half
  BY <1>1, WordAssumption, Z3 DEF Half
<1>4. o % Word = o /\ TotalBytes(o, 0) = o
  <2>1. o % Word = o
    BY <1>1, SmallWord
  <2> HIDE DEF o
  <2> QED
    BY <1>1, <2>1, WordAssumption DEF TotalBytes
<1>5. LooksWrapped(last, o, 0) <=> (last > 0 /\ o < low /\ low > Half /\ o < Half)
  BY DEF LooksWrapped
<1>6. n + d < Word => n = low
  <2>1. n + d < Word => n \in 0..(Word - 1)
    BY <1>1, WordAssumption
  <2> QED
    BY <2>1, SmallWord
<1> HIDE DEF low, o, q
<1>7. q * Word \in Nat /\ (q = 0 => q * Word = 0) /\ (q # 0 => q * Word >= Word)
  BY <1>1, WordAssumption, Z3
<1>8. CASE low + d < Word
  <2>1. o = low + d /\ ~LooksWrapped(last, o, 0)
    BY <1>1, <1>2, <1>5, <1>8
  <2>2. CurTotal(last, o, 0) = o
    BY <1>4, <2>1 DEF CurTotal
  <2> DEFINE dl == IF o >= last THEN o - last ELSE o
  <2>3. dl \in Nat /\ dl >= d /\ (last = low => dl = d)
    BY <1>1, <1>7, <1>8, <2>1, WordAssumption
  <2>4. n = last /\ n + d < Word => o = n + d /\ dl = d
    BY <1>6, <2>1, <2>3
  <2>5. LET a == Advance(last, o, 0) IN a.total = o /\ a.delta = dl
    BY <2>2 DEF Advance
  <2> HIDE DEF dl
  <2>6. LET a == Advance(last, o, 0)
        IN  /\ a.total \in Nat /\ a.delta \in Nat /\ a.delta >= d
            /\ a.total % Word = o
            /\ n = last /\ n + d < Word => a.total = n + d /\ a.delta = d
    BY <1>1, <1>4, <2>3, <2>4, <2>5
  <2> QED
    BY <2>6 DEF o
<1>9. CASE ~(low + d < Word)
  <2>1. /\ o = low + d - Word /\ o < low /\ low > Half /\ o < Half /\ last > 0
        /\ LooksWrapped(last, o, 0)
    BY <1>1, <1>2, <1>3, <1>5, <1>7, <1>9, WordAssumption
  <2>2. CurTotal(last, o, 0) = (q + 1) * Word + o
    BY <2>1 DEF CurTotal, q
  <2> DEFINE c == (q + 1) * Word + o
  <2>3. c = last + d /\ c % Word = o /\ c \in Nat
    <3>1. (q + 1) * Word = q * Word + Word
      BY <1>1, WordAssumption, Z3
    <3>2. c % Word = o /\ c \in Nat
      BY <1>1, WordUnique
    <3> QED
      BY <1>1, <1>7, <2>1, <3>1, <3>2, WordAssumption
  <2> HIDE DEF c
  <2>4. LET a == Advance(last, o, 0) IN a.total = c /\ a.delta = d
    <3>1. CurTotal(last, o, 0) = c
      BY <2>2 DEF c
    <3>2. c >= last /\ c - last = d
      BY <1>1, <2>3
    <3> QED
      BY <3>1, <3>2 DEF Advance
  <2>5. ~(n + d < Word)
    BY <1>1, <1>6, <1>9
  <2>6. LET a == Advance(last, o, 0)
        IN  /\ a.total \in Nat /\ a.delta \in Nat /\ a.delta >= d
            /\ a.total % Word = o
    BY <1>1, <2>3, <2>4
  <2> QED
    BY <2>5, <2>6 DEF o
<1> QED
  BY <1>8, <1>9

\* Every report keeps the invariant.
LEMMA DeltaNextInv == DeltaInv /\ [DeltaNext]_dvars => DeltaInv'
<1> SUFFICES ASSUME DeltaInv, [DeltaNext]_dvars PROVE DeltaInv'
  OBVIOUS
<1>1. CASE UNCHANGED dvars
  BY <1>1 DEF DeltaInv, dvars
<1>2. ASSUME NEW d \in Steps, Report(d) PROVE DeltaInv'
  <2>1. giga \in {"yes", "no"} /\ n \in Nat /\ last \in Nat /\ usage \in Nat /\ giga' = giga
    BY <1>2 DEF DeltaInv, Report
  <2>2. CASE giga = "yes"
    <3>1. d \in Nat /\ n + d \in Nat /\ last = n /\ usage = n /\ n' = n + d
      BY <1>2, <2>1, <2>2, DeltaAssumption DEF Steps, DeltaInv, Report
    <3> DEFINE a == Advance(last, (n + d) % Word, (n + d) \div Word)
    <3>2. a.total = n + d /\ a.delta = (n + d) - last
      BY <2>1, <3>1, GigaReport
    <3>3. last' = a.total /\ usage' = usage + a.delta
      BY <1>2, <2>2 DEF Report, Octets, GigaAttr
    <3> HIDE DEF a
    <3>4. n' \in Nat /\ last' = n' /\ usage' = n'
      BY <2>1, <3>1, <3>2, <3>3
    <3> QED
      BY <2>1, <2>2, <3>4 DEF DeltaInv
  <2>3. CASE giga = "no"
    <3>1. /\ d \in 0..(Half - 1) /\ d \in Nat /\ last % Word = n % Word
          /\ usage >= n /\ (n < Word => last = n /\ usage = n) /\ n' = n + d
      BY <1>2, <2>3, WordAssumption DEF Steps, DeltaInv, Report, Half
    <3> DEFINE a == Advance(last, (n + d) % Word, 0)
    <3>2. /\ a.total \in Nat /\ a.delta \in Nat /\ a.delta >= d
          /\ a.total % Word = (n + d) % Word
          /\ n = last /\ n + d < Word => a.total = n + d /\ a.delta = d
      BY <2>1, <3>1, PlainReport
    <3>3. last' = a.total /\ usage' = usage + a.delta
      BY <1>2, <2>3 DEF Report, Octets, GigaAttr
    <3> HIDE DEF a
    <3>4. n + d < Word => n < Word
      BY <2>1, <3>1, WordAssumption
    <3>5. /\ n' \in Nat /\ last' \in Nat /\ usage' \in Nat /\ last' % Word = n' % Word
          /\ usage' >= n' /\ (n' < Word => last' = n' /\ usage' = n')
      BY <2>1, <3>1, <3>2, <3>3, <3>4
    <3> QED
      BY <2>1, <2>3, <3>5 DEF DeltaInv
  <2> QED
    BY <2>1, <2>2, <2>3
<1> QED
  BY <1>1, <1>2 DEF DeltaNext

\* advance, for every word size and every length of a session: the usage of a
\* NAS that sends gigawords is exact, and that of one that does not is exact
\* up to its first wrap and never short behind it.
THEOREM DeltaCorrect == DeltaSpec => []DeltaExact
<1>1. DeltaInit => DeltaInv
  BY DEF DeltaInit, DeltaInv
<1>2. DeltaInv => DeltaExact
  BY DEF DeltaInv, DeltaExact
<1> QED
  BY <1>1, <1>2, DeltaNextInv, PTL DEF DeltaSpec

=============================================================================
