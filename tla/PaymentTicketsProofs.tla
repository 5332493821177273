------------------------ MODULE PaymentTicketsProofs ------------------------
(***************************************************************************)
(* An approval charges once: the idempotency key and the charge are one    *)
(* transaction, and a decision is written only behind it.  A rejection     *)
(* meets a charge only when an approval is under way.                      *)
(***************************************************************************)
EXTENDS MCBilling, TLAPS

\* The strengthening of ChargedOnce: a ticket is charged exactly when its key
\* is reserved, and a request that is about to decide has seen it charged.
KeyMatches(t) ==
    \/ <<"ticket_approve", t>> \in idem /\ charged[t] = 1
    \/ <<"ticket_approve", t>> \notin idem /\ charged[t] = 0

KeyIsCharge ==
    /\ \A t \in Tickets : KeyMatches(t)
    /\ \A v \in Reviewer : review[v].at = "decide" => charged[review[v].t] = 1
    /\ \A t \in Tickets : ticket[t].st = "approved" => charged[t] = 1

Inv == TypeOK /\ KeyIsCharge

\* The initial state: no ticket, no key, no charge.
LEMMA InitInv == Init => Inv
  BY TicketsAssumption DEF Init, Inv, TypeOK, KeyIsCharge, KeyMatches, NoTicket, NoSubmit, NoReview

\* An expiry computed from the current one is a day of the calendar.
LEMMA ExpiryNat ==
    ASSUME TypeOK, NEW d \in Nat
    PROVE  ComputeExpiry(d) \in Nat /\ RollbackExpiry(d) \in Nat
  BY DEF TypeOK, ComputeExpiry, RollbackExpiry

\* The steps of a submission touch no charge and no approval key.
LEMMA SubmitInv ==
    ASSUME Inv, NEW p \in Portal, SubmitStep(p)
    PROVE  Inv'
<1> USE DEF Inv, TypeOK, KeyIsCharge, KeyMatches, subVars, tktVars, bookVars
<1>1. CASE Submit(p)
  BY <1>1 DEF Submit
<1>2. ASSUME NEW t \in Tickets, CreateTicket(p, t) PROVE Inv'
  <2>1. t \in Nat
    BY TicketsAssumption DEF Tickets
  <2>2. ticket' = [ticket EXCEPT ![t] = [st |-> "pending", born |-> now, trial |-> "no"]]
    BY <1>2 DEF CreateTicket
  <2>3. portal' \in [Portal -> [at : {"idle", "insert", "renew", "link"}, t : Nat,
                                eligible : {"no", "yes"}]]
    <3>1. CASE portal[p].eligible = "yes"
      <4>1. portal' = [portal EXCEPT ![p].at = "renew", ![p].t = t]
        BY <1>2, <3>1 DEF CreateTicket
      <4>2. portal' = [portal EXCEPT ![p] = [portal[p] EXCEPT !.at = "renew", !.t = t]]
        BY <4>1
      <4> QED BY <2>1, <4>2, ZenonT(60)
    <3>2. CASE portal[p].eligible # "yes"
      BY <1>2, <3>2 DEF CreateTicket, Done, NoSubmit
    <3> QED BY <3>1, <3>2
  <2>4. \A q \in Portal : portal'[q].at \in {"renew", "link"} => portal'[q].t \in Tickets
    <3>1. CASE portal[p].eligible = "yes"
      <4>1. portal' = [portal EXCEPT ![p].at = "renew", ![p].t = t]
        BY <1>2, <3>1 DEF CreateTicket
      <4>2. portal'[p].t = t /\ \A q \in Portal \ {p} : portal'[q] = portal[q]
        BY <4>1
      <4> QED BY <4>2
    <3>2. CASE portal[p].eligible # "yes"
      BY <1>2, <3>2 DEF CreateTicket, Done, NoSubmit
    <3> QED BY <3>1, <3>2
  <2> QED BY <1>2, <2>2, <2>3, <2>4 DEF CreateTicket
<1>3. CASE SubmitRefused(p)
  BY <1>3 DEF SubmitRefused, Done, NoSubmit
<1>4. CASE GrantTrial(p)
  <2> DEFINE t == portal[p].t
  <2>1. t \in Tickets
    BY <1>4 DEF GrantTrial
  <2>2. ComputeExpiry(ticketTrialDays) \in Nat
    BY ExpiryNat DEF ticketTrialDays
  <2>3. CASE <<"ticket_trial", t>> \in idem
    BY <1>4, <2>1, <2>3, SMTT(30) DEF GrantTrial, Reserve, At
  <2>4. CASE <<"ticket_trial", t>> \notin idem
    <3>1. /\ idem' = idem \cup {<<"ticket_trial", t>>}
          /\ expires' = ComputeExpiry(ticketTrialDays)
          /\ granted' = [granted EXCEPT ![t] = @ + 1] /\ charged' = charged
          /\ gross' = [gross EXCEPT ![t] = @ + 1]
          /\ portal' = [portal EXCEPT ![p].at = "link"]
          /\ UNCHANGED <<now, ticket, decided, review, renewals, faults>>
      BY <1>4, <2>4 DEF GrantTrial, Reserve, At
    <3>2. \A u \in Tickets : <<"ticket_approve", u>> \in idem' <=> <<"ticket_approve", u>> \in idem
      BY <3>1
    <3>3. TypeOK'
      BY <2>1, <2>2, <3>1
    <3>4. KeyIsCharge'
      BY <3>1, <3>2
    <3> QED BY <3>3, <3>4
  <2> QED BY <2>3, <2>4
<1>5. CASE LinkTrial(p)
  BY <1>5 DEF LinkTrial, Done, NoSubmit
<1>6. CASE SubmitDies(p)
  BY <1>6 DEF SubmitDies, Done, NoSubmit
<1> QED BY <1>1, <1>2, <1>3, <1>4, <1>5, <1>6 DEF SubmitStep

\* The steps of a review: the charge and its key go together, the decision
\* follows them, a rejection changes neither.
LEMMA ReviewInv ==
    ASSUME Inv, NEW v \in Reviewer, ReviewStep(v)
    PROVE  Inv'
<1> USE DEF Inv, TypeOK, KeyIsCharge, KeyMatches, subVars, tktVars, bookVars
<1>1. ASSUME NEW t \in Tickets, ReadPending(v, t) PROVE Inv'
  <2>1. t \in Nat
    BY TicketsAssumption DEF Tickets
  <2> QED BY <1>1, <2>1 DEF ReadPending
<1>2. ASSUME NEW t \in Tickets, Reject(v, t) PROVE Inv'
  <2>1. RollbackExpiry(ticketTrialDays) \in Nat
    BY ExpiryNat DEF ticketTrialDays
  <2> QED BY <1>2, <2>1 DEF Reject
<1>3. CASE Approve(v)
  <2> DEFINE t == review[v].t
  <2>1. t \in Tickets
    BY <1>3 DEF Approve
  <2>2. ticket[t].born + Duration \in Nat
    BY <2>1, TicketsAssumption
  <2>3. CASE <<"ticket_approve", t>> \in idem
    BY <1>3, <2>1, <2>3, SMTT(30) DEF Approve, Reserve
  <2>4. CASE <<"ticket_approve", t>> \notin idem
    <3>1. /\ idem' = idem \cup {<<"ticket_approve", t>>}
          /\ expires' = ticket[t].born + Duration
          /\ charged' = [charged EXCEPT ![t] = @ + 1] /\ granted' = granted
          /\ gross' = [gross EXCEPT ![t] = @ + 1]
          /\ review' = [review EXCEPT ![v].at = "decide"]
          /\ UNCHANGED <<now, ticket, decided, portal, renewals, faults>>
      BY <1>3, <2>4 DEF Approve, Reserve
    <3>2. charged[t] = 0
      BY <2>1, <2>4
    <3>3. TypeOK'
      BY <2>1, <2>2, <3>1
    <3>4. ASSUME NEW u \in Tickets PROVE KeyMatches(u)'
      <4>1. CASE u = t
        <5>1. charged'[t] = 1 /\ <<"ticket_approve", t>> \in idem'
          BY <2>1, <3>1, <3>2
        <5> QED BY <4>1, <5>1
      <4>2. CASE u # t
        <5>1. KeyMatches(u) /\ charged'[u] = charged[u]
          BY <2>1, <3>1, <4>2
        <5>2. <<"ticket_approve", u>> \in idem' <=> <<"ticket_approve", u>> \in idem
          BY <3>1, <4>2
        <5> QED BY <5>1, <5>2
      <4> QED BY <4>1, <4>2
    <3>5. \A w \in Reviewer : review'[w].at = "decide" => charged'[review'[w].t] = 1
      BY <2>1, <3>1, <3>2
    <3>6. \A u \in Tickets : ticket'[u].st = "approved" => charged'[u] = 1
      BY <2>1, <3>1, <3>2
    <3> QED BY <3>3, <3>4, <3>5, <3>6
  <2> QED BY <2>3, <2>4
<1>4. CASE Decide(v)
  <2> DEFINE t == review[v].t
  <2>1. t \in Tickets /\ charged[t] = 1
    BY <1>4 DEF Decide
  <2>2. review' = [review EXCEPT ![v] = NoReview]
    BY <1>4 DEF Decide
  <2>3. CASE ticket[t].st = "pending"
    <3>1. /\ ticket' = [ticket EXCEPT ![t].st = "approved"] /\ decided' = "approved"
          /\ UNCHANGED <<now, expires, idem, granted, charged, gross, portal, renewals,
                         faults>>
      BY <1>4, <2>3 DEF Decide
    <3>2. \A u \in Tickets : ticket'[u].st = "approved" => u = t \/ ticket[u].st = "approved"
      BY <2>1, <3>1
    <3>3. \A w \in Reviewer : w # v => review'[w] = review[w]
      BY <2>2
    <3>4. review'[v].at = "idle"
      BY <2>2 DEF NoReview
    <3>5. TypeOK'
      <4>1. ticket' \in [Tickets -> [st : {"absent", "pending", "approved", "rejected"},
                                     born : Nat, trial : {"no", "yes"}]]
        <5>1. ticket[t] \in [st : {"absent", "pending", "approved", "rejected"},
                             born : Nat, trial : {"no", "yes"}]
          BY <2>1
        <5>2. [ticket[t] EXCEPT !.st = "approved"]
                  \in [st : {"absent", "pending", "approved", "rejected"},
                      born : Nat, trial : {"no", "yes"}]
          BY <5>1
        <5> HIDE DEF KeyIsCharge, KeyMatches
        <5> QED BY <2>1, <3>1, <5>2
      <4>2. review' \in [Reviewer -> [at : {"idle", "renew", "decide"}, t : Nat]]
        BY <2>2 DEF NoReview
      <4>3. \A w \in Reviewer : review'[w].at # "idle" => review'[w].t \in Tickets
        BY <3>3, <3>4
      <4> QED BY <3>1, <4>1, <4>2, <4>3
    <3>6. KeyIsCharge'
      <4>1. \A u \in Tickets : KeyMatches(u)'
        BY <3>1
      <4>2. \A w \in Reviewer : review'[w].at = "decide" => charged'[review'[w].t] = 1
        BY <3>1, <3>3, <3>4
      <4>3. \A u \in Tickets : ticket'[u].st = "approved" => charged'[u] = 1
        BY <2>1, <3>1, <3>2
      <4> QED BY <4>1, <4>2, <4>3
    <3> QED BY <3>5, <3>6
  <2>4. CASE ticket[t].st # "pending"
    BY <1>4, <2>1, <2>2, <2>4 DEF Decide, NoReview
  <2> QED BY <2>3, <2>4
<1>5. CASE ReviewDies(v)
  BY <1>5 DEF ReviewDies, NoReview
<1> QED BY <1>1, <1>2, <1>3, <1>4, <1>5 DEF ReviewStep

\* Every step preserves the invariant.
LEMMA StepInv == Inv /\ [Next]_tvars => Inv'
<1> SUFFICES ASSUME Inv, [Next]_tvars PROVE Inv'
  OBVIOUS
<1>1. ASSUME NEW p \in Portal, SubmitStep(p) PROVE Inv'
  BY <1>1, SubmitInv
<1>2. ASSUME NEW v \in Reviewer, ReviewStep(v) PROVE Inv'
  BY <1>2, ReviewInv
<1>3. CASE PanelRenew
  <2>1. ComputeExpiry(Duration) \in Nat
    BY ExpiryNat, TicketsAssumption DEF Inv
  <2> QED BY <1>3, <2>1 DEF PanelRenew, Inv, TypeOK, KeyIsCharge, KeyMatches, tktVars, bookVars
<1>4. CASE Tick
  BY <1>4 DEF Tick, Inv, TypeOK, KeyIsCharge, KeyMatches, tktVars, bookVars
<1>5. CASE UNCHANGED tvars
  BY <1>5 DEF tvars, subVars, tktVars, bookVars, Inv, TypeOK, KeyIsCharge, KeyMatches
<1> QED BY <1>1, <1>2, <1>3, <1>4, <1>5 DEF Next

\* For any number of tickets, portals and reviewers, and wherever requests
\* die: the state is well typed, and an approval debits exactly once, however
\* often it is retried or raced (renewTx, approveTicket).
THEOREM ChargedOnceCorrect == Spec => [](TypeOK /\ ChargedOnce)
<1>1. Inv => TypeOK /\ ChargedOnce
  <2>1. ASSUME Inv, NEW t \in Tickets PROVE charged[t] <= 1
    <3>1. KeyMatches(t)
      BY <2>1 DEF Inv, KeyIsCharge
    <3>2. charged[t] = 0 \/ charged[t] = 1
      BY <3>1 DEF KeyMatches
    <3> QED BY <3>2
  <2> QED BY <2>1 DEF Inv, KeyIsCharge, ChargedOnce
<1> QED BY InitInv, StepInv, <1>1, PTL DEF Spec


-----------------------------------------------------------------------------
(* The decision and the money, in the run of MCBilling that also notes     *)
(* which rejections met an approval under way.                             *)

Deciding(t) == \E v \in Reviewer : review[v].at = "decide" /\ review[v].t = t

\* While no request has died, what was charged and is not decided is about to
\* be; a request is only ever about a ticket that was pending, and one that
\* outlives a rejection makes it contested.
ChargeDecided ==
    /\ faults = 0 => \A t \in Tickets : charged[t] # 0 /\ ticket[t].st \in {"absent", "pending"} => Deciding(t)
    /\ \A v \in Reviewer : review[v].at # "idle" => ticket[review[v].t].st # "absent"
    /\ \A v \in Reviewer : review[v].at # "idle" /\ ticket[review[v].t].st = "rejected" => review[v].t \in contested

AloneInv == Inv /\ ChargeDecided /\ DecidedAlone

\* A step that neither charges nor decides.
LEMMA NoDecision ==
    ASSUME AloneInv, Inv', faults \in Nat, faults' \in Nat, faults' >= faults, contested \subseteq contested',
           \A t \in Tickets : charged'[t] = charged[t],
           \A t \in Tickets : ticket'[t].st = ticket[t].st \/ (ticket[t].st = "absent" /\ ticket'[t].st = "pending"),
           \A v \in Reviewer : \/ review'[v] = review[v]
                               \/ review'[v].at = "idle" /\ faults' > faults
                               \/ review'[v].at = "renew" /\ review[v].at = "idle" /\ ticket'[review'[v].t].st = "pending"
    PROVE  AloneInv'
<1>1. \A v \in Reviewer : review[v].at # "idle" => review[v].t \in Tickets
  BY DEF AloneInv, Inv, TypeOK
<1>2. \A v \in Reviewer : review'[v].at # "idle" => review'[v].t \in Tickets
  BY DEF Inv, TypeOK
<1>3. faults' = 0 => faults = 0
  OBVIOUS
<1>4. ASSUME faults' = 0, NEW t \in Tickets, charged'[t] # 0, ticket'[t].st \in {"absent", "pending"}
      PROVE  Deciding(t)'
  <2>1. Deciding(t)
    BY <1>3, <1>4 DEF AloneInv, ChargeDecided
  <2>2. PICK v \in Reviewer : review[v].at = "decide" /\ review[v].t = t
    BY <2>1 DEF Deciding
  <2>3. review'[v] = review[v]
    BY <1>3, <1>4, <2>2
  <2> QED
    BY <2>2, <2>3 DEF Deciding
<1>5. ASSUME NEW v \in Reviewer, review'[v].at # "idle"
      PROVE  /\ ticket'[review'[v].t].st # "absent"
             /\ ticket'[review'[v].t].st = "rejected" => review'[v].t \in contested'
  <2>1. CASE review'[v] = review[v]
    <3>1. /\ review[v].t \in Tickets /\ ticket[review[v].t].st # "absent"
          /\ ticket[review[v].t].st = "rejected" => review[v].t \in contested
      BY <1>1, <1>5, <2>1 DEF AloneInv, ChargeDecided
    <3> QED
      BY <2>1, <3>1
  <2>2. CASE review'[v].at = "renew" /\ ticket'[review'[v].t].st = "pending"
    BY <2>2
  <2> QED
    BY <1>5, <2>1, <2>2
<1>6. ChargeDecided'
  BY <1>4, <1>5 DEF ChargeDecided
<1>7. DecidedAlone'
  BY <1>3 DEF AloneInv, DecidedAlone
<1> QED
  BY <1>6, <1>7 DEF AloneInv

LEMMA SubmitAlone ==
    ASSUME AloneInv, Inv', NEW p \in Portal, SubmitStep(p), contested \subseteq contested'
    PROVE  AloneInv'
<1>1. faults \in Nat /\ faults' \in Nat
  BY DEF AloneInv, Inv, TypeOK
<1>2. review' = review
  BY DEF SubmitStep, Submit, CreateTicket, SubmitRefused, GrantTrial, LinkTrial, SubmitDies
<1>3. faults' >= faults
  BY <1>1 DEF SubmitStep, Submit, CreateTicket, SubmitRefused, GrantTrial, LinkTrial, SubmitDies
<1>4. charged' = charged
  BY DEF SubmitStep, Submit, CreateTicket, SubmitRefused, GrantTrial, LinkTrial, SubmitDies, Reserve, bookVars
<1>5. ASSUME NEW t \in Tickets
      PROVE  ticket'[t].st = ticket[t].st \/ (ticket[t].st = "absent" /\ ticket'[t].st = "pending")
  <2>1. ticket \in [Tickets -> [st : {"absent", "pending", "approved", "rejected"}, born : Nat, trial : {"no", "yes"}]]
    BY DEF AloneInv, Inv, TypeOK
  <2>2. CASE ticket' = ticket
    BY <2>2
  <2>3. CASE \E u \in Tickets : CreateTicket(p, u)
    BY <2>1, <2>3 DEF CreateTicket
  <2>4. CASE LinkTrial(p)
    BY <2>1, <2>4 DEF LinkTrial
  <2> QED
    BY <2>2, <2>3, <2>4 DEF SubmitStep, Submit, SubmitRefused, GrantTrial, SubmitDies, tktVars
<1> QED
  BY <1>1, <1>2, <1>3, <1>4, <1>5, NoDecision

LEMMA ApproveAlone ==
    ASSUME AloneInv, Inv', NEW v \in Reviewer, Approve(v), contested' = contested
    PROVE  AloneInv'
<1>1. PICK t : t = review[v].t
  OBVIOUS
<1>2. review \in [Reviewer -> [at : {"idle", "renew", "decide"}, t : Nat]] /\ t \in Tickets /\ review[v].at = "renew"
  BY <1>1 DEF AloneInv, Inv, TypeOK, Approve
<1>3. UNCHANGED <<ticket, faults>> /\ review' = [review EXCEPT ![v].at = "decide"]
  BY DEF Approve, tktVars
<1>4. review'[v].at = "decide" /\ review'[v].t = t /\ \A w \in Reviewer : w # v => review'[w] = review[w]
  BY <1>1, <1>2, <1>3
<1>5. \A u \in Tickets : u # t => charged'[u] = charged[u]
  <2>1. charged \in [Tickets -> Nat]
    BY DEF AloneInv, Inv, TypeOK
  <2> QED
    BY <1>1, <1>2, <2>1 DEF Approve, Reserve, bookVars
<1>6. /\ ticket[t].st # "absent"
      /\ ticket[t].st = "rejected" => t \in contested
  BY <1>1, <1>2 DEF AloneInv, ChargeDecided
<1>7. ASSUME faults' = 0, NEW u \in Tickets, charged'[u] # 0, ticket'[u].st \in {"absent", "pending"}
      PROVE  Deciding(u)'
  <2>1. CASE u = t
    BY <1>4, <2>1 DEF Deciding
  <2>2. CASE u # t
    <3>1. Deciding(u)
      BY <1>3, <1>5, <1>7, <2>2 DEF AloneInv, ChargeDecided
    <3>2. PICK w \in Reviewer : review[w].at = "decide" /\ review[w].t = u
      BY <3>1 DEF Deciding
    <3>3. w # v
      BY <1>2, <3>2
    <3> QED
      BY <1>4, <3>2, <3>3 DEF Deciding
  <2> QED
    BY <2>1, <2>2
<1>8. ASSUME NEW w \in Reviewer, review'[w].at # "idle"
      PROVE  /\ ticket'[review'[w].t].st # "absent"
             /\ ticket'[review'[w].t].st = "rejected" => review'[w].t \in contested'
  BY <1>3, <1>4, <1>6, <1>8 DEF AloneInv, ChargeDecided
<1>9. ChargeDecided'
  BY <1>7, <1>8 DEF ChargeDecided
<1>10. DecidedAlone'
  BY <1>3, <1>5, <1>6 DEF AloneInv, DecidedAlone
<1> QED
  BY <1>9, <1>10 DEF AloneInv

LEMMA DecideAlone ==
    ASSUME AloneInv, Inv', NEW v \in Reviewer, Decide(v), contested' = contested
    PROVE  AloneInv'
<1>1. PICK t : t = review[v].t
  OBVIOUS
<1>2. /\ review \in [Reviewer -> [at : {"idle", "renew", "decide"}, t : Nat]] /\ t \in Tickets
      /\ ticket \in [Tickets -> [st : {"absent", "pending", "approved", "rejected"}, born : Nat, trial : {"no", "yes"}]]
  BY <1>1 DEF AloneInv, Inv, TypeOK, Decide
<1>3. UNCHANGED <<charged, faults>> /\ review' = [review EXCEPT ![v] = NoReview]
  BY DEF Decide, bookVars
<1>4. review'[v].at = "idle" /\ \A w \in Reviewer : w # v => review'[w] = review[w]
  BY <1>2, <1>3 DEF NoReview
<1>5. ticket[t].st # "absent"
  BY <1>1 DEF AloneInv, ChargeDecided, Decide
<1>6. /\ ticket'[t].st \in {"approved", "rejected"} /\ (ticket'[t].st = "rejected" => ticket[t].st = "rejected")
      /\ \A u \in Tickets : u # t => ticket'[u] = ticket[u]
  <2>1. CASE ticket[t].st = "pending"
    <3>1. ticket' = [ticket EXCEPT ![t].st = "approved"]
      BY <1>1, <2>1 DEF Decide
    <3> QED
      BY <1>2, <3>1
  <2>2. CASE ticket[t].st # "pending"
    <3>1. ticket' = ticket
      BY <1>1, <2>2 DEF Decide, tktVars
    <3> QED
      BY <1>2, <1>5, <2>2, <3>1
  <2> QED
    BY <2>1, <2>2
<1>7. ASSUME faults' = 0, NEW u \in Tickets, charged'[u] # 0, ticket'[u].st \in {"absent", "pending"}
      PROVE  Deciding(u)'
  <2>1. u # t
    BY <1>6, <1>7
  <2>2. Deciding(u)
    BY <1>3, <1>6, <1>7, <2>1 DEF AloneInv, ChargeDecided
  <2>3. PICK w \in Reviewer : review[w].at = "decide" /\ review[w].t = u
    BY <2>2 DEF Deciding
  <2>4. w # v
    BY <1>1, <2>1, <2>3
  <2> QED
    BY <1>4, <2>3, <2>4 DEF Deciding
<1>8. ASSUME NEW w \in Reviewer, review'[w].at # "idle"
      PROVE  /\ ticket'[review'[w].t].st # "absent"
             /\ ticket'[review'[w].t].st = "rejected" => review'[w].t \in contested'
  <2>1. review'[w] = review[w] /\ review[w].t \in Tickets
    BY <1>4, <1>8 DEF AloneInv, Inv, TypeOK
  <2>2. /\ ticket[review[w].t].st # "absent"
        /\ ticket[review[w].t].st = "rejected" => review[w].t \in contested
    BY <1>8, <2>1 DEF AloneInv, ChargeDecided
  <2> QED
    BY <1>6, <2>1, <2>2
<1>9. ChargeDecided'
  BY <1>7, <1>8 DEF ChargeDecided
<1>10. DecidedAlone'
  BY <1>3, <1>6 DEF AloneInv, DecidedAlone
<1> QED
  BY <1>9, <1>10 DEF AloneInv

LEMMA RejectAlone ==
    ASSUME AloneInv, Inv', NEW v \in Reviewer, NEW t \in Tickets, Reject(v, t), Contests
    PROVE  AloneInv'
<1>1. ticket \in [Tickets -> [st : {"absent", "pending", "approved", "rejected"}, born : Nat, trial : {"no", "yes"}]]
  BY DEF AloneInv, Inv, TypeOK
<1>2. UNCHANGED <<charged, review, faults>> /\ ticket[t].st = "pending" /\ ticket' = [ticket EXCEPT ![t].st = "rejected"]
  BY DEF Reject, bookVars
<1>3. ticket'[t].st = "rejected" /\ \A u \in Tickets : u # t => ticket'[u] = ticket[u]
  BY <1>1, <1>2
<1>4. contested \subseteq contested' /\ (UnderWay(t) => t \in contested')
  BY <1>2, <1>3 DEF Contests
<1>5. ASSUME faults' = 0, NEW u \in Tickets, charged'[u] # 0, ticket'[u].st \in {"absent", "pending"}
      PROVE  Deciding(u)'
  <2>1. Deciding(u)
    BY <1>2, <1>3, <1>5 DEF AloneInv, ChargeDecided
  <2> QED
    BY <1>2, <2>1 DEF Deciding
<1>6. ASSUME NEW w \in Reviewer, review'[w].at # "idle"
      PROVE  /\ ticket'[review'[w].t].st # "absent"
             /\ ticket'[review'[w].t].st = "rejected" => review'[w].t \in contested'
  <2>1. review'[w] = review[w] /\ review[w].t \in Tickets
    BY <1>2, <1>6 DEF AloneInv, Inv, TypeOK
  <2>2. CASE review[w].t = t
    <3>1. UnderWay(t)
      BY <1>6, <2>1, <2>2 DEF UnderWay
    <3> QED
      BY <1>3, <1>4, <2>1, <2>2, <3>1
  <2>3. CASE review[w].t # t
    BY <1>3, <1>4, <1>6, <2>1, <2>3 DEF AloneInv, ChargeDecided
  <2> QED
    BY <2>2, <2>3
<1>7. ASSUME faults' = 0, charged'[t] # 0 PROVE t \in contested'
  <2>1. Deciding(t)
    BY <1>2, <1>7 DEF AloneInv, ChargeDecided
  <2>2. UnderWay(t)
    BY <2>1 DEF Deciding, UnderWay
  <2> QED
    BY <1>4, <2>2
<1>8. ChargeDecided'
  BY <1>5, <1>6 DEF ChargeDecided
<1>9. DecidedAlone'
  BY <1>2, <1>3, <1>4, <1>7 DEF AloneInv, DecidedAlone
<1> QED
  BY <1>8, <1>9 DEF AloneInv

\* Only a rejection is contested.
LEMMA NotContested ==
    ASSUME Contests, \A t \in Tickets : ticket'[t].st = "rejected" => ticket[t].st = "rejected"
    PROVE  contested' = contested
BY DEF Contests

LEMMA ReviewAlone ==
    ASSUME AloneInv, Inv', NEW v \in Reviewer, ReviewStep(v), Contests
    PROVE  AloneInv'
<1>1. faults \in Nat /\ faults' \in Nat /\ contested \subseteq contested'
  BY DEF AloneInv, Inv, TypeOK, Contests
<1>2. review \in [Reviewer -> [at : {"idle", "renew", "decide"}, t : Nat]]
  BY DEF AloneInv, Inv, TypeOK
<1>3. ASSUME NEW t \in Tickets, ReadPending(v, t) PROVE AloneInv'
  <2>1. UNCHANGED <<ticket, charged, faults>> /\ review[v].at = "idle" /\ ticket[t].st = "pending"
    BY <1>3 DEF ReadPending, tktVars, bookVars
  <2>2. review'[v].at = "renew" /\ review'[v].t = t /\ \A w \in Reviewer : w # v => review'[w] = review[w]
    BY <1>2, <1>3 DEF ReadPending
  <2> QED
    BY <1>1, <2>1, <2>2, NoDecision
<1>4. ASSUME NEW t \in Tickets, Reject(v, t) PROVE AloneInv'
  BY <1>4, RejectAlone
<1>5. CASE Approve(v)
  <2>1. contested' = contested
    BY <1>5, NotContested DEF Approve, tktVars
  <2> QED
    BY <1>5, <2>1, ApproveAlone
<1>6. CASE Decide(v)
  <2>1. ticket \in [Tickets -> [st : {"absent", "pending", "approved", "rejected"}, born : Nat, trial : {"no", "yes"}]]
    BY DEF AloneInv, Inv, TypeOK
  <2>2. \A t \in Tickets : ticket'[t].st = "rejected" => ticket[t].st = "rejected"
    BY <1>6, <2>1 DEF Decide, tktVars
  <2> QED
    BY <1>6, <2>2, NotContested, DecideAlone
<1>7. CASE ReviewDies(v)
  <2>1. UNCHANGED <<ticket, charged>> /\ faults' = faults + 1
    BY <1>7 DEF ReviewDies, tktVars, bookVars
  <2>2. review'[v].at = "idle" /\ \A w \in Reviewer : w # v => review'[w] = review[w]
    BY <1>2, <1>7 DEF ReviewDies, NoReview
  <2>3. faults' > faults
    BY <1>1, <2>1
  <2> QED
    BY <1>1, <2>1, <2>2, <2>3, NoDecision
<1> QED
  BY <1>3, <1>4, <1>5, <1>6, <1>7 DEF ReviewStep

LEMMA NobodyAlone ==
    ASSUME AloneInv, Inv', contested \subseteq contested', UNCHANGED <<ticket, charged, review, faults>>
    PROVE  AloneInv'
<1>1. faults \in Nat /\ faults' \in Nat
  BY DEF AloneInv, Inv, TypeOK
<1> QED
  BY <1>1, NoDecision

LEMMA AloneStep ==
    ASSUME AloneInv, [MCNext]_<<part, ledgerVars, booksVars, tvars, contested, cardVars>>
    PROVE  AloneInv'
<1>1. CASE UNCHANGED <<tvars, contested>>
  <2>1. Inv'
    BY <1>1, StepInv DEF AloneInv
  <2> QED
    BY <1>1, <2>1, NobodyAlone DEF tvars, tktVars, bookVars
<1>2. CASE Next /\ Contests
  <2>1. Inv'
    BY <1>2, StepInv DEF AloneInv
  <2>2. contested \subseteq contested'
    BY <1>2 DEF Contests
  <2>3. ASSUME NEW p \in Portal, SubmitStep(p) PROVE AloneInv'
    BY <2>1, <2>2, <2>3, SubmitAlone
  <2>4. ASSUME NEW v \in Reviewer, ReviewStep(v) PROVE AloneInv'
    BY <1>2, <2>1, <2>4, ReviewAlone
  <2>5. CASE PanelRenew \/ Tick
    BY <2>1, <2>2, <2>5, NobodyAlone DEF PanelRenew, Tick, tktVars, bookVars
  <2> QED
    BY <1>2, <2>3, <2>4, <2>5 DEF Next
<1> QED
  BY <1>1, <1>2 DEF MCNext

\* For any number of tickets, portals and reviewers: as long as no request has
\* died, a rejected ticket has been charged only if an approval of it was under
\* way when it was rejected (approveTicket, rejectTicket); reviewers who take
\* turns never reject what has been charged.
THEOREM DecidedCorrect == MCSpec => []DecidedAlone
<1>1. MCInit => AloneInv
  <2> SUFFICES ASSUME MCInit PROVE AloneInv
    OBVIOUS
  <2>1. Inv
    BY InitInv DEF MCInit
  <2>2. /\ \A v \in Reviewer : review[v].at = "idle"
        /\ \A t \in Tickets : charged[t] = 0
    BY DEF MCInit, Init, NoReview
  <2> QED
    BY <2>1, <2>2 DEF AloneInv, ChargeDecided, DecidedAlone
<1>2. AloneInv /\ [MCNext]_<<part, ledgerVars, booksVars, tvars, contested, cardVars>> => AloneInv'
  BY AloneStep
<1>3. AloneInv => DecidedAlone
  BY DEF AloneInv
<1> QED
  BY <1>1, <1>2, <1>3, PTL DEF MCSpec
=============================================================================
