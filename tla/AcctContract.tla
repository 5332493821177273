---------------------------- MODULE AcctContract ----------------------------
(***************************************************************************)
(* What the accounting pipeline promises, whatever it is built from: the   *)
(* ack contract of FR-37.1 (ingest.go: "we reply 204 ONLY after the record *)
(* is durably enqueued") and "zero loss" (consumer.go).                    *)
(*                                                                         *)
(* A record is held once it is durable somewhere in the pipeline.  Only a  *)
(* held or stored record is acknowledged, and a record stops being held    *)
(* only once it is stored.                                                 *)
(***************************************************************************)
CONSTANT Rec

VARIABLES acked, held, stored

cvars == <<acked, held, stored>>

Init == acked = {} /\ held = {} /\ stored = {}

Take(r) ==
    /\ held' = held \cup {r}
    /\ UNCHANGED <<acked, stored>>

Acknowledge(r) ==
    /\ r \in held \cup stored
    /\ acked' = acked \cup {r}
    /\ UNCHANGED <<held, stored>>

Store(r) ==
    /\ r \in held
    /\ stored' = stored \cup {r}
    /\ UNCHANGED <<acked, held>>

\* Copies of records that are stored already are dropped.
Discard(S) ==
    /\ S \subseteq stored
    /\ held' = held \ S
    /\ UNCHANGED <<acked, stored>>

Next ==
    \/ \E r \in Rec : Take(r) \/ Acknowledge(r) \/ Store(r)
    \/ \E S \in SUBSET Rec : Discard(S)

Spec == Init /\ [][Next]_cvars

=============================================================================
