--------------------------- MODULE MCAcctCounters ---------------------------
(***************************************************************************)
(* What the audit page and the usage points count, side by side: the       *)
(* pipeline counters and the octet-counter arithmetic. One of the two      *)
(* moves in a behaviour, the other one rests in an initial state.          *)
(***************************************************************************)
EXTENDS AcctCounters, AcctDelta, TLC

CONSTANTS r1, r2, h1, h2

Symmetry == Permutations({r1, r2}) \cup Permutations({h1, h2})

VARIABLE part

MCInit ==
    /\ CountersInit /\ DeltaInit
    /\ part \in {"counters", "delta"} /\ (part # "delta" => giga = "yes")
MCNext ==
    \/ part = "counters" /\ CountersNext /\ UNCHANGED <<part, dvars>>
    \/ part = "delta" /\ DeltaNext /\ UNCHANGED <<part, allVars>>
MCSpec == MCInit /\ [][MCNext]_<<part, allVars, dvars>>

=============================================================================
