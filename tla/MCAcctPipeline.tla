--------------------------- MODULE MCAcctPipeline ---------------------------
(* Instances of AcctPipeline for TLC. *)
EXTENDS AcctPipeline, TLC

CONSTANTS r1, r2, h1, h2

Symmetry == Permutations({r1, r2}) \cup Permutations({h1, h2})

=============================================================================
