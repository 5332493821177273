---------------------------- MODULE MCOperations ----------------------------
(***************************************************************************)
(* The office, side by side: managers and their sessions, the importer,    *)
(* the notification outbox and the monitor. In a behaviour one of the      *)
(* parts moves; the others rest in their first initial state.              *)
(***************************************************************************)
EXTENDS Access, Importer, Notify, Monitor, TLC

CONSTANTS n1, d1

\* Two managers and their two sessions; two runners of an import and two
\* dispatchers of the outbox are as alike as two sessions.
CONSTANTS m1, m2, p1, p2
Symmetry == Permutations({m1, m2}) \union Permutations({p1, p2})

\* Both rows of the file create the same account.
MCRowName == [r \in FileRows |-> "a"]

RuleForm(type, channels, threshold) ==
    [type |-> type, enabled |-> TRUE, channels |-> channels, quiet |-> TRUE, cooldown |-> TRUE,
     threshold |-> threshold, invariant |-> FALSE]
MCRuleForms == {RuleForm("nas_down", {"out"}, 0), RuleForm("disk_low", {"in_app"}, 1),
                RuleForm("expiring_digest", {"out"}, 0)}
MCEstates == {(n1 :> "on") @@ (d1 :> "gone"), (n1 :> "off") @@ (d1 :> "new")}

-----------------------------------------------------------------------------
VARIABLE part

MCInit ==
    /\ AccInit /\ ImpInit /\ NoteInit /\ MonInit
    /\ part \in {"access", "importer", "notify", "monitor"}
    /\ part # "importer" => entity = "subscribers" /\ bstatus = "uploaded"
    /\ part # "monitor" => registry[n1] = "on"

MCNext ==
    \/ part = "access" /\ AccNext /\ UNCHANGED <<part, impVars, noteVars, monVars>>
    \/ part = "importer" /\ ImpNext /\ UNCHANGED <<part, accVars, noteVars, monVars>>
    \/ part = "notify" /\ NoteNext /\ UNCHANGED <<part, accVars, impVars, monVars>>
    \/ part = "monitor" /\ MonNext /\ UNCHANGED <<part, accVars, impVars, noteVars>>

MCSpec == MCInit /\ [][MCNext]_<<part, accVars, impVars, noteVars, monVars>>

=============================================================================
