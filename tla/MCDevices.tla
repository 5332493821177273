------------------------------ MODULE MCDevices ------------------------------
(***************************************************************************)
(* The machines, side by side: the server that updates itself and the      *)
(* routers the panel writes to. In a behaviour one of the two moves; the   *)
(* other one rests in an initial state.                                    *)
(***************************************************************************)
EXTENDS Updater, Routers, TLC

Symmetry == Permutations(Desk)

\* A router as the vendor ships it, with a rule and a pool of ours; and one
\* somebody else set up, on which our objects differ or are missing.
Obj(ours, act) == [ours |-> ours, act |-> act, src |-> 0]
Plain == [o \in Objects |->
    CASE o \in {"server", "incoming", "aaa", "dns", "ntp", "bridge", "v6pool"} -> Obj(FALSE, 1)
      [] o \in {"uprof", "prof"} -> Obj(FALSE, 2)
      [] o \in {"radius", "rule", "pool"} -> Obj(TRUE, 1)
      [] OTHER -> Absent]
Foreign == [Plain EXCEPT !["radius"] = Obj(FALSE, 2), !["rule"] = [ours |-> TRUE, act |-> 1, src |-> 1],
                         !["zone"] = Obj(FALSE, 2), !["prof"] = Obj(FALSE, 0), !["garden"] = Obj(TRUE, 1)]
MCRouters == {Plain, Foreign}

Request(kind, v, w, resolution, edit) ==
    [kind |-> kind, v |-> v, w |-> w, res |-> resolution, edit |-> edit]
MCAsks == {Request("autosetup", 1, 0, "update", FALSE), Request("autosetup", 1, 0, "abort", FALSE),
           Request("pppoe", 1, 0, "abort", TRUE), Request("hotspot", 1, 0, "abort", TRUE),
           Request("hotspot", 1, 0, "abort", FALSE), Request("pool", 1, 0, "abort", FALSE),
           Request("wan", 1, 0, "abort", FALSE), Request("wizard", 1, 0, "keep", TRUE),
           Request("firewall", 2, 1, "abort", TRUE), Request("firewall", 0, 2, "abort", TRUE),
           Request("firewall", 1, 0, "abort", FALSE)}

-----------------------------------------------------------------------------
VARIABLE part

MCInit ==
    /\ UpdInit /\ RtrInit
    /\ part \in {"updater", "routers"}
    /\ part # "routers" => router = Plain

MCNext ==
    \/ part = "updater" /\ UpdNext /\ UNCHANGED <<part, rtrVars>>
    \/ part = "routers" /\ RtrNext /\ UNCHANGED <<part, updVars>>

MCSpec == MCInit /\ [][MCNext]_<<part, updVars, rtrVars>>

=============================================================================
