--------------------------- MODULE MCAcctSession ---------------------------
(***************************************************************************)
(* AcctSession with a history variable that remembers what has disturbed   *)
(* the session, so that the exactness properties can say under which       *)
(* circumstances they hold.                                                *)
(***************************************************************************)
EXTENDS AcctSession

VARIABLE odd   \* the disturbances so far

\* "late": an older record is applied behind a newer one; "reap": the reaper
\* closes the row; "mark": it writes a live entry back; "live": a command on
\* the live hash is refused although it would have changed the entry.
Disturbance ==
    {k \in {"late", "reap", "mark", "live"} :
        \/ k = "late" /\ \E i \in applied' \ applied, j \in applied : j > i
        \/ k = "reap" /\ row.st # "reaped" /\ row'.st = "reaped"
        \/ k = "mark" /\ reaper.pc = "upsert" /\ live' = "stale"
        \/ k = "live" /\ job # "idle" /\ unacked # {} /\ unacked' = {}
                      /\ live' # (IF job = "upsert" THEN "fresh" ELSE "none")}

MCInit == Init /\ odd = {}
MCNext == Next /\ odd' = odd \cup Disturbance
MCSpec == MCInit /\ [][MCNext]_<<svars, odd>>
MCFairSpec == MCSpec /\ Fairness

-----------------------------------------------------------------------------
\* What is billed is exact, across crashes, duplicates and failed statements,
\* unless an older record overtakes a newer one or the reaper closes the row
\* under a session that goes on (upsertSession's baseline): the usage at every
\* moment, and the connected time, credited once and over the whole span, of a
\* session that has ended with a Stop.
ExactUndisturbed == odd \cap {"late", "reap"} = {} => UsageExact /\ SecsExact

\* A closed session is not shown live, wherever a crash falls between the
\* commit and the update of the live hash, while the reaper has not touched
\* the session and Redis has refused nothing.
GhostFree == odd \cap {"reap", "mark", "live"} = {} => NoLiveGhost

\* FR-38.2: "If a real Stop or interim later arrives, it supersedes/reopens
\* correctly": a reap in the middle of a session leaves the usage exact.
ReopensCorrectly == "late" \notin odd => UsageExact

=============================================================================
