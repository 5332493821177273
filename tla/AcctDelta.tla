----------------------------- MODULE AcctDelta -----------------------------
(***************************************************************************)
(* A NAS that counts n octets and reports them, and the usage that the     *)
(* consumer derives from the reports with Advance (record.go), against the *)
(* number of octets really transferred.                                    *)
(***************************************************************************)
EXTENDS AcctRecord

CONSTANTS
    MaxStep,     \* bound: octets between two reports
    MaxTotal     \* bound: octets in a session

ASSUME DeltaAssumption ==
    /\ MaxStep \in Nat /\ MaxTotal \in Nat

VARIABLES
    giga,    \* "yes": the NAS sends Acct-*-Gigawords
    n,       \* octets transferred, as the NAS counts them
    last,    \* sessions.bytes_in (or bytes_out)
    usage    \* sum of the usage points written

dvars == <<giga, n, last, usage>>

DeltaInit == giga \in {"yes", "no"} /\ n = 0 /\ last = 0 /\ usage = 0

\* The attributes of a report, as the NAS sends them.
Octets(x)   == x % Word
GigaAttr(x) == IF giga = "yes" THEN x \div Word ELSE 0

\* A NAS without gigawords reports before it has counted half a word, the
\* interim interval permitting; one with them is under no such restriction.
Steps == IF giga = "yes" THEN 0..MaxStep ELSE 0..(Half - 1)

\* An interim on an open session with an earlier row (upsertSession).
Report(d) ==
    /\ n + d <= MaxTotal
    /\ n' = n + d
    /\ LET a == Advance(last, Octets(n + d), GigaAttr(n + d))
       IN  last' = a.total /\ usage' = usage + a.delta
    /\ UNCHANGED giga

DeltaNext == \E d \in Steps : Report(d)

DeltaSpec == DeltaInit /\ [][DeltaNext]_dvars

-----------------------------------------------------------------------------
\* The usage accounted is the usage transferred (FR-37.2: usage points are
\* "delta-computed from interim counters, handling 32-bit counter wrap"), for
\* a NAS that sends gigawords; for the others it is so up to the first wrap,
\* and from there on never less while they transfer under half a word between
\* two reports.
DeltaExact == usage >= n /\ (giga = "yes" \/ n < Word => usage = n)

=============================================================================
