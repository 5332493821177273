----------------------------- MODULE AcctRecord -----------------------------
(***************************************************************************)
(* The octet-counter arithmetic of backend/internal/accounting/record.go.  *)
(* A NAS reports 32-bit octet counters and, if it supports them, a         *)
(* gigawords attribute that counts the wraps.  Word stands for 2^32.       *)
(***************************************************************************)
EXTENDS Naturals

CONSTANT Word

ASSUME WordAssumption == Word \in Nat /\ Word > 1

Half == Word \div 2

\* totalBytes: gigawords<<32 | (octets & 0xFFFFFFFF)
TotalBytes(octets, gigawords) == gigawords * Word + (octets % Word)

\* The low word fell from the upper half to the lower one while the NAS
\* reports no gigawords.
LooksWrapped(lastTotal, octets, gigawords) ==
    /\ gigawords = 0 /\ lastTotal > 0
    /\ octets < lastTotal % Word
    /\ lastTotal % Word > Half
    /\ octets < Half

\* Mutant: the wrap is not recognised.
NeverWrapped(lastTotal, octets, gigawords) == octets % Word

\* advance's cur: the total the NAS is taken to have reached.
CurTotal(lastTotal, octets, gigawords) ==
    IF LooksWrapped(lastTotal, octets, gigawords)
    THEN ((lastTotal \div Word) + 1) * Word + octets
    ELSE TotalBytes(octets, gigawords)

\* advance: the new stored total and the usage since lastTotal; a decrease is
\* taken for a counter that restarted from zero.
Advance(lastTotal, octets, gigawords) ==
    LET cur == CurTotal(lastTotal, octets, gigawords)
    IN  [total |-> cur,
         delta |-> IF cur >= lastTotal THEN cur - lastTotal ELSE cur]

=============================================================================
