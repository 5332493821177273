------------------------------ MODULE MCBilling ------------------------------
(***************************************************************************)
(* Money, side by side: the ledger, the books, the payment tickets and the *)
(* prepaid cards. In a behaviour one of them moves, the others rest in     *)
(* their initial state.                                                    *)
(***************************************************************************)
EXTENDS BillingLedger, BillingBooks, PaymentTickets, Cards, TLC

\* Two people on each side of a counter: they redeem, file tickets or log in
\* with a card; they undo, review or own a group of cards.
CONSTANTS a1, a2, b1, b2
Symmetry == Permutations({a1, a2}) \cup Permutations({b1, b2})

MCDays == [monthly |-> 2, weekly |-> 1]

VARIABLES
    contested,   \* tickets rejected while an approval of them was under way
    part

UnderWay(t) == \E v \in Reviewer : review[v].at # "idle" /\ review[v].t = t
Contests ==
    contested' = contested \cup
        {t \in Tickets : ticket[t].st = "pending" /\ ticket'[t].st = "rejected" /\ UnderWay(t)}

MCInit ==
    /\ LedgerInit /\ profile = "monthly" /\ BooksInit /\ Init /\ contested = {} /\ CardsInit
    /\ part \in {"ledger", "books", "tickets", "cards"}
MCNext ==
    \/ part = "ledger" /\ LedgerNext /\ UNCHANGED <<part, booksVars, tvars, contested, cardVars>>
    \/ part = "books" /\ BooksNext /\ UNCHANGED <<part, ledgerVars, tvars, contested, cardVars>>
    \/ part = "tickets" /\ Next /\ Contests /\ UNCHANGED <<part, ledgerVars, booksVars, cardVars>>
    \/ part = "cards" /\ CardsNext /\ UNCHANGED <<part, ledgerVars, booksVars, tvars, contested>>
MCSpec == MCInit /\ [][MCNext]_<<part, ledgerVars, booksVars, tvars, contested, cardVars>>

-----------------------------------------------------------------------------
\* The decision and the money agree on every ticket whose rejection met no
\* approval under way and left by no request that died: reviewers who take
\* turns never reject what has been charged (FR-59.2).
DecidedAlone ==
    faults = 0 => \A t \in Tickets \ contested :
                      ticket[t].st = "rejected" => charged[t] = 0

=============================================================================
