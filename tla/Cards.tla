-------------------------------- MODULE Cards --------------------------------
(***************************************************************************)
(* Prepaid hotspot cards (backend/internal/cards): groups, their cards and *)
(* the login with a card's code.  AuthenticateCard reads the card, stamps  *)
(* its first use and sums its usage in three round trips; the view it      *)
(* builds is judged by the limits engine of the radius package.            *)
(***************************************************************************)
EXTENDS Limits

CONSTANTS
    Codes,       \* codes that can be drawn
    Played,      \* bound: the codes somebody logs in with
    Groups,      \* group ids
    Logins,      \* card logins that can be under way together
    Windows,     \* expire_after_seconds of a group, in ticks; 0 is none
    LoginLife,   \* the FreeRADIUS exec timeout, in ticks
    CardHorizon, MaxAdmin   \* bounds: ticks, operator requests

ASSUME CardsAssumption == LoginLife \in Nat /\ Windows \subseteq Nat /\ CardHorizon \in Nat

VARIABLES
    groups,   \* [Groups -> [st, until, window]]; st: "none", "on", "off"
    cards,    \* [Codes -> [st, group, first, used]]; first = -1: never used
    logins,   \* [Logins -> [at, code, first, until, age]]
    spread,   \* [Codes -> [from, to]]: first and last accepted login
    cclock, admin

cardVars == <<groups, cards, logins, spread, cclock, admin>>

NoCard == [st |-> "none", group |-> "none", first |-> -1, used |-> 0]
NoLogin == [at |-> "idle", code |-> "none", first |-> -1, until |-> 0, age |-> 0]
Never == CardHorizon + 1

CardsInit ==
    /\ groups = [g \in Groups |-> [st |-> "none", until |-> Never, window |-> 0]]
    /\ cards = [c \in Codes |-> NoCard]
    /\ logins = [l \in Logins |-> NoLogin]
    /\ spread = [c \in Codes |-> [from |-> -1, to |-> -1]]
    /\ cclock = 0 /\ admin = 0

Request == admin < MaxAdmin /\ admin' = admin + 1

-----------------------------------------------------------------------------
(* groups and cards                                                        *)

\* insertCards: as many fresh codes as wanted, or the transaction fails; a
\* code that is taken is drawn again (genCode, hashCode).
InsertCards(g, drawn) ==
    /\ drawn # {} /\ \A c \in drawn : cards[c].st = "none"
    /\ cards' = [c \in Codes |-> IF c \in drawn THEN [NoCard EXCEPT !.st = "unused", !.group = g] ELSE cards[c]]

\* createGroup: the group and its cards in one transaction.
CreateGroup(g, drawn, window, until) ==
    /\ groups[g].st = "none"
    /\ groups' = [groups EXCEPT ![g] = [st |-> "on", until |-> until, window |-> window]]
    /\ InsertCards(g, drawn)
    /\ Request
    /\ UNCHANGED <<logins, spread, cclock>>

\* createGroupHandler: a window and a shelf date are optional.
CreateGroupHandler(g, drawn) ==
    \E window \in Windows, until \in {cclock + 1, Never} : CreateGroup(g, drawn, window, until)

\* addMoreCards
AddMoreCards(g, drawn) == groups[g].st # "none" /\ InsertCards(g, drawn) /\ UNCHANGED groups

\* addMoreHandler
AddMoreHandler(g, drawn) ==
    /\ AddMoreCards(g, drawn)
    /\ Request
    /\ UNCHANGED <<logins, spread, cclock>>

\* duplicateGroup: the settings and the shelf date, with codes of its own.
DuplicateGroup(src, g, drawn) == CreateGroup(g, drawn, groups[src].window, groups[src].until)

\* duplicateGroupHandler
DuplicateGroupHandler(src, g, drawn) == groups[src].st # "none" /\ DuplicateGroup(src, g, drawn)

\* setGroupEnabled, the statement
SetGroupEnabled(g, st) == groups' = [groups EXCEPT ![g].st = st]

\* enableGroupHandler and disableGroupHandler
GroupEnabledHandler(g, st) ==
    /\ groups[g].st \notin {"none", st} /\ SetGroupEnabled(g, st)
    /\ Request
    /\ UNCHANGED <<cards, logins, spread, cclock>>

\* extendValidUntil: the date is set, not moved.
ExtendValidUntil(g, until) == groups' = [groups EXCEPT ![g].until = until]

\* extendGroupHandler
ExtendGroupHandler(g, until) ==
    /\ groups[g].st # "none" /\ groups[g].until # until /\ ExtendValidUntil(g, until)
    /\ Request
    /\ UNCHANGED <<cards, logins, spread, cclock>>

\* Mutant: a card that is reset is a fresh card.
RestartCard(c) == cards' = [cards EXCEPT ![c].used = 0, ![c].first = -1]

\* resetCard: a fresh cycle, not a fresh card.
ResetCard(c) == cards' = [cards EXCEPT ![c].used = 0]

ResetCardHandler(c) ==
    /\ cards[c].st # "none" /\ ResetCard(c)
    /\ Request
    /\ UNCHANGED <<groups, logins, spread, cclock>>

\* setCardState
SetCardState(c, st) == cards' = [cards EXCEPT ![c].st = st]

\* disableCardHandler and enableCardHandler
SetCardStateHandler(c, st) ==
    /\ cards[c].st \notin {"none", st} /\ SetCardState(c, st)
    /\ Request
    /\ UNCHANGED <<groups, logins, spread, cclock>>

-----------------------------------------------------------------------------
(* a login with a code                                                     *)

\* AuthenticateCard, the query: a disabled card or group is an unknown user.
CardLookup(l, c) ==
    /\ logins[l].at = "idle" /\ cards[c].st \notin {"none", "disabled"}
    /\ groups[cards[c].group].st = "on"
    /\ logins' = [logins EXCEPT ![l] = [at |-> "stamp", code |-> c, first |-> cards[c].first,
                                        until |-> groups[cards[c].group].until, age |-> 0]]
    /\ UNCHANGED <<groups, cards, spread, cclock, admin>>

\* The stamp: only a card that was never used takes it, and it writes the
\* state without looking at it; an error ends the login.
CardStamp(l) ==
    LET c == logins[l].code IN
    /\ logins[l].at = "stamp"
    /\ IF logins[l].first >= 0 THEN logins' = [logins EXCEPT ![l].at = "judge"] /\ UNCHANGED cards
       ELSE \/ /\ logins' = [logins EXCEPT ![l].at = "judge", ![l].first = cclock]
               /\ cards' = IF cards[c].first = -1 THEN [cards EXCEPT ![c].first = cclock, ![c].st = "active"]
                           ELSE cards
            \/ logins' = [logins EXCEPT ![l] = NoLogin] /\ UNCHANGED cards
    /\ UNCHANGED <<groups, spread, cclock, admin>>

\* effectiveExpiry: the earlier of the window and the shelf date.
EffectiveExpiry(first, window, until) ==
    IF window > 0 /\ first + window < until THEN first + window ELSE until

\* quotaExhausted, over sumCardBytes since the anchor
CardExhausted(c) == cards[c].used >= 1

\* AuthenticateCard, the view, in the shape the limits engine judges.
CardView(l) ==
    LET c == logins[l].code
        w == groups[cards[c].group].window IN
    [expired   |-> cclock > EffectiveExpiry(logins[l].first, w, logins[l].until),
     exhausted |-> CardExhausted(c), upOver |-> FALSE, dayOver |-> FALSE, stype |-> "hotspot",
     lim |-> [k \in {"expiry", "quota", "uptime", "daily"} |-> ResolveExhaustTarget("block", "", [rate |-> "", pool |-> ""])]]

\* decide on a card: limits only; a code needs no password and no scope.
CardDecide(l) ==
    LET c == logins[l].code IN
    /\ logins[l].at = "judge"
    /\ logins' = [logins EXCEPT ![l] = NoLogin]
    /\ spread' = IF EvaluateLimits(CardView(l), TRUE).reject THEN spread
                 ELSE [spread EXCEPT ![c] = [from |-> IF @.from < 0 THEN cclock ELSE @.from, to |-> cclock]]
    /\ UNCHANGED <<groups, cards, cclock, admin>>

\* Accounting counts against the card.
CardUsage(c) ==
    /\ cards[c].first >= 0 /\ cards[c].used = 0
    /\ cards' = [cards EXCEPT ![c].used = 1]
    /\ UNCHANGED <<groups, logins, spread, cclock, admin>>

CardsTick ==
    /\ cclock < CardHorizon
    /\ \A l \in Logins : logins[l].at # "idle" => logins[l].age < LoginLife
    /\ cclock' = cclock + 1
    /\ logins' = [l \in Logins |-> IF logins[l].at = "idle" THEN logins[l] ELSE [logins[l] EXCEPT !.age = @ + 1]]
    /\ UNCHANGED <<groups, cards, spread, admin>>

CardsNext ==
    \/ \E g \in Groups :
         \/ \E drawn \in SUBSET Codes :
              \/ CreateGroupHandler(g, drawn) \/ AddMoreHandler(g, drawn)
              \/ \E src \in Groups : DuplicateGroupHandler(src, g, drawn)
         \/ GroupEnabledHandler(g, "on") \/ GroupEnabledHandler(g, "off")
         \/ ExtendGroupHandler(g, Never)
    \/ \E c \in Codes :
         \/ ResetCardHandler(c) \/ SetCardStateHandler(c, "disabled") \/ SetCardStateHandler(c, "active") \/ CardUsage(c)
         \/ \E l \in Logins : c \in Played /\ CardLookup(l, c)
    \/ \E l \in Logins : CardStamp(l) \/ CardDecide(l)
    \/ CardsTick

CardsSpec == CardsInit /\ [][CardsNext]_cardVars

-----------------------------------------------------------------------------
\* The window of a card counts from its first use, whatever is reset,
\* re-enabled or raced since: accepted logins of a card lie within the
\* group's window, give or take the life of one login.
CardWithinWindow ==
    \A c \in Codes :
        cards[c].st # "none" /\ groups[cards[c].group].window > 0 /\ spread[c].from >= 0
            => spread[c].to - spread[c].from <= groups[cards[c].group].window + LoginLife

\* Stronger, and not so: an operator who disables a card finds it disabled
\* until it is enabled again.
DisabledStays == [][\A c \in Codes :
    cards[c].st = "disabled" /\ cards'[c].st # "disabled" => UNCHANGED logins]_cardVars

=============================================================================
