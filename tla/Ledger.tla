------------------------------- MODULE Ledger -------------------------------
(***************************************************************************)
(* What the game statistics server promises about the rows of players and  *)
(* clans, as if they were accounts: a line of a report is counted in its   *)
(* player's account at most once and only before its game is booked, a     *)
(* line that has not been counted by then is struck for good, and the      *)
(* results of a booked game are posted to both clans together, once.       *)
(* Nothing else ever changes an account, whoever reads it and writes it    *)
(* back.  How many calls a report makes, who else is at work between them, *)
(* what fails and when the process dies is the business of GameStats,      *)
(* which implements this module.                                           *)
(*                                                                         *)
(* Of an account that has been spoiled nothing is promised any more.       *)
(***************************************************************************)
EXTENDS Integers

CONSTANTS
  Player, Clan, Game,
  Line,     \* lines of reports
  Lines,    \* Lines[g]: the lines of game g
  Owner,    \* Owner[k]: the player of line k
  Results,  \* Results[g][c]: what game g brings into the record of clan c
  Accounts  \* Accounts[b]: the kind of accounts, "player" or "clan", board b shows

VARIABLES
  tally,    \* tally[p][k]: how often line k is counted for player p
  record,   \* record[c]: the results of clan c
  book,     \* the games that are booked
  struck,   \* the booked lines that do not count
  shown,    \* shown[b]: the accounts as they were last published on board b
  spoiled   \* accounts, <<"player", p>> or <<"clan", c>>

Good(kind, x) == <<kind, x>> \notin spoiled'

TallyStays == \A p \in Player : Good("player", p) => tally'[p] = tally[p]

RecordStays == \A c \in Clan : Good("clan", c) => record'[c] = record[c]

\* The lines that are struck now besides those that were.
Strike(S) ==
  \A k \in Line : Good("player", Owner[k]) => (k \in struck' <=> k \in struck \union S)

OfKind(kind) == IF kind = "clan" THEN record ELSE tally

Init ==
  /\ tally = [p \in Player |-> [k \in Line |-> 0]]
  /\ record = [c \in Clan |-> {}]
  /\ book = {} /\ struck = {} /\ spoiled = {}
  /\ shown = [b \in DOMAIN Accounts |-> OfKind(Accounts[b])]

Count(k) ==
  /\ \A g \in book : k \notin Lines[g]
  /\ tally[Owner[k]][k] = 0
  /\ \A p \in Player : Good("player", p) =>
       tally'[p] = IF p = Owner[k] THEN [tally[p] EXCEPT ![k] = 1] ELSE tally[p]
  /\ RecordStays /\ Strike({})
  /\ UNCHANGED <<book, shown>>

Enter(g) ==
  /\ g \notin book
  /\ book' = book \union {g}
  /\ Strike({k \in Lines[g] : tally[Owner[k]][k] = 0})
  /\ TallyStays /\ RecordStays
  /\ UNCHANGED shown

Settle(g) ==
  /\ g \in book
  /\ \A c \in Clan : Good("clan", c) =>
       /\ record[c] \intersect Results[g][c] = {}
       /\ record'[c] = record[c] \union Results[g][c]
  /\ TallyStays /\ Strike({})
  /\ UNCHANGED <<book, shown>>

\* All boards are published together, unless that fails half-way: then those in
\* made are, one may be taken down, and the others stay as they were.
Publish(made, down) ==
  /\ shown' = [b \in DOMAIN Accounts |-> CASE b \in made -> OfKind(Accounts[b])
                                           [] b \in down -> [x \in {} |-> 0]
                                           [] OTHER -> shown[b]]
  /\ TallyStays /\ RecordStays /\ Strike({})
  /\ UNCHANGED book

\* Spoiled accounts change as they like.
Rest ==
  /\ TallyStays /\ RecordStays /\ Strike({})
  /\ UNCHANGED <<book, shown>>

Next ==
  /\ spoiled \subseteq spoiled'
  /\ \/ \E k \in Line : Count(k)
     \/ \E g \in Game : Enter(g) \/ Settle(g)
     \/ \E made \in SUBSET DOMAIN Accounts :
          Publish(made, {}) \/ \E b \in DOMAIN Accounts \ made : Publish(made, {b})
     \/ Rest

Spec == Init /\ [][Next]_<<tally, record, book, struck, shown, spoiled>>

=============================================================================
