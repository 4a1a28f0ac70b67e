----------------------------- MODULE ClanRules -----------------------------
(***************************************************************************)
(* What the clan service promises its players, as if every request were    *)
(* one of these steps: a player belongs to at most one clan and has one    *)
(* rank in it, a clan has at most one leader, a clan that is closed is     *)
(* empty and is never opened again.  How many calls a request makes, and   *)
(* what other requests do between them, is the business of Clans, which    *)
(* implements this module as long as no two requests race and no call      *)
(* fails whose success the handler takes for granted.                      *)
(***************************************************************************)
EXTENDS Integers

CONSTANTS Player, Clan, None

VARIABLES
  place,   \* the clan and rank of each player, Nowhere for who has none
  open,    \* clans that exist
  closed   \* clans that existed

Leader    == 0
Co_Leader == 1
Member    == 2
Rank      == {Leader, Co_Leader, Member}

Nowhere == [clan |-> None, rank |-> None]

In(c) == {p \in Player : place[p].clan = c}

Led(c) == \E p \in In(c) : place[p].rank = Leader

Put(p, c, k) == place' = [place EXCEPT ![p] = [clan |-> c, rank |-> k]]

Init ==
  /\ place = [p \in Player |-> Nowhere]
  /\ open = {}
  /\ closed = {}

\* A clan comes into being; its founder leads it in a step of its own.
Open(c) ==
  /\ c \notin open \union closed
  /\ open' = open \union {c}
  /\ UNCHANGED <<place, closed>>

Found(p, c) ==
  /\ c \in open /\ In(c) = {}
  /\ place[p] = Nowhere
  /\ Put(p, c, Leader)
  /\ UNCHANGED <<open, closed>>

Join(p, c) ==
  /\ c \in open
  /\ place[p] = Nowhere
  /\ Put(p, c, Member)
  /\ UNCHANGED <<open, closed>>

Leave(p) ==
  /\ place[p] # Nowhere
  /\ place' = [place EXCEPT ![p] = Nowhere]
  /\ UNCHANGED <<open, closed>>

\* The leader becomes an officer, or an officer or member is given a rank;
\* a new leader takes the place of one that has stepped down.
SetRank(p, k) ==
  /\ place[p] # Nowhere
  /\ k = Leader => ~ Led(place[p].clan)
  /\ Put(p, place[p].clan, k)
  /\ UNCHANGED <<open, closed>>

\* Everybody leaves at once.
Dissolve(c) ==
  /\ c \in open
  /\ place' = [p \in Player |-> IF p \in In(c) THEN Nowhere ELSE place[p]]
  /\ UNCHANGED <<open, closed>>

Close(c) ==
  /\ c \in open /\ In(c) = {}
  /\ open' = open \ {c}
  /\ closed' = closed \union {c}
  /\ UNCHANGED place

Next ==
  \/ \E c \in Clan : Open(c) \/ Dissolve(c) \/ Close(c)
  \/ \E p \in Player, c \in Clan : Found(p, c) \/ Join(p, c)
  \/ \E p \in Player : Leave(p) \/ \E k \in Rank : SetRank(p, k)

Spec == Init /\ [][Next]_<<place, open, closed>>

=============================================================================
