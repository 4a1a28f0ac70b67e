---------------------------- MODULE PlayerStats ----------------------------
(***************************************************************************)
(* A player's row of table PlayerStats and what one line of a finished     *)
(* game does to it (battlefield/playerstats.cpp, battlefield.cpp).         *)
(*                                                                         *)
(* Twenty-odd columns (kills, deaths, vehicles, flags ...) are plain sums  *)
(* over the lines a row has taken in; `games' stands for all of them: how  *)
(* often each line has been added.  Score, time, points per hour, medals   *)
(* and rank depend on each other and on the order, and are kept.           *)
(*                                                                         *)
(* Times are counted in a unit of which Hour make one hour, and words have *)
(* Word values instead of 2^32.                                            *)
(***************************************************************************)
EXTENDS Integers, FiniteSets, Sequences

CONSTANTS
  Key,    \* lines of games, as rows of GameStatPlayers
  Medal,  \* bits of Battlefield::Medals
  Hour,
  Word

ASSUME PlayerStatsAssumption ==
  Hour \in Nat \ {0} /\ Word \in Nat \ {0} /\ IsFiniteSet(Medal)

RankScores == <<0, 25, 50, 100, 150, 225, 360, 550, 750, 1050, 1500, 2000, 2800,
                4000, 5800, 8000, 12000, 16000, 22000, 32000>>
RankPph    == <<0, 10, 12, 15, 18, 25, 28, 30, 32, 35, 40, 42, 50, 55, 60, 65, 70,
                80, 90, 100>>
RankMedals == <<0, 0, 1, 1, 2, 2, 3, 3, 4, 4, 5, 5, 6, 6, 7, 8, 9, 10, 11, 12>>

Ranks == 1 .. 20

NameChange == -10000

\* A line: what the game server says of one player.
LineFields == [score : Int, time : Nat, medals : SUBSET Medal]

Row == [games : [Key -> Nat], score : Int, time : Nat, pph : Nat,
        medals : SUBSET Medal, ran : Nat]

\* A default-constructed PlayerStats, and the row of a new player.
NewRow == [games |-> [k \in Key |-> 0], score |-> 0, time |-> 0, pph |-> 0,
           medals |-> {}, ran |-> 1]

Reaches(r, n) ==
  /\ r.score >= RankScores[n]
  /\ r.pph \div 100 >= RankPph[n]
  /\ Cardinality(r.medals) >= RankMedals[n]

\* The search stops before the first rank whose three demands are not met.
calcRank(r) ==
  CHOOSE n \in Ranks :
    /\ \A m \in 2 .. n : Reaches(r, m)
    /\ n + 1 \in Ranks => ~ Reaches(r, n + 1)

Ranked(r) == [r EXCEPT !.ran = calcRank(r)]

SetScore(r, n) == Ranked([r EXCEPT !.score = n])

SetPPH(r, n) == Ranked([r EXCEPT !.pph = n])

SetRank(r, n) == IF n \in Ranks THEN [r EXCEPT !.ran = n] ELSE r

SetAnyMedals(r, M) == Ranked([r EXCEPT !.medals = M])

SetMedalsOnly(r, M) ==
  IF Cardinality(M) > Cardinality(r.medals) THEN [r EXCEPT !.medals = M] ELSE r

\* Medals are never taken away: another set replaces the row's when it is larger.
SetMedals(r, M) ==
  IF Cardinality(M) > Cardinality(r.medals)
  THEN Ranked([r EXCEPT !.medals = M])
  ELSE r

Unclamped(n) == n

Clamped(n) == IF n < 0 THEN 0 ELSE n

\* What a negative double becomes as an unsigned word is undefined: the value
\* it has modulo the word, or none.
ToWord(n) == IF n < 0 THEN {0, n % Word} ELSE {n % Word}

\* Rounds towards zero.
Quotient(a, b) == IF a < 0 THEN -((-a) \div b) ELSE a \div b

\* After five hours the game is added to five full hours at the old average.
calcNewPPHOnTop(r, time, score) ==
  LET hours == r.time + time
      total == Clamped(r.score + score)
  IN  CASE score = NameChange -> {r.pph}
        [] score # NameChange /\ hours < Hour -> ToWord(total * 100)
        [] score # NameChange /\ hours >= Hour /\ hours < 5 * Hour ->
             ToWord((total * 100 * Hour) \div hours)
        [] score # NameChange /\ hours >= 5 * Hour ->
             ToWord(Quotient(5 * Hour * r.pph + 100 * Hour * score, 5 * Hour))

\* calcNewPPH.  Up to five hours it is the average of all games, afterwards
\* the game takes the place of as much time at the old average.
calcNewPPH(r, time, score) ==
  LET hours == r.time + time
      total == Clamped(r.score + score)
  IN  CASE score = NameChange -> {r.pph}
        [] score # NameChange /\ hours < Hour -> ToWord(total * 100)
        [] score # NameChange /\ hours >= Hour /\ hours < 5 * Hour ->
             ToWord((total * 100 * Hour) \div hours)
        [] score # NameChange /\ hours >= 5 * Hour ->
             ToWord(Quotient((5 * Hour - time) * r.pph + 100 * Hour * score, 5 * Hour))

\* Update: points per hour first, from the old score and time; medals last.
Update(r, k, line) ==
  {LET averaged == IF line.score = NameChange THEN r ELSE SetPPH(r, n)
       summed   == [averaged EXCEPT !.games[k] = @ + 1]
       scored   == SetScore(summed, r.score + line.score)
       timed    == [scored EXCEPT !.time = @ + line.time]
   IN  SetMedals(timed, line.medals) : n \in calcNewPPH(r, line.time, line.score)}

\* queryPlayerAndPlayerStatsByProfileId: the setters are called column by
\* column on a default-constructed player.
Load(row) ==
  LET sums   == [NewRow EXCEPT !.games = row.games, !.time = row.time]
      scored == SetRank(SetScore(sums, row.score), row.ran)
  IN  SetMedals(SetPPH(scored, row.pph), row.medals)

=============================================================================
