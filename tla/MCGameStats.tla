---------------------------- MODULE MCGameStats ----------------------------
(***************************************************************************)
(* An instance of GameStats and Leaderboards for TLC: two games between    *)
(* two clans and one without.                                              *)
(***************************************************************************)
EXTENDS Leaderboards, TLC

CONSTANTS p1, p2, k1, k2, g1, g2, g3, m1, m2

\* Ten-minute units: six make an hour.
MCHour == 6

\* A word of 16 bits holds every value the instance computes.
MCWord == 65536

MCKey == {<<g1, 1>>, <<g2, 1>>, <<g2, 2>>}

line(p, s, t, M) == [pid |-> p, score |-> s, time |-> t, medals |-> M]

Sides(x, y) == [s \in {1, 2} |-> IF s = 1 THEN x ELSE y]

\* g1: almost five hours of p1; a major victory of k1.
\* g2: p1 goes on at the same rate, p2 changes its name; a minor victory of k2.
\* g3: nobody is left, and no clan plays.
MCReport ==
  (g1 :> [lines |-> <<line(p1, 60, 28, {m1})>>,
          team |-> Sides(k1, k2), victory |-> Sides(Major, Lost)]) @@
  (g2 :> [lines |-> <<line(p1, 12, 6, {m1, m2}), line(p2, NameChange, 2, {m2})>>,
          team |-> Sides(k2, k1), victory |-> Sides(Minor, Lost)]) @@
  (g3 :> [lines |-> <<>>,
          team |-> Sides(NoClan, NoClan), victory |-> Sides(Draw, Draw)])

\* p1 kills nobody in g1, so it has no ratio until g2; then p2 has the better one.
MCKills == (<<g1, 1>> :> 0) @@ (<<g2, 1>> :> 1) @@ (<<g2, 2>> :> 1)
MCDeaths == (<<g1, 1>> :> 3) @@ (<<g2, 1>> :> 2) @@ (<<g2, 2>> :> 1)

Symmetry == Permutations(Thread)

\* Behaviours are followed until something spoils a row.
Unspoiled == noted = {}

\* The administrator restricts and recalculates p1, the leader of k1 edits its page.
OneOfEach ==
  /\ restricted \subseteq {p1}
  /\ \A t \in Thread : job[t].player \in {p1, Nobody} /\ job[t].clan \in {k1, Nobody}
  \* a recalculation and a page have no row in common
  /\ \E t \in Thread : job[t].op \in {"none", "UpdateGame"}

\* The third game meets one other report.
ThirdGame ==
  g3 \in sent =>
    /\ Cardinality(sent) <= 2 /\ restricted = {}
    /\ \A t \in Thread : job[t].op \in {"none", "UpdateGame"}

\* A recalculation writes the row of a player, a page that of a clan: their order
\* is followed one way.
RecalcsFirst ==
  clans[k1].info # Blank => \A t \in Thread : job[t].op # "Recalc"

\* After a procedure that stopped half-way reports are followed, one by one.
HalfMade ==
  \/ \E b, d \in Board \ {"clan"} : boards[b] # boards[d]
  \/ \E x \in Subject : <<"rank", x>> \notin late /\ <<"clan", x>> \in late

ReportsRepair ==
  HalfMade => /\ restricted = {}
              /\ \A t \in Thread : job[t].op \in {"none", "UpdateGame"}
              /\ \E t \in Thread : \A u \in Thread \ {t} : job[u].op = "none"

=============================================================================
