-------------------------- MODULE GameStatsProofs --------------------------
(***************************************************************************)
(* Proofs of the safety properties of GameStats for any reports, players,  *)
(* clans and threads.                                                      *)
(*                                                                         *)
(* The tables alone are not inductive: a handler carries rows it has read  *)
(* a call or more ago.  IInv therefore says of each thread what its        *)
(* locals are worth at its next call: the row of a line is the table's row *)
(* with one line more (Adding), a recalculation has summed up what it has  *)
(* read of the log (Summing), the rows of two clans are the table's with   *)
(* one result more (Rating), a page's row holds the table's results        *)
(* (Editing); and for a report where each of its lines is (Logging).  Each *)
(* is demanded of rows that are not spoiled only, and RacesNoted says that *)
(* a row two handlers hold at once is spoiled.  So a step that writes a    *)
(* row finds no other handler holding it.                                  *)
(*                                                                         *)
(* Steps that write no table are Quiet and share one argument (QuietStep); *)
(* each writing step has a lemma of its own.                               *)
(***************************************************************************)
EXTENDS GameStats, TLAPS, FiniteSetTheorems, WellFoundedInduction

IsRanked(r) == r.ran = calcRank(r)

(***************************************************************************)
(* What a thread relies on at its next call.                               *)
(***************************************************************************)
\* Calls of a report before it is in the log, about clans, and all.
Ahead       == {"queryPlayer", "updatePlayerStats", "insertGameStat"}
ClanCalls   == {"queryClans", "updateClans"}
ReportCalls == Ahead \union ClanCalls \union {"createLeaderboards"}

Clear(p) == <<"player", p>> \notin noted
Plain(c) == <<"clan", c>> \notin noted

\* The same after a step, for an argument of the state before it.
StaysClear(p) == <<"player", p>> \notin noted'
StaysPlain(c) == <<"clan", c>> \notin noted'

\* The results a clan's row holds.
Held(row) == row.wins \union row.losses \union row.draws

Results(g, s) == IF victory(g, s) \in Lost .. Draw THEN {<<g, s>>} ELSE {}

\* The locals of the handler are set when a call uses them.
Locals(t) ==
  /\ job[t].op = "UpdateGame" <=> job[t].next \in ReportCalls
  /\ job[t].next \in ReportCalls => job[t].game \in sent
  /\ job[t].next \in {"queryPlayer", "updatePlayerStats"} => job[t].i \in DOMAIN lines(job[t].game)
  /\ At(t, "insertGameStat") => \A k \in KeysOf(job[t].game) : k[2] < job[t].i
  /\ job[t].next \in ClanCalls => ClanGame(job[t].game)
  /\ job[t].next \in {"count", "page", "updateRecalc"} => job[t].player \in Player
  /\ At(t, "count") => job[t].read = {} /\ job[t].offset = 0 /\ job[t].row = NewRow
  /\ At(t, "updateClan") => job[t].clan \in Clan
  /\ job[t].next \notin Ahead => job[t].added = {}
  /\ IsRanked(job[t].row)

\* The log has nothing of a report under way; each line it has passed is in the
\* statistics, or will be disabled, or belongs to a spoiled row.
Logging(t) ==
  job[t].next \in Ahead =>
    /\ job[t].game \notin games
    /\ \A k \in KeysOf(job[t].game) : k \notin log
    /\ \A k \in job[t].added : k \in KeysOf(job[t].game) /\ k[2] < job[t].i
    /\ \A k \in KeysOf(job[t].game) :
         k[2] < job[t].i => k \in job[t].added \/ pid(k) \in job[t].barred \/ ~ Clear(pid(k))

\* The row about to be written is the one in the table with one more line.
Adding(t) ==
  At(t, "updatePlayerStats") /\ Clear(pid(Current(t))) =>
    \A k \in Key :
      job[t].row.games[k] = IF k = Current(t) THEN 1 ELSE stats[pid(Current(t))].games[k]

\* A recalculation has read as many rows as it has counted pages.
Summing(t) ==
  job[t].next \in {"page", "updateRecalc"} /\ Clear(job[t].player) =>
    /\ job[t].read \subseteq RowsOf(job[t].player)
    /\ Cardinality(job[t].read) = job[t].offset
    /\ job[t].total = Cardinality(RowsOf(job[t].player))
    /\ At(t, "page") => job[t].offset < job[t].total
    /\ At(t, "updateRecalc") => job[t].offset = job[t].total
    /\ \A k \in Key :
         job[t].row.games[k] = IF k \in job[t].read \ disabled THEN 1 ELSE 0

\* The game of a report that has come to the clans is in the log; the rows of
\* the two clans about to be written are those in the table with one more result
\* each.
Rating(t) ==
  job[t].next \in ClanCalls =>
    \A s \in {1, 2} :
      LET c == team(job[t].game, s)
      IN  Plain(c) => /\ job[t].game \in games
                      /\ At(t, "updateClans") =>
                           /\ job[t].rows[s].info = clans[c].info
                           /\ Held(job[t].rows[s]) = Held(clans[c]) \union Results(job[t].game, s)

\* The row of a page about to be written has the results of the table.
Editing(t) ==
  At(t, "updateClan") /\ Plain(job[t].clan) => Held(job[t].page) = Held(clans[job[t].clan])

\* A game is reported by one thread.
Distinct ==
  \A t, u \in Thread :
    job[t].op = "UpdateGame" /\ job[u].op = "UpdateGame" /\ job[t].game = job[u].game => t = u

LogSent == \A k \in log : k[1] \in sent

RacesNoted == Races \subseteq noted

RowsRanked == \A p \in Player : IsRanked(stats[p])

IInv ==
  /\ TypeOK
  /\ \A t \in Thread : Locals(t)
  /\ \A t \in Thread : Logging(t)
  /\ \A t \in Thread : Adding(t)
  /\ \A t \in Thread : Summing(t)
  /\ \A t \in Thread : Rating(t)
  /\ \A t \in Thread : Editing(t)
  /\ Distinct
  /\ LogSent
  /\ RacesNoted
  /\ RowsRanked
  /\ StatsMatchLog
  /\ ClanRecordMatchesLog
  /\ BoardsFresh

(***************************************************************************)
(* Ranks.                                                                  *)
(***************************************************************************)
\* _calcRank always finds a rank, and its search has only one end.
LEMMA RankIs ==
  ASSUME NEW r
  PROVE  /\ calcRank(r) \in Ranks
         /\ \A m \in 2 .. calcRank(r) : Reaches(r, m)
         /\ calcRank(r) + 1 \in Ranks => ~ Reaches(r, calcRank(r) + 1)
<1> DEFINE Less == OpToRel(<, Nat)
           Ends == {n \in Ranks : n + 1 \in Ranks => ~ Reaches(r, n + 1)}
           Found(n) == /\ \A m \in 2 .. n : Reaches(r, m)
                       /\ n + 1 \in Ranks => ~ Reaches(r, n + 1)
<1>1. IsWellFoundedOn(Less, Nat)
  BY NatLessThanWellFounded
<1>2. \A x, y \in Nat : x < y => <<x, y>> \in Less
  BY DEF OpToRel
<1>3. 20 \in Ends /\ Ends \subseteq Nat
  BY DEF Ranks
<1> HIDE DEF Less
<1>4. PICK n \in Ends : \A x \in Ends : ~ (<<x, n>> \in Less)
  <2> HIDE DEF Ends
  <2>1. QED
    BY <1>1, <1>3, WFMin
<1>5. \A m \in 2 .. n : Reaches(r, m)
  <2>1. SUFFICES ASSUME NEW m \in 2 .. n PROVE Reaches(r, m)
    OBVIOUS
  <2>2. n \in Ranks
    BY <1>4
  <2>3. m - 1 \in Ranks /\ m \in Ranks /\ (m - 1) + 1 = m /\ m - 1 < n
    BY <2>1, <2>2 DEF Ranks
  <2>4. m - 1 \notin Ends
    BY <1>2, <1>3, <1>4, <2>3
  <2>5. QED
    BY <2>3, <2>4
<1>6. n \in Ranks /\ Found(n)
  BY <1>4, <1>5
<1>7. calcRank(r) = CHOOSE x \in Ranks : Found(x)
  BY DEF calcRank
<1>8. QED
  BY <1>6, <1>7

LEMMA SameRank ==
  ASSUME NEW r, NEW s, \A m \in Ranks : Reaches(r, m) <=> Reaches(s, m)
  PROVE  calcRank(r) = calcRank(s)
<1> DEFINE x == calcRank(r)
           y == calcRank(s)
<1>1. /\ x \in Ranks /\ (\A m \in 2 .. x : Reaches(r, m)) /\ (x + 1 \in Ranks => ~ Reaches(r, x + 1))
      /\ y \in Ranks /\ (\A m \in 2 .. y : Reaches(s, m)) /\ (y + 1 \in Ranks => ~ Reaches(s, y + 1))
  BY RankIs
<1> HIDE DEF x, y
<1>2. CASE x < y
  <2>1. x + 1 \in 2 .. y /\ x + 1 \in Ranks
    BY <1>1, <1>2 DEF Ranks
  <2>2. QED
    BY <1>1, <2>1
<1>3. CASE y < x
  <2>1. y + 1 \in 2 .. x /\ y + 1 \in Ranks
    BY <1>1, <1>3 DEF Ranks
  <2>2. QED
    BY <1>1, <2>1
<1>4. x = y
  BY <1>1, <1>2, <1>3 DEF Ranks
<1>5. QED
  BY <1>4 DEF x, y

\* The rank of a row is made of three columns.
LEMMA RankOf ==
  ASSUME NEW r \in Row, NEW s \in Row,
         s.score = r.score, s.pph = r.pph, s.medals = r.medals
  PROVE  calcRank(s) = calcRank(r)
<1>1. \A m \in Ranks : Reaches(s, m) <=> Reaches(r, m)
  BY DEF Reaches
<1>2. QED
  BY <1>1, SameRank

LEMMA RankedRow ==
  ASSUME NEW r \in Row
  PROVE  /\ Ranked(r) \in Row /\ IsRanked(Ranked(r))
         /\ Ranked(r).games = r.games
<1>1. calcRank(r) \in Nat
  BY RankIs DEF Ranks
<1>2. /\ Ranked(r) \in Row
      /\ Ranked(r).score = r.score /\ Ranked(r).pph = r.pph /\ Ranked(r).medals = r.medals
      /\ Ranked(r).ran = calcRank(r) /\ Ranked(r).games = r.games
  BY <1>1 DEF Ranked, Row
<1>3. QED
  BY <1>2, RankOf DEF IsRanked

LEMMA NewRowRanked == NewRow \in Row /\ IsRanked(NewRow)
<1>1. [k \in Key |-> 0] \in [Key -> Nat]
  OBVIOUS
<1>2. NewRow \in Row
  BY <1>1 DEF NewRow, Row
<1>3. ~ Reaches(NewRow, 2)
  <2>1. NewRow.score = 0
    BY DEF NewRow
  <2>2. RankScores[2] = 25
    BY DEF RankScores
  <2>3. QED
    BY <2>1, <2>2 DEF Reaches
<1>4. calcRank(NewRow) = 1
  BY <1>3, RankIs DEF Ranks
<1>5. QED
  BY <1>2, <1>4 DEF IsRanked, NewRow

(***************************************************************************)
(* The setters, and what a line does to a row.                             *)
(***************************************************************************)
LEMMA Setters ==
  ASSUME NEW r \in Row, NEW n \in Int, NEW w \in Nat, NEW M \in SUBSET Medal
  PROVE  /\ SetScore(r, n) \in Row /\ IsRanked(SetScore(r, n)) /\ SetScore(r, n).games = r.games
         /\ SetPPH(r, w) \in Row /\ IsRanked(SetPPH(r, w)) /\ SetPPH(r, w).games = r.games
         /\ SetRank(r, w) \in Row /\ SetRank(r, w).games = r.games
         /\ SetMedals(r, M) \in Row /\ SetMedals(r, M).games = r.games
         /\ IsRanked(r) => IsRanked(SetMedals(r, M))
<1>1. /\ [r EXCEPT !.score = n] \in Row /\ [r EXCEPT !.score = n].games = r.games
      /\ [r EXCEPT !.pph = w] \in Row /\ [r EXCEPT !.pph = w].games = r.games
      /\ [r EXCEPT !.medals = M] \in Row /\ [r EXCEPT !.medals = M].games = r.games
      /\ [r EXCEPT !.ran = w] \in Row /\ [r EXCEPT !.ran = w].games = r.games
  BY DEF Row
<1>2. SetScore(r, n) \in Row /\ IsRanked(SetScore(r, n)) /\ SetScore(r, n).games = r.games
  BY <1>1, RankedRow DEF SetScore
<1>3. SetPPH(r, w) \in Row /\ IsRanked(SetPPH(r, w)) /\ SetPPH(r, w).games = r.games
  BY <1>1, RankedRow DEF SetPPH
<1>4. SetRank(r, w) \in Row /\ SetRank(r, w).games = r.games
  BY <1>1 DEF SetRank
<1>5. /\ SetMedals(r, M) \in Row /\ SetMedals(r, M).games = r.games
      /\ IsRanked(r) => IsRanked(SetMedals(r, M))
  BY <1>1, RankedRow DEF SetMedals
<1>6. QED
  BY <1>2, <1>3, <1>4, <1>5

LEMMA WordIs ==
  ASSUME NEW n \in Int
  PROVE  ToWord(n) \subseteq Nat
<1>1. n % Word \in Nat
  BY PlayerStatsAssumption
<1>2. QED
  BY <1>1 DEF ToWord

LEMMA QuotientIs ==
  ASSUME NEW a \in Int, NEW b \in Nat \ {0}
  PROVE  Quotient(a, b) \in Int
BY DEF Quotient

LEMMA ClampedIs ==
  ASSUME NEW n \in Int
  PROVE  Clamped(n) \in Nat
BY DEF Clamped

LEMMA PPHIs ==
  ASSUME NEW r \in Row, NEW time \in Nat, NEW score \in Int
  PROVE  calcNewPPH(r, time, score) \subseteq Nat
<1> DEFINE hours == r.time + time
           total == Clamped(r.score + score)
<1>1. r.time \in Nat /\ r.pph \in Nat /\ r.score \in Int
  BY DEF Row
<1>2. hours \in Nat /\ total \in Nat
  BY <1>1, ClampedIs
<1>3. Hour \in Nat /\ Hour # 0
  BY PlayerStatsAssumption
<1>4. CASE score = NameChange
  <2>1. calcNewPPH(r, time, score) = {r.pph}
    BY <1>4 DEF calcNewPPH
  <2>2. QED
    BY <1>1, <2>1
<1>5. CASE score # NameChange /\ hours < Hour
  <2>1. calcNewPPH(r, time, score) = ToWord(total * 100)
    BY <1>2, <1>3, <1>5 DEF calcNewPPH
  <2>2. QED
    BY <1>2, <2>1, WordIs
<1>6. CASE score # NameChange /\ hours >= Hour /\ hours < 5 * Hour
  <2>1. calcNewPPH(r, time, score) = ToWord((total * 100 * Hour) \div hours)
    BY <1>2, <1>3, <1>6 DEF calcNewPPH
  <2> HIDE DEF hours, total
  <2>2. (total * 100 * Hour) \div hours \in Int
    BY <1>2, <1>3, <1>6
  <2>3. QED
    BY <2>1, <2>2, WordIs
<1>7. CASE score # NameChange /\ hours >= 5 * Hour
  <2> DEFINE sum == (5 * Hour - time) * r.pph + 100 * Hour * score
  <2>1. calcNewPPH(r, time, score) = ToWord(Quotient(sum, 5 * Hour))
    BY <1>2, <1>3, <1>7 DEF calcNewPPH
  <2>2. sum \in Int /\ 5 * Hour \in Nat \ {0}
    BY <1>1, <1>3
  <2> HIDE DEF sum
  <2>3. QED
    BY <2>1, <2>2, QuotientIs, WordIs
<1>8. QED
  BY <1>2, <1>3, <1>4, <1>5, <1>6, <1>7

\* Update: a line is added once, and the row is ranked when it is done.
LEMMA UpdatedRow ==
  ASSUME NEW r \in Row, IsRanked(r), NEW k \in Key, NEW line \in Line,
         NEW q \in Update(r, k, line)
  PROVE  /\ q \in Row /\ IsRanked(q)
         /\ q.games = [r.games EXCEPT ![k] = @ + 1]
<1>1. line.score \in Int /\ line.time \in Nat /\ line.medals \in SUBSET Medal
  BY DEF Line
<1>2. PICK n \in calcNewPPH(r, line.time, line.score) :
        q = LET averaged == IF line.score = NameChange THEN r ELSE SetPPH(r, n)
                summed   == [averaged EXCEPT !.games[k] = @ + 1]
                scored   == SetScore(summed, r.score + line.score)
                timed    == [scored EXCEPT !.time = @ + line.time]
            IN  SetMedals(timed, line.medals)
  BY DEF Update
<1> DEFINE averaged == IF line.score = NameChange THEN r ELSE SetPPH(r, n)
           summed   == [averaged EXCEPT !.games[k] = @ + 1]
           scored   == SetScore(summed, r.score + line.score)
           timed    == [scored EXCEPT !.time = @ + line.time]
<1>3. q = SetMedals(timed, line.medals)
  BY <1>2
<1>4. averaged \in Row /\ averaged.games = r.games
  BY <1>1, PPHIs, Setters
<1> HIDE DEF averaged
<1>5. summed \in Row /\ summed.games = [r.games EXCEPT ![k] = @ + 1]
  BY <1>4 DEF Row
<1> HIDE DEF summed
<1>6. r.score + line.score \in Int
  BY <1>1 DEF Row
<1>7. scored \in Row /\ IsRanked(scored) /\ scored.games = summed.games
  BY <1>5, <1>6, Setters
<1> HIDE DEF scored
<1>8. /\ timed \in Row /\ timed.games = scored.games /\ timed.ran = scored.ran
      /\ timed.score = scored.score /\ timed.pph = scored.pph /\ timed.medals = scored.medals
  BY <1>1, <1>7 DEF Row
<1> HIDE DEF timed
<1>9. IsRanked(timed)
  BY <1>7, <1>8, RankOf DEF IsRanked
<1>10. QED
  BY <1>1, <1>3, <1>5, <1>7, <1>8, <1>9, Setters

LEMMA LoadedRow ==
  ASSUME NEW r \in Row
  PROVE  Load(r) \in Row /\ IsRanked(Load(r)) /\ Load(r).games = r.games
<1> DEFINE sums   == [NewRow EXCEPT !.games = r.games, !.time = r.time]
           scored == SetRank(SetScore(sums, r.score), r.ran)
<1>1. r.score \in Int /\ r.ran \in Nat /\ r.pph \in Nat /\ r.medals \in SUBSET Medal
  BY DEF Row
<1>2. sums \in Row /\ sums.games = r.games
  BY NewRowRanked DEF Row
<1>3. Load(r) = SetMedals(SetPPH(scored, r.pph), r.medals)
  BY DEF Load
<1> HIDE DEF sums
<1>4. scored \in Row /\ scored.games = sums.games
  <2>1. SetScore(sums, r.score) \in Row /\ SetScore(sums, r.score).games = sums.games
    BY <1>1, <1>2, Setters
  <2>2. QED
    BY <1>1, <2>1, Setters
<1> HIDE DEF scored
<1>5. SetPPH(scored, r.pph) \in Row /\ IsRanked(SetPPH(scored, r.pph))
        /\ SetPPH(scored, r.pph).games = scored.games
  BY <1>1, <1>4, Setters
<1>6. QED
  BY <1>1, <1>2, <1>3, <1>4, <1>5, Setters
-----------------------------------------------------------------------------
(***************************************************************************)
(* Reports, and what they do to the rows of clans.                         *)
(***************************************************************************)
LEMMA ReportIs ==
  ASSUME NEW g \in Game
  PROVE  /\ lines(g) \in Seq(Line)
         /\ \A s \in {1, 2} : team(g, s) \in Clan \union {NoClan} /\ victory(g, s) \in Nat
<1>1. Report[g] \in ReportOf
  BY GameStatsAssumption
<1>2. Report[g].lines \in Seq(Line)
  BY <1>1 DEF ReportOf, lines
<1>3. Report[g].team \in [{1, 2} -> Clan \union {NoClan}]
  BY <1>1 DEF ReportOf
<1>4. Report[g].victory \in [{1, 2} -> 0 .. 255]
  BY <1>1 DEF ReportOf
<1>5. \A s \in {1, 2} : victory(g, s) \in Nat
  <2>1. \A n \in 0 .. 255 : n \in Nat
    OBVIOUS
  <2>2. QED
    BY <1>4, <2>1 DEF victory
<1>6. \A s \in {1, 2} : team(g, s) \in Clan \union {NoClan}
  BY <1>3 DEF team
<1>7. lines(g) \in Seq(Line)
  BY <1>2 DEF lines
<1>8. QED
  BY <1>5, <1>6, <1>7

LEMMA KeyIs ==
  ASSUME NEW k \in Key
  PROVE  /\ k[1] \in Game /\ k[2] \in DOMAIN lines(k[1]) /\ k[2] \in Nat \ {0}
         /\ k = <<k[1], k[2]>> /\ k \in KeysOf(k[1])
         /\ lineAt(k) \in Line /\ pid(k) \in Player
<1>1. PICK g \in Game : k \in {g} \X DOMAIN Report[g].lines
  BY GameStatsAssumption
<1>2. k[1] = g /\ k[2] \in DOMAIN lines(g) /\ k = <<k[1], k[2]>>
  BY <1>1 DEF lines
<1>3. lines(g) \in Seq(Line)
  BY ReportIs
<1>4. k[2] \in Nat \ {0} /\ lines(g)[k[2]] \in Line
  BY <1>2, <1>3
<1>5. lineAt(k) \in Line
  BY <1>2, <1>4 DEF lineAt, lines
<1>6. QED
  BY <1>2, <1>4, <1>5 DEF pid, Line, KeysOf

LEMMA LineIs ==
  ASSUME NEW g \in Game, NEW i \in DOMAIN lines(g)
  PROVE  <<g, i>> \in Key /\ <<g, i>> \in KeysOf(g) /\ i \in Nat \ {0}
<1>1. <<g, i>> \in {g} \X DOMAIN Report[g].lines
  BY DEF lines
<1>2. <<g, i>> \in Key
  BY <1>1, GameStatsAssumption
<1>3. QED
  BY <1>2, KeyIs DEF KeysOf

LEMMA KeysOfIs ==
  ASSUME NEW g, NEW k \in KeysOf(g)
  PROVE  k \in Key /\ k[1] = g /\ k = <<g, k[2]>> /\ k[2] \in Nat /\ k[2] \in DOMAIN lines(g)
<1>1. k \in Key /\ k[1] = g
  BY DEF KeysOf
<1>2. QED
  BY <1>1, KeyIs

\* The call that follows the lines before the n-th.
LEMMA CallIs ==
  ASSUME NEW g \in Game, NEW n \in Nat \ {0}, n - 1 \in 0 .. Len(lines(g))
  PROVE  /\ CallAt(g, n) \in {"queryPlayer", "insertGameStat"}
         /\ CallAt(g, n) = "queryPlayer" => n \in DOMAIN lines(g)
         /\ CallAt(g, n) = "insertGameStat" => \A k \in KeysOf(g) : k[2] < n
<1>1. lines(g) \in Seq(Line) /\ DOMAIN lines(g) = 1 .. Len(lines(g)) /\ Len(lines(g)) \in Nat
  BY ReportIs
<1>2. CASE n \in DOMAIN lines(g)
  BY <1>2 DEF CallAt
<1>3. CASE n \notin DOMAIN lines(g)
  <2>1. n - 1 = Len(lines(g))
    BY <1>1, <1>3
  <2>2. \A k \in KeysOf(g) : k[2] < n
    BY <1>1, <2>1, KeysOfIs
  <2>3. QED
    BY <1>3, <2>2 DEF CallAt
<1>4. QED
  BY <1>2, <1>3

LEMMA FactorIs == \A v \in Nat : Factor(v) \in Nat
BY DEF Factor, Minor, Major

LEMMA EloIs ==
  ASSUME NEW g \in Game, NEW s \in {1, 2}, NEW mine \in Nat, NEW theirs \in Nat
  PROVE  eloScore(g, s, mine, theirs) \in Nat
<1>1. victory(g, 1) \in Nat /\ victory(g, 2) \in Nat
  BY ReportIs
<1>2. Factor(victory(g, 1)) \in Nat /\ Factor(victory(g, 2)) \in Nat
  BY <1>1, FactorIs
<1>3. eloWeight(g, s) \in Int
  BY <1>2 DEF eloWeight
<1>4. success(victory(g, s)) \in Int
  BY DEF success
<1>5. Expected(theirs - mine) \in Int
  <2>1. theirs - mine \in Int
    OBVIOUS
  <2>2. Quotient(theirs - mine, 2) \in Int
    BY <2>1, QuotientIs
  <2>3. QED
    BY <2>1, <2>2 DEF Expected
<1>6. eloWeight(g, s) * (success(victory(g, s)) - Expected(theirs - mine)) \in Int
  BY <1>3, <1>4, <1>5
<1>7. ((eloWeight(g, s) * (success(victory(g, s)) - Expected(theirs - mine))) \div 1000) + mine \in Int
  BY <1>6
<1>8. QED
  BY <1>7, ClampedIs DEF eloScore

LEMMA NewClanIs == NewClan \in ClanRow
BY DEF NewClan, ClanRow

\* Counted adds one result, and the page stays.
LEMMA RatedIs ==
  ASSUME NEW g \in Game, NEW s \in {1, 2}, NEW row \in ClanRow, NEW other \in ClanRow
  PROVE  /\ Rated(row, g, s, other) \in ClanRow
         /\ Rated(row, g, s, other).info = row.info
         /\ Held(Rated(row, g, s, other)) = Held(row) \union Results(g, s)
<1> DEFINE v == victory(g, s)
           wins   == IF v \in {Major, Minor} THEN row.wins \union {<<g, s>>} ELSE row.wins
           losses == IF v = Lost THEN row.losses \union {<<g, s>>} ELSE row.losses
           draws  == IF v = Draw THEN row.draws \union {<<g, s>>} ELSE row.draws
           counted == Counted(row, g, s)
<1>1. v \in Nat
  BY ReportIs
<1>2. <<g, s>> \in Side
  BY DEF Side
<1>3. wins \subseteq Side /\ losses \subseteq Side /\ draws \subseteq Side
  BY <1>2 DEF ClanRow
<1>4. counted = [row EXCEPT !.wins = wins, !.losses = losses, !.draws = draws]
  BY DEF Counted
<1>5. wins \union losses \union draws = Held(row) \union Results(g, s)
  BY <1>1 DEF Held, Results, Major, Minor, Lost, Draw
<1> HIDE DEF wins, losses, draws, v
<1>6. /\ counted \in ClanRow /\ counted.info = row.info
      /\ counted.wins = wins /\ counted.losses = losses /\ counted.draws = draws
  BY <1>3, <1>4 DEF ClanRow
<1>7. eloScore(g, s, row.score, other.score) \in Nat
  BY EloIs DEF ClanRow
<1> HIDE DEF counted
<1>8. Rated(row, g, s, other) = [counted EXCEPT !.score = eloScore(g, s, row.score, other.score)]
  BY DEF Rated, counted
<1>9. QED
  BY <1>5, <1>6, <1>7, <1>8 DEF ClanRow, Held

LEMMA RatedRowsAre ==
  ASSUME NEW g \in Game, NEW rows \in [{1, 2} -> ClanRow]
  PROVE  /\ RatedRows(g, rows) \in [{1, 2} -> ClanRow]
         /\ \A s \in {1, 2} : /\ RatedRows(g, rows)[s].info = rows[s].info
                              /\ Held(RatedRows(g, rows)[s]) = Held(rows[s]) \union Results(g, s)
<1>1. \A s \in {1, 2} : 3 - s \in {1, 2} /\ rows[s] \in ClanRow /\ rows[3 - s] \in ClanRow
  OBVIOUS
<1>2. \A s \in {1, 2} : RatedRows(g, rows)[s] = Rated(rows[s], g, s, rows[3 - s])
  BY DEF RatedRows
<1>3. \A s \in {1, 2} :
        /\ RatedRows(g, rows)[s] \in ClanRow
        /\ RatedRows(g, rows)[s].info = rows[s].info
        /\ Held(RatedRows(g, rows)[s]) = Held(rows[s]) \union Results(g, s)
  BY <1>1, <1>2, RatedIs
<1>4. RatedRows(g, rows) = [s \in {1, 2} |-> RatedRows(g, rows)[s]]
  BY DEF RatedRows
<1>5. QED
  BY <1>3, <1>4

-----------------------------------------------------------------------------
(***************************************************************************)
(* Jobs.                                                                   *)
(***************************************************************************)
Prepared(t) ==
  Locals(t) /\ Logging(t) /\ Adding(t) /\ Summing(t) /\ Rating(t) /\ Editing(t)

LEMMA IInvParts ==
  IInv <=>
    /\ TypeOK /\ \A t \in Thread : Prepared(t)
    /\ Distinct /\ LogSent /\ RacesNoted /\ RowsRanked
    /\ StatsMatchLog /\ ClanRecordMatchesLog /\ BoardsFresh
BY DEF IInv, Prepared

LEMMA JobIs ==
  ASSUME TypeOK, NEW t \in Thread
  PROVE  /\ job[t] \in Job
         /\ job[t].next \in Call /\ job[t].game \in Game \union {Nobody} /\ job[t].i \in Nat
         /\ job[t].barred \subseteq Player /\ job[t].added \subseteq Key
         /\ job[t].row \in Row /\ job[t].rows \in [{1, 2} -> ClanRow]
         /\ job[t].player \in Player \union {Nobody} /\ job[t].read \subseteq Key
         /\ job[t].offset \in Nat /\ job[t].total \in Nat
         /\ job[t].clan \in Clan \union {Nobody} /\ job[t].page \in ClanRow
<1>1. job[t] \in Job
  BY DEF TypeOK
<1>2. QED
  BY <1>1 DEF Job

LEMMA ReportingJob ==
  ASSUME TypeOK, NEW t \in Thread, Locals(t), job[t].next \in ReportCalls
  PROVE  /\ job[t].game \in Game /\ job[t].game \in sent /\ job[t].op = "UpdateGame"
         /\ job[t].next \in {"queryPlayer", "updatePlayerStats"} =>
              /\ Current(t) \in Key /\ Current(t) \in KeysOf(job[t].game)
              /\ Current(t)[1] = job[t].game /\ Current(t)[2] = job[t].i
              /\ job[t].i \in Nat \ {0} /\ job[t].i \in DOMAIN lines(job[t].game)
              /\ pid(Current(t)) \in Player /\ lineAt(Current(t)) \in Line
<1>1. job[t].game \in Game /\ job[t].game \in sent
  BY DEF TypeOK, Locals
<1>2. ASSUME job[t].next \in {"queryPlayer", "updatePlayerStats"}
      PROVE  /\ Current(t) \in Key /\ Current(t) \in KeysOf(job[t].game)
             /\ Current(t)[1] = job[t].game /\ Current(t)[2] = job[t].i
             /\ job[t].i \in Nat \ {0} /\ job[t].i \in DOMAIN lines(job[t].game)
  <2>1. job[t].i \in DOMAIN lines(job[t].game)
    BY <1>2 DEF Locals
  <2>2. QED
    BY <1>1, <2>1, LineIs DEF Current
<1>3. QED
  BY <1>1, <1>2, KeyIs DEF Locals

LEMMA NoJobIs ==
  /\ NoJob \in Job
  /\ NoJob.op = "none" /\ NoJob.next = "none" /\ NoJob.added = {} /\ NoJob.barred = {}
  /\ NoJob.row = NewRow /\ NoJob.i = 0 /\ NoJob.read = {} /\ NoJob.offset = 0
<1>1. NewRow \in Row /\ NewClan \in ClanRow
  BY NewRowRanked, NewClanIs
<1>2. [s \in {1, 2} |-> NewClan] \in [{1, 2} -> ClanRow]
  BY <1>1
<1>3. NoJob \in Job
  BY <1>1, <1>2 DEF NoJob, Job, Op, Call
<1>4. QED
  BY <1>3 DEF NoJob

\* One job is replaced.
LEMMA Written ==
  ASSUME TypeOK, NEW t \in Thread, NEW j, job' = [job EXCEPT ![t] = j]
  PROVE  /\ job'[t] = j
         /\ \A u \in Thread \ {t} : job'[u] = job[u]
         /\ j \in Job => job' \in [Thread -> Job]
BY DEF TypeOK

\* A thread that is done.
LEMMA Unprepared ==
  ASSUME NEW t \in Thread, job'[t].op # "UpdateGame",
         job'[t].next = "none", job'[t].added = {}, IsRanked(job'[t].row)
  PROVE  Prepared(t)'
<1>1. job'[t].next \notin ReportCalls
  BY DEF ReportCalls, Ahead, ClanCalls
<1>2. job'[t].next \notin Ahead /\ job'[t].next \notin ClanCalls
  BY DEF Ahead, ClanCalls
<1>3. Locals(t)'
  BY <1>1, <1>2 DEF Locals, At, IsRanked
<1>4. Logging(t)' /\ Adding(t)' /\ Summing(t)' /\ Rating(t)' /\ Editing(t)'
  BY <1>2 DEF Logging, Adding, Summing, Rating, Editing, At
<1>5. QED
  BY <1>3, <1>4 DEF Prepared

\* What a step has to leave alone for a thread that does not make it.
LEMMA Others ==
  ASSUME NEW u \in Thread, Prepared(u),
         job'[u] = job[u], sent \subseteq sent', noted \subseteq noted',
         games \subseteq games',
         job[u].next \in Ahead =>
           /\ job[u].game \in games' => job[u].game \in games
           /\ \A k \in KeysOf(job[u].game) : k \in log' => k \in log,
         At(u, "updatePlayerStats") /\ StaysClear(pid(Current(u))) =>
           stats'[pid(Current(u))] = stats[pid(Current(u))],
         job[u].next \in {"page", "updateRecalc"} /\ StaysClear(job[u].player) =>
           /\ RowsOf(job[u].player)' = RowsOf(job[u].player)
           /\ \A k \in RowsOf(job[u].player) : k \in disabled' <=> k \in disabled,
         \A c \in Clan : Holding(u, c) /\ StaysPlain(c) =>
           clans'[c].info = clans[c].info /\ Held(clans'[c]) = Held(clans[c]),
         \A s \in {1, 2} : job[u].next \in ClanCalls => team(job[u].game, s) \in Clan
  PROVE  Prepared(u)'
<1>1. \A p : (Clear(p)' <=> StaysClear(p)) /\ (StaysClear(p) => Clear(p))
  BY DEF Clear, StaysClear
<1>2. \A c : (Plain(c)' <=> StaysPlain(c)) /\ (StaysPlain(c) => Plain(c))
  BY DEF Plain, StaysPlain
<1>3. Locals(u)'
  BY DEF Prepared, Locals, At
<1>4. Logging(u)'
  BY <1>1 DEF Prepared, Logging
<1>5. Adding(u)'
  <2>1. Current(u)' = Current(u)
    BY DEF Current
  <2>2. Clear(pid(Current(u)))' <=> StaysClear(pid(Current(u)))
    BY <2>1 DEF Clear, StaysClear
  <2>3. QED
    BY <1>1, <2>1, <2>2 DEF Prepared, Adding, At
<1>6. Summing(u)'
  <2>1. SUFFICES ASSUME job[u].next \in {"page", "updateRecalc"}, StaysClear(job[u].player)
                 PROVE  Summing(u)'
    BY <1>1 DEF Summing, Clear, StaysClear
  <2>2. /\ RowsOf(job[u].player)' = RowsOf(job[u].player)
        /\ \A k \in RowsOf(job[u].player) : k \in disabled' <=> k \in disabled
    BY <2>1
  <2>3. Clear(job[u].player) /\ job[u].read \subseteq RowsOf(job[u].player)
    BY <1>1, <2>1 DEF Prepared, Summing
  <2>4. \A k \in Key : k \in job[u].read \ disabled' <=> k \in job[u].read \ disabled
    BY <2>2, <2>3
  <2>5. QED
    BY <2>1, <2>2, <2>3, <2>4 DEF Prepared, Summing, At
<1>7. Rating(u)'
  <2>1. SUFFICES ASSUME job[u].next \in ClanCalls, NEW s \in {1, 2},
                        StaysPlain(team(job[u].game, s))
                 PROVE  /\ job[u].game \in games'
                        /\ job[u].next = "updateClans" =>
                             /\ job[u].rows[s].info = clans'[team(job[u].game, s)].info
                             /\ Held(job[u].rows[s]) =
                                  Held(clans'[team(job[u].game, s)]) \union Results(job[u].game, s)
    BY DEF Rating, At, Plain, StaysPlain
  <2>2. Plain(team(job[u].game, s)) /\ team(job[u].game, s) \in Clan
    BY <1>2, <2>1
  <2>3. job[u].next = "updateClans" => Holding(u, team(job[u].game, s))
    BY DEF Holding, At
  <2>4. /\ job[u].game \in games
        /\ job[u].next = "updateClans" =>
             /\ job[u].rows[s].info = clans[team(job[u].game, s)].info
             /\ Held(job[u].rows[s]) =
                  Held(clans[team(job[u].game, s)]) \union Results(job[u].game, s)
    BY <2>1, <2>2 DEF Prepared, Rating, At
  <2>5. QED
    BY <2>1, <2>2, <2>3, <2>4
<1>8. Editing(u)'
  <2>1. SUFFICES ASSUME At(u, "updateClan"), StaysPlain(job[u].clan)
                 PROVE  Held(job[u].page) = Held(clans'[job[u].clan])
    BY DEF Editing, At, Plain, StaysPlain
  <2>2. Holding(u, job[u].clan) /\ job[u].clan \in Clan
    BY <2>1 DEF Holding, Prepared, Locals
  <2>3. QED
    BY <1>2, <2>1, <2>2 DEF Prepared, Editing
<1>9. QED
  BY <1>3, <1>4, <1>5, <1>6, <1>7, <1>8 DEF Prepared

-----------------------------------------------------------------------------
(***************************************************************************)
(* Steps that write no table.                                              *)
(***************************************************************************)
Noting == noted \subseteq noted' /\ noted' \subseteq Subject /\ Races' \subseteq noted'

\* Thread t makes its own next call good, and changes what others see of it only
\* in rows that are spoiled.
Quiet(t) ==
  /\ UNCHANGED <<restricted, stats, games, log, disabled, clans, boards>>
  /\ late \subseteq late' /\ late' \subseteq Board \X Subject
  /\ job' \in [Thread -> Job]
  /\ \A u \in Thread \ {t} : job'[u] = job[u]
  /\ sent \subseteq sent' /\ sent' \subseteq Game
  /\ Noting
  /\ Prepared(t)'
  /\ Distinct'
  /\ \A k \in Key : Clear(pid(k))' => (k \in job'[t].added <=> k \in job[t].added)
  /\ \A c \in Clan, g \in Game :
       Plain(c)' /\ c \in {team(g, 1), team(g, 2)} =>
         (job'[t].game = g /\ job'[t].next \in ClanCalls
            <=> job[t].game = g /\ job[t].next \in ClanCalls)
  /\ \A x \in Pending(t) : x \in Pending(t)' \/ \A b \in Board : <<b, x>> \in late'

LEMMA ClanTeams ==
  ASSUME TypeOK, NEW t \in Thread, Locals(t), job[t].next \in ClanCalls
  PROVE  job[t].game \in Game /\ \A s \in {1, 2} : team(job[t].game, s) \in Clan
<1>1. job[t].next \in ReportCalls
  BY DEF ReportCalls
<1>2. job[t].game \in Game /\ ClanGame(job[t].game)
  BY <1>1, ReportingJob DEF Locals
<1>3. \A s \in {1, 2} : team(job[t].game, s) \in Clan \union {NoClan}
  BY <1>2, ReportIs
<1>4. QED
  BY <1>2, <1>3 DEF ClanGame

\* The other threads, when nothing is written.
LEMMA Unwritten ==
  ASSUME TypeOK, NEW u \in Thread, Prepared(u), job'[u] = job[u],
         UNCHANGED <<stats, games, log, disabled, clans>>,
         sent \subseteq sent', noted \subseteq noted'
  PROVE  Prepared(u)'
<1>1. \A p : RowsOf(p)' = RowsOf(p)
  BY DEF RowsOf
<1>2. job[u].next \in ClanCalls => \A s \in {1, 2} : team(job[u].game, s) \in Clan
  BY ClanTeams DEF Prepared
<1>3. QED
  BY <1>1, <1>2, Others

LEMMA DistinctKept ==
  ASSUME Distinct, NEW t \in Thread, \A u \in Thread \ {t} : job'[u] = job[u],
         job'[t].op = "UpdateGame" => job[t].op = "UpdateGame" /\ job'[t].game = job[t].game
  PROVE  Distinct'
BY DEF Distinct

LEMMA PendingKept ==
  ASSUME NEW u \in Thread, job'[u] = job[u]
  PROVE  Pending(u)' = Pending(u)
BY DEF Pending, At

LEMMA PendingTyped ==
  ASSUME TypeOK, NEW t \in Thread
  PROVE  Pending(t) \subseteq Subject
<1>1. \A k \in KeysOf(job[t].game) : pid(k) \in Player
  BY KeysOfIs, KeyIs
<1>2. QED
  BY <1>1 DEF Pending, Subject

\* Rows that need not be shown as they are, when late and what is pending grow.
LEMMA UnshownKept ==
  ASSUME TypeOK, late \subseteq late',
         \A u \in Thread : \A x \in Pending(u) :
           x \in Pending(u)' \/ \A b \in Board : <<b, x>> \in late',
         NEW b \in Board
  PROVE  Unshown(b) \subseteq Unshown(b)'
<1>1. Unshown(b) = {x \in Subject : <<b, x>> \in late} \union UNION {Pending(u) : u \in Thread}
  BY DEF Unshown
<1>2. Unshown(b)' = {x \in Subject : <<b, x>> \in late'} \union UNION {Pending(u)' : u \in Thread}
  BY DEF Unshown
<1>3. \A u \in Thread : Pending(u) \subseteq Subject
  BY PendingTyped
<1>4. QED
  BY <1>1, <1>2, <1>3

LEMMA NotShown ==
  ASSUME NEW b \in Board, NEW x \in Subject,
         <<b, x>> \in late' \/ \E u \in Thread : x \in Pending(u)'
  PROVE  x \in Unshown(b)'
BY DEF Unshown

\* The leaderboards are as fresh as before when rows change only where they
\* need not be shown as they are.
LEMMA FreshKept ==
  ASSUME TypeOK, BoardsFresh, boards' = boards,
         \A b \in Board : Unshown(b) \subseteq Unshown(b)',
         \A p \in Player, b \in Board :
           <<"player", p>> \notin Unshown(b)' => stats'[p] = stats[p],
         \A c \in Clan : <<"clan", c>> \notin Unshown("clan")' => clans'[c] = clans[c]
  PROVE  BoardsFresh'
<1>1. ASSUME NEW b \in Board \ {"clan"}, NEW p \in Player, <<"player", p>> \notin Unshown(b)'
      PROVE  p \in DOMAIN boards'[b] /\ boards'[b][p] = stats'[p]
  BY <1>1 DEF BoardsFresh
<1>2. ASSUME NEW c \in Clan, <<"clan", c>> \notin Unshown("clan")'
      PROVE  c \in DOMAIN boards'["clan"] /\ boards'["clan"][c] = clans'[c]
  <2>1. "clan" \in Board
    BY DEF Board
  <2>2. QED
    BY <1>2, <2>1 DEF BoardsFresh
<1>3. QED
  BY <1>1, <1>2 DEF BoardsFresh

LEMMA QuietStep ==
  ASSUME IInv, NEW t \in Thread, Quiet(t)
  PROVE  IInv'
<1>1. /\ TypeOK /\ \A u \in Thread : Prepared(u)
      /\ Distinct /\ LogSent /\ RacesNoted /\ RowsRanked
      /\ StatsMatchLog /\ ClanRecordMatchesLog /\ BoardsFresh
  BY IInvParts
<1>2. TypeOK'
  BY <1>1 DEF TypeOK, Quiet, Noting
<1>3. \A u \in Thread : Prepared(u)'
  BY <1>1, Unwritten DEF Quiet, Noting
<1>4. Distinct' /\ LogSent' /\ RacesNoted' /\ RowsRanked'
  BY <1>1 DEF Quiet, Noting, LogSent, RacesNoted, RowsRanked
<1>5. StatsMatchLog'
  <2>1. SUFFICES ASSUME NEW p \in Player, Clear(p)', NEW k \in Key
                 PROVE  stats'[p].games[k] =
                          IF pid(k) = p /\ (k \in log' \ disabled' \/ InFlight(k)') THEN 1 ELSE 0
    BY DEF StatsMatchLog, Clear
  <2>2. Clear(p)
    BY <2>1 DEF Quiet, Noting, Clear
  <2>3. pid(k) = p => (InFlight(k)' <=> InFlight(k))
    BY <2>1 DEF Quiet, InFlight
  <2>4. QED
    BY <1>1, <2>2, <2>3 DEF StatsMatchLog, Quiet, Clear
<1>6. ClanRecordMatchesLog'
  <2>1. SUFFICES ASSUME NEW g \in Game, NEW s \in {1, 2},
                        team(g, s) \in Clan, victory(g, s) \in Lost .. Draw, Plain(team(g, s))'
                 PROVE  OnRecord(team(g, s), <<g, s>>)' <=>
                          /\ g \in games' /\ ClanGame(g)
                          /\ ~ \E u \in Thread : job'[u].game = g /\ job'[u].next \in ClanCalls
    BY DEF ClanRecordMatchesLog, Plain, ClanCalls
  <2>2. Plain(team(g, s))
    BY <2>1 DEF Quiet, Noting, Plain
  <2>3. (\E u \in Thread : job'[u].game = g /\ job'[u].next \in ClanCalls)
          <=> (\E u \in Thread : job[u].game = g /\ job[u].next \in ClanCalls)
    BY <2>1 DEF Quiet
  <2>4. OnRecord(team(g, s), <<g, s>>)' <=> OnRecord(team(g, s), <<g, s>>)
    BY DEF Quiet, OnRecord
  <2>5. QED
    BY <1>1, <2>1, <2>2, <2>3, <2>4 DEF ClanRecordMatchesLog, Quiet, Plain, ClanCalls
<1>7. BoardsFresh'
  <2>1. \A u \in Thread : \A x \in Pending(u) :
          x \in Pending(u)' \/ \A b \in Board : <<b, x>> \in late'
    BY PendingKept DEF Quiet
  <2>2. \A b \in Board : Unshown(b) \subseteq Unshown(b)'
    BY <1>1, <2>1, UnshownKept DEF Quiet
  <2>3. QED
    BY <1>1, <2>2, FreshKept DEF Quiet
<1>8. QED
  BY <1>2, <1>3, <1>4, <1>5, <1>6, <1>7, IInvParts DEF IInv, Prepared

-----------------------------------------------------------------------------
(***************************************************************************)
(* The loop over the players of a report.                                  *)
(***************************************************************************)
LEMMA AtALine ==
  ASSUME NEW t \in Thread, job'[t].op = "UpdateGame",
         job'[t].next \in {"queryPlayer", "insertGameStat"}, job'[t].game \in sent',
         job'[t].next = "queryPlayer" => job'[t].i \in DOMAIN lines(job'[t].game),
         job'[t].next = "insertGameStat" => \A k \in KeysOf(job'[t].game) : k[2] < job'[t].i,
         job'[t].row = NewRow
  PROVE  Locals(t)' /\ Adding(t)' /\ Summing(t)' /\ Rating(t)' /\ Editing(t)'
<1>1. /\ job'[t].next \in ReportCalls /\ job'[t].next \in Ahead /\ job'[t].next \notin ClanCalls
      /\ job'[t].next \notin {"count", "page", "updateRecalc"}
      /\ job'[t].next # "updatePlayerStats" /\ job'[t].next # "updateClan"
  BY DEF ReportCalls, Ahead, ClanCalls
<1>2. IsRanked(job'[t].row)
  BY NewRowRanked
<1>3. Locals(t)'
  BY <1>1, <1>2 DEF Locals, At, IsRanked
<1>4. Adding(t)' /\ Summing(t)' /\ Rating(t)' /\ Editing(t)'
  BY <1>1 DEF Adding, Summing, Rating, Editing, At
<1>5. QED
  BY <1>3, <1>4

\* UpdateGame has started, or a line is done.
LEMMA Started ==
  ASSUME IInv, Noting, NEW t \in Thread, UpdateGame(t)
  PROVE  Quiet(t)
<1>1. PICK g \in Game \ sent :
        /\ job[t] = NoJob
        /\ sent' = sent \union {g}
        /\ job' = IF g \in Verified
                  THEN [job EXCEPT ![t] = [NoJob EXCEPT !.op = "UpdateGame", !.game = g,
                                                       !.i = 1, !.next = CallAt(g, 1)]]
                  ELSE job
        /\ UNCHANGED <<tables, late>>
  BY DEF UpdateGame
<1>2. TypeOK /\ Distinct /\ LogSent /\ \A u \in Thread : Prepared(u)
  BY IInvParts
<1>3. /\ UNCHANGED <<restricted, stats, games, log, disabled, clans, boards>>
      /\ late \subseteq late' /\ late' \subseteq Board \X Subject
      /\ sent \subseteq sent' /\ sent' \subseteq Game
  BY <1>1, <1>2 DEF tables, TypeOK
<1>4. job[t].op = "none" /\ job[t].next = "none" /\ job[t].added = {} /\ Pending(t) = {}
  BY <1>1, NoJobIs DEF Pending
<1>5. CASE g \notin Verified
  <2>1. job' = job
    BY <1>1, <1>5
  <2>2. Prepared(t)'
    BY <1>2, <1>3, <2>1, Unwritten DEF Noting
  <2>3. Distinct' /\ job' \in [Thread -> Job]
    BY <1>2, <2>1 DEF Distinct, TypeOK
  <2>4. Pending(t)' = Pending(t)
    BY <2>1, PendingKept
  <2>5. QED
    BY <1>3, <2>1, <2>2, <2>3, <2>4 DEF Quiet
<1>6. CASE g \in Verified
  <2> DEFINE j == [NoJob EXCEPT !.op = "UpdateGame", !.game = g, !.i = 1, !.next = CallAt(g, 1)]
  <2>1. 1 - 1 \in 0 .. Len(lines(g))
    BY ReportIs
  <2>2. /\ CallAt(g, 1) \in {"queryPlayer", "insertGameStat"}
        /\ CallAt(g, 1) = "queryPlayer" => 1 \in DOMAIN lines(g)
        /\ CallAt(g, 1) = "insertGameStat" => \A k \in KeysOf(g) : k[2] < 1
    BY <2>1, CallIs
  <2>3. j \in Job
    BY <2>2, NoJobIs DEF Job, Op, Call
  <2>4. /\ j.op = "UpdateGame" /\ j.game = g /\ j.i = 1 /\ j.next = CallAt(g, 1)
        /\ j.added = {} /\ j.row = NewRow
    BY NoJobIs DEF Job
  <2>5. job' = [job EXCEPT ![t] = j]
    BY <1>1, <1>6
  <2> HIDE DEF j
  <2>6. /\ job'[t] = j /\ job' \in [Thread -> Job]
        /\ \A u \in Thread \ {t} : job'[u] = job[u]
    BY <1>2, <2>3, <2>5, Written
  <2>7. g \notin games /\ \A k \in KeysOf(g) : k \notin log /\ k[2] \in Nat \ {0}
    BY <1>2, KeysOfIs, KeyIs DEF TypeOK, LogSent
  <2>8. Locals(t)' /\ Adding(t)' /\ Summing(t)' /\ Rating(t)' /\ Editing(t)'
    <3>1. /\ job'[t].op = "UpdateGame" /\ job'[t].next = CallAt(g, 1) /\ job'[t].game = g
          /\ job'[t].i = 1 /\ job'[t].row = NewRow /\ g \in sent'
      BY <1>1, <2>4, <2>6
    <3>2. job'[t].next = "queryPlayer" => job'[t].i \in DOMAIN lines(job'[t].game)
      BY <2>2, <3>1
    <3>3. job'[t].next = "insertGameStat" => \A k \in KeysOf(job'[t].game) : k[2] < job'[t].i
      BY <2>2, <3>1
    <3>4. QED
      BY <2>2, <3>1, <3>2, <3>3, AtALine
  <2>9. Logging(t)'
    BY <1>3, <2>4, <2>6, <2>7 DEF Logging
  <2>10. Distinct'
    <3>1. \A u \in Thread \ {t} : job[u].op = "UpdateGame" => job[u].game \in sent
      BY <1>2 DEF Prepared, Locals
    <3>2. \A u \in Thread \ {t} : job[u].op = "UpdateGame" => job[u].game # g
      BY <3>1
    <3>3. QED
      BY <1>2, <2>4, <2>6, <3>2 DEF Distinct
  <2>11. job'[t].next \notin ClanCalls /\ job[t].next \notin ClanCalls
    BY <1>4, <2>2, <2>4, <2>6 DEF ClanCalls
  <2>12. QED
    BY <1>3, <1>4, <2>4, <2>6, <2>8, <2>9, <2>10, <2>11 DEF Quiet, Prepared
<1>7. QED
  BY <1>5, <1>6

LEMMA NextLineIs ==
  ASSUME NEW j \in Job, j.next \in {"queryPlayer", "updatePlayerStats"},
         j.game \in Game, j.i \in DOMAIN lines(j.game)
  PROVE  /\ NextLine(j) \in Job
         /\ NextLine(j).next \in {"queryPlayer", "insertGameStat"}
         /\ NextLine(j).next = "queryPlayer" => j.i + 1 \in DOMAIN lines(j.game)
         /\ NextLine(j).next = "insertGameStat" => \A k \in KeysOf(j.game) : k[2] < j.i + 1
         /\ NextLine(j).op = j.op /\ NextLine(j).game = j.game /\ NextLine(j).i = j.i + 1
         /\ NextLine(j).added = j.added /\ NextLine(j).barred = j.barred
         /\ NextLine(j).row = NewRow
<1>1. lines(j.game) \in Seq(Line) /\ j.i \in Nat \ {0}
  BY ReportIs, LineIs
<1>2. j.i + 1 \in Nat \ {0} /\ (j.i + 1) - 1 \in 0 .. Len(lines(j.game))
  BY <1>1
<1>3. /\ CallAt(j.game, j.i + 1) \in {"queryPlayer", "insertGameStat"}
      /\ CallAt(j.game, j.i + 1) = "queryPlayer" => j.i + 1 \in DOMAIN lines(j.game)
      /\ CallAt(j.game, j.i + 1) = "insertGameStat" => \A k \in KeysOf(j.game) : k[2] < j.i + 1
  BY <1>2, CallIs
<1>4. NextLine(j) = [j EXCEPT !.i = j.i + 1, !.next = CallAt(j.game, j.i + 1), !.row = NewRow]
  BY DEF NextLine
<1>5. CallAt(j.game, j.i + 1) \in Call
  BY <1>3 DEF Call
<1>6. /\ NextLine(j) \in Job
      /\ NextLine(j).next = CallAt(j.game, j.i + 1)
      /\ NextLine(j).op = j.op /\ NextLine(j).game = j.game /\ NextLine(j).i = j.i + 1
      /\ NextLine(j).added = j.added /\ NextLine(j).barred = j.barred
      /\ NextLine(j).row = NewRow
  BY <1>2, <1>4, <1>5, NewRowRanked DEF Job
<1>7. QED
  BY <1>3, <1>6

\* The loop goes on: the line it leaves is in the statistics, will be disabled,
\* or is of a spoiled row.
LEMMA Advance ==
  ASSUME TypeOK, NEW t \in Thread, Prepared(t),
         job[t].next \in {"queryPlayer", "updatePlayerStats"},
         NEW j \in Job, job' = [job EXCEPT ![t] = NextLine(j)],
         j.op = job[t].op, j.next = job[t].next, j.game = job[t].game, j.i = job[t].i,
         job[t].added \subseteq j.added, j.added \subseteq job[t].added \union {Current(t)},
         job[t].barred \subseteq j.barred,
         Current(t) \in j.added \/ pid(Current(t)) \in j.barred \/ ~ StaysClear(pid(Current(t))),
         games' = games, log' = log, sent \subseteq sent', Noting
  PROVE  /\ job' \in [Thread -> Job] /\ \A u \in Thread \ {t} : job'[u] = job[u]
         /\ Prepared(t)'
         /\ job'[t].op = "UpdateGame" /\ job[t].op = "UpdateGame" /\ job'[t].game = job[t].game
         /\ job'[t].added = j.added /\ job'[t].i = job[t].i + 1
         /\ job'[t].next \in {"queryPlayer", "insertGameStat"}
         /\ Pending(t) \subseteq Pending(t)'
         /\ <<"player", pid(Current(t))>> \in Pending(t)'
<1> DEFINE g == job[t].game
           n == NextLine(j)
<1>1. /\ g \in Game /\ g \in sent /\ job[t].op = "UpdateGame"
      /\ Current(t) \in Key /\ Current(t) \in KeysOf(g)
      /\ Current(t)[1] = g /\ Current(t)[2] = job[t].i
      /\ job[t].i \in Nat \ {0} /\ job[t].i \in DOMAIN lines(g)
  BY ReportingJob DEF Prepared, ReportCalls, Ahead
<1>2. /\ n \in Job
      /\ n.next \in {"queryPlayer", "insertGameStat"}
      /\ n.next = "queryPlayer" => job[t].i + 1 \in DOMAIN lines(g)
      /\ n.next = "insertGameStat" => \A k \in KeysOf(g) : k[2] < job[t].i + 1
      /\ n.op = "UpdateGame" /\ n.game = g /\ n.i = job[t].i + 1
      /\ n.added = j.added /\ n.barred = j.barred /\ n.row = NewRow
  BY <1>1, NextLineIs
<1> HIDE DEF n
<1>3. /\ job'[t] = n /\ job' \in [Thread -> Job]
      /\ \A u \in Thread \ {t} : job'[u] = job[u]
  BY <1>2, Written DEF n
<1>4. Locals(t)' /\ Adding(t)' /\ Summing(t)' /\ Rating(t)' /\ Editing(t)'
  BY <1>1, <1>2, <1>3, AtALine
<1>5. Logging(t)'
  <2>1. /\ g \notin games /\ \A k \in KeysOf(g) : k \notin log
        /\ \A k \in job[t].added : k \in KeysOf(g) /\ k[2] < job[t].i
        /\ \A k \in KeysOf(g) :
             k[2] < job[t].i => k \in job[t].added \/ pid(k) \in job[t].barred \/ ~ Clear(pid(k))
    BY DEF Prepared, Logging, Ahead
  <2>2. \A k \in KeysOf(g) : k[2] < job[t].i + 1 => k[2] < job[t].i \/ k = Current(t)
    BY <1>1, KeysOfIs DEF Current
  <2>3. \A k \in n.added : k \in KeysOf(g) /\ k[2] < job[t].i + 1
    BY <1>1, <1>2, <2>1, KeysOfIs
  <2>4. \A k \in KeysOf(g) :
          k[2] < job[t].i + 1 => k \in n.added \/ pid(k) \in n.barred \/ ~ Clear(pid(k))'
    BY <1>2, <2>1, <2>2 DEF Noting, Clear, StaysClear
  <2>5. QED
    BY <1>2, <1>3, <2>1, <2>3, <2>4 DEF Logging
<1>6. /\ Pending(t) \subseteq Pending(t)'
      /\ <<"player", pid(Current(t))>> \in Pending(t)'
  <2>1. job[t].next # "createLeaderboards" /\ n.next # "createLeaderboards"
    BY <1>2
  <2>2. Pending(t) = {<<"player", p>> : p \in {pid(k) : k \in {x \in KeysOf(g) : x[2] < job[t].i}}}
    BY <1>1, <2>1 DEF Pending, At
  <2>3. Pending(t)' =
          {<<"player", p>> : p \in {pid(k) : k \in {x \in KeysOf(g) : x[2] < job[t].i + 1}}}
    BY <1>2, <1>3, <2>1 DEF Pending, At
  <2>4. \A x \in KeysOf(g) : x[2] < job[t].i => x[2] < job[t].i + 1
    BY <1>1, KeysOfIs
  <2>5. Current(t)[2] < job[t].i + 1
    BY <1>1
  <2>6. QED
    BY <1>1, <2>2, <2>3, <2>4, <2>5
<1>7. QED
  BY <1>1, <1>2, <1>3, <1>4, <1>5, <1>6 DEF Prepared

\* A line that changes no row.
LEMMA AdvanceQuietly ==
  ASSUME IInv, Noting, NEW t \in Thread,
         job[t].next \in {"queryPlayer", "updatePlayerStats"},
         NEW j \in Job, job' = [job EXCEPT ![t] = NextLine(j)],
         j.op = job[t].op, j.next = job[t].next, j.game = job[t].game, j.i = job[t].i,
         j.added = job[t].added, job[t].barred \subseteq j.barred,
         pid(Current(t)) \in j.barred \/ ~ StaysClear(pid(Current(t))),
         UNCHANGED <<tables, sent, late>>
  PROVE  Quiet(t)
<1>1. TypeOK /\ Distinct /\ Prepared(t)
  BY IInvParts
<1>2. /\ UNCHANGED <<restricted, stats, games, log, disabled, clans, boards>>
      /\ late \subseteq late' /\ late' \subseteq Board \X Subject
      /\ sent' = sent /\ sent \subseteq Game
  BY <1>1 DEF tables, TypeOK
<1>3. /\ job' \in [Thread -> Job] /\ \A u \in Thread \ {t} : job'[u] = job[u]
      /\ Prepared(t)'
      /\ job'[t].op = "UpdateGame" /\ job[t].op = "UpdateGame" /\ job'[t].game = job[t].game
      /\ job'[t].added = j.added
      /\ job'[t].next \in {"queryPlayer", "insertGameStat"}
      /\ Pending(t) \subseteq Pending(t)'
  BY <1>1, <1>2, Advance
<1>4. Distinct'
  BY <1>1, <1>3, DistinctKept
<1>5. job[t].next \notin ClanCalls /\ job'[t].next \notin ClanCalls
  BY <1>3 DEF ClanCalls
<1>6. QED
  BY <1>2, <1>3, <1>4, <1>5 DEF Quiet

\* The row of a line is ready to be written.
LEMMA ReadRow ==
  ASSUME IInv, Noting, NEW t \in Thread, At(t, "queryPlayer"), NEW r \in Row, IsRanked(r),
         job' = [job EXCEPT ![t].row = r, ![t].next = "updatePlayerStats"],
         \/ ~ StaysClear(pid(Current(t)))
         \/ r.games = [stats[pid(Current(t))].games EXCEPT ![Current(t)] = @ + 1],
         UNCHANGED <<tables, sent, late>>
  PROVE  Quiet(t)
<1> DEFINE g == job[t].game
           p == pid(Current(t))
           j == [job[t] EXCEPT !.row = r, !.next = "updatePlayerStats"]
<1>1. TypeOK /\ Distinct /\ StatsMatchLog /\ \A u \in Thread : Prepared(u)
  BY IInvParts
<1>2. /\ UNCHANGED <<restricted, stats, games, log, disabled, clans, boards>>
      /\ late \subseteq late' /\ late' \subseteq Board \X Subject
      /\ sent' = sent /\ sent \subseteq Game
  BY <1>1 DEF tables, TypeOK
<1>3. /\ g \in Game /\ g \in sent /\ job[t].op = "UpdateGame" /\ job[t].next = "queryPlayer"
      /\ Current(t) \in Key /\ Current(t) \in KeysOf(g)
      /\ Current(t)[1] = g /\ Current(t)[2] = job[t].i
      /\ job[t].i \in Nat \ {0} /\ job[t].i \in DOMAIN lines(g) /\ p \in Player
  BY <1>1, ReportingJob DEF Prepared, ReportCalls, Ahead, At
<1>4. /\ j \in Job /\ j.row = r /\ j.next = "updatePlayerStats"
      /\ j.op = job[t].op /\ j.game = g /\ j.i = job[t].i /\ j.added = job[t].added
      /\ j.barred = job[t].barred
  <2>1. job[t] \in Job /\ "updatePlayerStats" \in Call
    BY <1>1, JobIs DEF Call
  <2>2. QED
    BY <2>1 DEF Job
<1>5. job' = [job EXCEPT ![t] = j]
  BY <1>1 DEF TypeOK
<1> HIDE DEF j
<1>6. job'[t] = j /\ job' \in [Thread -> Job] /\ \A u \in Thread \ {t} : job'[u] = job[u]
  BY <1>1, <1>4, <1>5, Written
<1>7. Locals(t)'
  BY <1>1, <1>2, <1>3, <1>4, <1>6 DEF Prepared, Locals, At, ReportCalls, Ahead, ClanCalls, IsRanked
<1>8. Logging(t)'
  <2>1. Logging(t) /\ job[t].next \in Ahead
    BY <1>1, <1>3 DEF Prepared, Ahead
  <2>2. \A q : Clear(q)' => Clear(q)
    BY DEF Noting, Clear
  <2>3. QED
    BY <1>2, <1>4, <1>6, <2>1, <2>2 DEF Logging
<1>9. Adding(t)'
  <2>1. Current(t)' = Current(t)
    BY <1>4, <1>6 DEF Current
  <2>2. CASE ~ StaysClear(p)
    BY <2>1, <2>2 DEF Adding, Clear, StaysClear
  <2>3. CASE StaysClear(p) /\ r.games = [stats[p].games EXCEPT ![Current(t)] = @ + 1]
    <3>1. Current(t) \notin log
      BY <1>1, <1>3 DEF Prepared, Logging, Ahead
    <3>2. ~ InFlight(Current(t))
      <4>1. SUFFICES ASSUME NEW u \in Thread, Current(t) \in job[u].added PROVE FALSE
        BY DEF InFlight
      <4>2. job[u].next \in Ahead /\ job[u].next \in ReportCalls
        BY <1>1, <4>1 DEF Prepared, Locals, ReportCalls
      <4>3. Current(t) \in KeysOf(job[u].game) /\ Current(t)[2] < job[u].i
        BY <1>1, <4>1, <4>2 DEF Prepared, Logging
      <4>4. job[u].game = g /\ job[u].op = "UpdateGame"
        BY <1>1, <1>3, <4>2, <4>3 DEF KeysOf, Prepared, Locals
      <4>5. u = t
        BY <1>1, <1>3, <4>4 DEF Distinct
      <4>6. QED
        BY <1>3, <4>3, <4>5
    <3>3. Clear(p)
      BY <2>3 DEF Noting, Clear, StaysClear
    <3>4. stats[p].games[Current(t)] = 0
      BY <1>1, <1>3, <3>1, <3>2, <3>3 DEF StatsMatchLog, Clear
    <3>5. stats[p].games \in [Key -> Nat]
      BY <1>1, <1>3 DEF TypeOK, Row
    <3>6. \A k \in Key : r.games[k] = IF k = Current(t) THEN 1 ELSE stats[p].games[k]
      BY <1>3, <2>3, <3>4, <3>5
    <3>7. QED
      BY <1>2, <1>4, <1>6, <2>1, <3>6 DEF Adding
  <2>4. QED
    BY <2>2, <2>3
<1>10. Summing(t)' /\ Rating(t)' /\ Editing(t)'
  BY <1>4, <1>6 DEF Summing, Rating, Editing, At, ClanCalls
<1>11. Distinct'
  BY <1>1, <1>4, <1>6, DistinctKept
<1>12. Pending(t)' = Pending(t)
  BY <1>3, <1>4, <1>6 DEF Pending, At
<1>13. job[t].next \notin ClanCalls /\ job'[t].next \notin ClanCalls
  BY <1>3, <1>4, <1>6 DEF ClanCalls
<1>14. QED
  BY <1>2, <1>4, <1>6, <1>7, <1>8, <1>9, <1>10, <1>11, <1>12, <1>13 DEF Quiet, Prepared

LEMMA PlayerQueried ==
  ASSUME IInv, Noting, NEW t \in Thread, QueryPlayer(t)
  PROVE  Quiet(t)
<1> DEFINE p == pid(Current(t))
           j == [job[t] EXCEPT !.barred = @ \union {p}]
<1>1. TypeOK /\ Prepared(t)
  BY IInvParts
<1>2. /\ At(t, "queryPlayer") /\ job[t].next = "queryPlayer"
      /\ UNCHANGED <<tables, sent, late>>
  BY DEF QueryPlayer, At
<1>3. Current(t) \in Key /\ p \in Player /\ lineAt(Current(t)) \in Line
  BY <1>1, <1>2, ReportingJob DEF Prepared, ReportCalls, Ahead
<1>4. CASE p \in restricted
  <2>1. job' = [job EXCEPT ![t] = NextLine([job[t] EXCEPT !.barred = @ \union {p}])]
    BY <1>4 DEF QueryPlayer
  <2>2. /\ j \in Job /\ j.barred = job[t].barred \union {p}
        /\ j.op = job[t].op /\ j.next = job[t].next /\ j.game = job[t].game
        /\ j.i = job[t].i /\ j.added = job[t].added
    BY <1>1, <1>3, JobIs DEF Job
  <2>3. job' = [job EXCEPT ![t] = NextLine(j)]
    BY <2>1
  <2> HIDE DEF j
  <2>4. QED
    BY <1>2, <2>2, <2>3, AdvanceQuietly
<1>5. CASE p \notin restricted
  <2>1. PICK r \in Update(Load(stats[p]), Current(t), lineAt(Current(t))) :
          job' = [job EXCEPT ![t].row = r, ![t].next = "updatePlayerStats"]
    BY <1>5 DEF QueryPlayer
  <2>2. stats[p] \in Row
    BY <1>1, <1>3 DEF TypeOK
  <2>3. Load(stats[p]) \in Row /\ IsRanked(Load(stats[p])) /\ Load(stats[p]).games = stats[p].games
    BY <2>2, LoadedRow
  <2>4. r \in Row /\ IsRanked(r) /\ r.games = [stats[p].games EXCEPT ![Current(t)] = @ + 1]
    BY <1>3, <2>1, <2>3, UpdatedRow
  <2>5. QED
    BY <1>2, <2>1, <2>4, ReadRow
<1>6. QED
  BY <1>4, <1>5

LEMMA PlayerQueryFailed ==
  ASSUME IInv, Noting, NEW t \in Thread, QueryPlayerFails(t), Concerned(t) \subseteq noted'
  PROVE  Quiet(t)
<1>1. TypeOK /\ Prepared(t)
  BY IInvParts
<1>2. /\ At(t, "queryPlayer") /\ job[t].next = "queryPlayer"
      /\ UNCHANGED <<tables, sent, late>>
  BY DEF QueryPlayerFails, At
<1>3. Current(t) \in Key /\ lineAt(Current(t)) \in Line
  BY <1>1, <1>2, ReportingJob DEF Prepared, ReportCalls, Ahead
<1>4. PICK r \in Update(NewRow, Current(t), lineAt(Current(t))) :
        job' = [job EXCEPT ![t].row = r, ![t].next = "updatePlayerStats"]
  BY DEF QueryPlayerFails
<1>5. r \in Row /\ IsRanked(r)
  BY <1>3, <1>4, NewRowRanked, UpdatedRow
<1>6. ~ StaysClear(pid(Current(t)))
  <2>1. Concerned(t) = {<<"player", pid(Current(t))>>}
    BY <1>2 DEF Concerned, At
  <2>2. <<"player", pid(Current(t))>> \in noted'
    BY <2>1
  <2>3. QED
    BY <2>2 DEF StaysClear
<1>7. QED
  BY <1>2, <1>4, <1>5, <1>6, ReadRow

LEMMA PlayerWriteFailed ==
  ASSUME IInv, Noting, NEW t \in Thread, WritePlayerFails(t), Concerned(t) \subseteq noted'
  PROVE  Quiet(t)
<1>1. TypeOK
  BY IInvParts
<1>2. /\ At(t, "updatePlayerStats") /\ job[t].next = "updatePlayerStats"
      /\ UNCHANGED <<tables, sent, late>>
  BY DEF WritePlayerFails, At
<1>3. ~ StaysClear(pid(Current(t)))
  <2>1. Concerned(t) = {<<"player", pid(Current(t))>>}
    BY <1>2 DEF Concerned, At
  <2>2. <<"player", pid(Current(t))>> \in noted'
    BY <2>1
  <2>3. QED
    BY <2>2 DEF StaysClear
<1>4. job[t] \in Job /\ job' = [job EXCEPT ![t] = NextLine(job[t])]
  BY <1>1, JobIs DEF WritePlayerFails, TypeOK
<1>5. QED
  BY <1>2, <1>3, <1>4, AdvanceQuietly

-----------------------------------------------------------------------------
(***************************************************************************)
(* Steps of a thread that is, or comes, to the clans.                      *)
(***************************************************************************)
\* A failed call spoils both clans of its report.
LEMMA ClansConcerned ==
  ASSUME TypeOK, NEW t \in Thread, Locals(t), job[t].next \in ClanCalls,
         Concerned(t) \subseteq noted'
  PROVE  \A s \in {1, 2} : ~ StaysPlain(team(job[t].game, s))
<1>1. Concerned(t) = {<<"clan", team(job[t].game, 1)>>, <<"clan", team(job[t].game, 2)>>}
  BY DEF Concerned, ClanCalls, At
<1>2. QED
  BY <1>1 DEF StaysPlain

\* The rows of the clans are read and changed.
LEMMA ClansRead ==
  ASSUME IInv, Noting, NEW t \in Thread, At(t, "queryClans"),
         NEW R \in [{1, 2} -> ClanRow],
         job' = [job EXCEPT ![t].rows = R, ![t].next = "updateClans"],
         \A s \in {1, 2} : StaysPlain(team(job[t].game, s)) =>
           /\ R[s].info = clans[team(job[t].game, s)].info
           /\ Held(R[s]) = Held(clans[team(job[t].game, s)]) \union Results(job[t].game, s),
         UNCHANGED <<tables, sent, late>>
  PROVE  Quiet(t)
<1> DEFINE g == job[t].game
           j == [job[t] EXCEPT !.rows = R, !.next = "updateClans"]
<1>1. TypeOK /\ Distinct /\ Prepared(t)
  BY IInvParts
<1>2. /\ UNCHANGED <<restricted, stats, games, log, disabled, clans, boards>>
      /\ late \subseteq late' /\ late' \subseteq Board \X Subject
      /\ sent' = sent /\ sent \subseteq Game
  BY <1>1 DEF tables, TypeOK
<1>3. /\ job[t].next = "queryClans" /\ job[t].next \in ClanCalls /\ job[t].op = "UpdateGame"
      /\ g \in sent /\ ClanGame(g) /\ job[t].added = {} /\ IsRanked(job[t].row)
  BY <1>1 DEF Prepared, Locals, At, ClanCalls, ReportCalls, Ahead
<1>4. /\ j \in Job /\ j.rows = R /\ j.next = "updateClans" /\ j.row = job[t].row
      /\ j.op = job[t].op /\ j.game = g /\ j.i = job[t].i /\ j.added = job[t].added
  <2>1. job[t] \in Job /\ "updateClans" \in Call
    BY <1>1, JobIs DEF Call
  <2>2. QED
    BY <2>1 DEF Job
<1>5. job' = [job EXCEPT ![t] = j]
  BY <1>1 DEF TypeOK
<1> HIDE DEF j
<1>6. job'[t] = j /\ job' \in [Thread -> Job] /\ \A u \in Thread \ {t} : job'[u] = job[u]
  BY <1>1, <1>4, <1>5, Written
<1>7. Locals(t)'
  BY <1>2, <1>3, <1>4, <1>6 DEF Locals, At, ReportCalls, Ahead, ClanCalls, IsRanked
<1>8. Logging(t)' /\ Adding(t)' /\ Summing(t)' /\ Editing(t)'
  BY <1>4, <1>6 DEF Logging, Adding, Summing, Editing, At, Ahead
<1>9. Rating(t)'
  <2>1. \A s \in {1, 2} : StaysPlain(team(g, s)) => g \in games
    BY <1>1, <1>3 DEF Prepared, Rating, Plain, StaysPlain, Noting
  <2>2. QED
    BY <1>2, <1>4, <1>6, <2>1 DEF Rating, At, Plain, StaysPlain
<1>10. Distinct'
  BY <1>1, <1>4, <1>6, DistinctKept
<1>11. Pending(t)' = Pending(t)
  BY <1>3, <1>4, <1>6 DEF Pending, At
<1>12. job'[t].next \in ClanCalls /\ job'[t].game = g /\ job'[t].added = job[t].added
  BY <1>4, <1>6 DEF ClanCalls
<1>13. QED
  BY <1>2, <1>3, <1>6, <1>7, <1>8, <1>9, <1>10, <1>11, <1>12 DEF Quiet, Prepared

LEMMA ClansQueried ==
  ASSUME IInv, Noting, NEW t \in Thread, QueryClans(t)
  PROVE  Quiet(t)
<1> DEFINE g == job[t].game
           q == queryClansByClanId(g)
           R == RatedRows(g, q)
<1>1. TypeOK /\ Prepared(t)
  BY IInvParts
<1>2. /\ At(t, "queryClans") /\ UNCHANGED <<tables, sent, late>>
      /\ job' = [job EXCEPT ![t].rows = R, ![t].next = "updateClans"]
  BY DEF QueryClans
<1>3. /\ g \in Game /\ team(g, 1) \in Clan /\ team(g, 2) \in Clan
  BY <1>1, <1>2, ClanTeams DEF Prepared, At, ClanCalls
<1>4. /\ q \in [{1, 2} -> ClanRow]
      /\ q[1] = clans[team(g, 1)]
      /\ team(g, 1) # team(g, 2) => q[2] = clans[team(g, 2)]
  BY <1>1, <1>3, NewClanIs DEF queryClansByClanId, TypeOK
<1>5. team(g, 1) = team(g, 2) => ~ StaysPlain(team(g, 1))
  <2>1. job'[t].next = "updateClans" /\ job'[t].game = g
    BY <1>1, <1>2, JobIs DEF TypeOK, Job
  <2>2. team(g, 1) = team(g, 2) => team(g, 1) \in ClanRaces'
    BY <1>3, <2>1 DEF ClanRaces, At
  <2>3. team(g, 1) = team(g, 2) => <<"clan", team(g, 1)>> \in Races'
    BY <2>2 DEF Races
  <2>4. QED
    BY <2>3 DEF Noting, StaysPlain
<1> HIDE DEF q
<1>6. /\ R \in [{1, 2} -> ClanRow]
      /\ \A s \in {1, 2} : R[s].info = q[s].info /\ Held(R[s]) = Held(q[s]) \union Results(g, s)
  BY <1>3, <1>4, RatedRowsAre
<1> HIDE DEF R
<1>7. \A s \in {1, 2} : StaysPlain(team(g, s)) => q[s] = clans[team(g, s)]
  BY <1>4, <1>5
<1>8. \A s \in {1, 2} : StaysPlain(team(g, s)) =>
        /\ R[s].info = clans[team(g, s)].info
        /\ Held(R[s]) = Held(clans[team(g, s)]) \union Results(g, s)
  BY <1>6, <1>7
<1>9. QED
  BY <1>2, <1>6, <1>8, ClansRead

LEMMA ClansQueryFailed ==
  ASSUME IInv, Noting, NEW t \in Thread, QueryClansFails(t), Concerned(t) \subseteq noted'
  PROVE  Quiet(t)
<1> DEFINE g == job[t].game
           q == [s \in {1, 2} |-> NewClan]
           R == RatedRows(g, q)
<1>1. TypeOK /\ Prepared(t)
  BY IInvParts
<1>2. /\ At(t, "queryClans") /\ UNCHANGED <<tables, sent, late>>
      /\ job' = [job EXCEPT ![t].rows = R, ![t].next = "updateClans"]
      /\ job[t].next \in ClanCalls
  BY DEF QueryClansFails, At, ClanCalls
<1>3. g \in Game
  BY <1>1, <1>2, ClanTeams DEF Prepared
<1>4. q \in [{1, 2} -> ClanRow]
  BY NewClanIs
<1> HIDE DEF q
<1>5. R \in [{1, 2} -> ClanRow]
  BY <1>3, <1>4, RatedRowsAre
<1> HIDE DEF R
<1>6. \A s \in {1, 2} : ~ StaysPlain(team(g, s))
  BY <1>1, <1>2, ClansConcerned DEF Prepared
<1>7. QED
  BY <1>2, <1>5, <1>6, ClansRead

LEMMA LastCall ==
  ASSUME TypeOK, NEW t \in Thread, Prepared(t), job[t].op = "UpdateGame",
         job[t].next \in ClanCalls, Go(t, "createLeaderboards"), sent' = sent
  PROVE  /\ job' \in [Thread -> Job] /\ \A u \in Thread \ {t} : job'[u] = job[u]
         /\ Prepared(t)'
         /\ job'[t].op = "UpdateGame" /\ job'[t].game = job[t].game
         /\ job'[t].next = "createLeaderboards"
         /\ job[t].added = {} /\ job'[t].added = {}
         /\ Pending(t)' = Pending(t) \union
              {<<"clan", c>> : c \in Clan \intersect {team(job[t].game, 1), team(job[t].game, 2)}}
<1> DEFINE j == [job[t] EXCEPT !.next = "createLeaderboards"]
<1>1. /\ job[t].game \in sent /\ job[t].added = {} /\ IsRanked(job[t].row)
      /\ job[t].next # "createLeaderboards"
  BY DEF Prepared, Locals, ReportCalls, Ahead, ClanCalls
<1>2. /\ j \in Job /\ j.next = "createLeaderboards" /\ j.op = job[t].op /\ j.game = job[t].game
      /\ j.i = job[t].i /\ j.added = {} /\ j.row = job[t].row
  <2>1. job[t] \in Job /\ "createLeaderboards" \in Call
    BY <1>1, JobIs DEF Call
  <2>2. QED
    BY <1>1, <2>1 DEF Job
<1>3. job' = [job EXCEPT ![t] = j]
  BY DEF TypeOK, Go
<1> HIDE DEF j
<1>4. job'[t] = j /\ job' \in [Thread -> Job] /\ \A u \in Thread \ {t} : job'[u] = job[u]
  BY <1>2, <1>3, Written
<1>5. Locals(t)'
  BY <1>1, <1>2, <1>4 DEF Locals, At, ReportCalls, Ahead, ClanCalls, IsRanked
<1>6. Logging(t)' /\ Adding(t)' /\ Summing(t)' /\ Rating(t)' /\ Editing(t)'
  BY <1>2, <1>4 DEF Logging, Adding, Summing, Rating, Editing, At, Ahead, ClanCalls
<1>7. Pending(t)' = Pending(t) \union
        {<<"clan", c>> : c \in Clan \intersect {team(job[t].game, 1), team(job[t].game, 2)}}
  BY <1>1, <1>2, <1>4 DEF Pending, At
<1>8. QED
  BY <1>1, <1>2, <1>4, <1>5, <1>6, <1>7 DEF Prepared

LEMMA ClansWriteFailed ==
  ASSUME IInv, Noting, NEW t \in Thread, WriteClansFails(t), Concerned(t) \subseteq noted'
  PROVE  Quiet(t)
<1>1. TypeOK /\ Distinct /\ Prepared(t)
  BY IInvParts
<1>2. /\ job[t].next \in ClanCalls /\ Go(t, "createLeaderboards")
      /\ UNCHANGED <<tables, sent, late>>
  BY DEF WriteClansFails, At, ClanCalls
<1>3. /\ UNCHANGED <<restricted, stats, games, log, disabled, clans, boards>>
      /\ late \subseteq late' /\ late' \subseteq Board \X Subject
      /\ sent' = sent /\ sent \subseteq Game
  BY <1>1, <1>2 DEF tables, TypeOK
<1>4. job[t].op = "UpdateGame"
  BY <1>1, <1>2 DEF Prepared, Locals, ReportCalls
<1>5. /\ job' \in [Thread -> Job] /\ \A u \in Thread \ {t} : job'[u] = job[u]
      /\ Prepared(t)'
      /\ job'[t].op = "UpdateGame" /\ job'[t].game = job[t].game
      /\ job[t].added = {} /\ job'[t].added = {}
      /\ Pending(t) \subseteq Pending(t)'
  BY <1>1, <1>2, <1>3, <1>4, LastCall
<1>6. Distinct'
  BY <1>1, <1>4, <1>5, DistinctKept
<1>7. \A s \in {1, 2} : ~ StaysPlain(team(job[t].game, s))
  BY <1>1, <1>2, ClansConcerned DEF Prepared
<1>8. \A c \in Clan, g \in Game :
        Plain(c)' /\ c \in {team(g, 1), team(g, 2)} => job[t].game # g
  BY <1>7 DEF Plain, StaysPlain
<1>9. QED
  BY <1>3, <1>5, <1>6, <1>8 DEF Quiet

-----------------------------------------------------------------------------
(***************************************************************************)
(* Recalculations and updates of a page, up to their last call.            *)
(***************************************************************************)
LEMMA Aside ==
  ASSUME IInv, Noting, NEW t \in Thread, job[t].next \notin ReportCalls,
         NEW j \in Job, job' = [job EXCEPT ![t] = j],
         j.next \notin ReportCalls, j.op # "UpdateGame", j.added = {}, IsRanked(j.row),
         j.next \in {"count", "page", "updateRecalc"} => j.player \in Player,
         j.next = "count" => j.read = {} /\ j.offset = 0 /\ j.row = NewRow,
         j.next = "updateClan" => j.clan \in Clan,
         Summing(t)', Editing(t)', UNCHANGED <<tables, sent, late>>
  PROVE  Quiet(t)
<1>1. TypeOK /\ Distinct /\ Locals(t)
  BY IInvParts DEF Prepared
<1>2. /\ UNCHANGED <<restricted, stats, games, log, disabled, clans, boards>>
      /\ late \subseteq late' /\ late' \subseteq Board \X Subject
      /\ sent' = sent /\ sent \subseteq Game
  BY <1>1 DEF tables, TypeOK
<1>3. job'[t] = j /\ job' \in [Thread -> Job] /\ \A u \in Thread \ {t} : job'[u] = job[u]
  BY <1>1, Written
<1>4. /\ job[t].op # "UpdateGame" /\ job[t].added = {} /\ job[t].next \notin ClanCalls
      /\ j.next \notin Ahead /\ j.next \notin ClanCalls
      /\ j.next # "updatePlayerStats" /\ j.next # "insertGameStat"
      /\ j.next # "queryPlayer"
  BY <1>1 DEF Locals, ReportCalls, Ahead
<1>5. Locals(t)'
  BY <1>3, <1>4 DEF Locals, At, IsRanked
<1>6. Logging(t)' /\ Adding(t)' /\ Rating(t)'
  BY <1>3, <1>4 DEF Logging, Adding, Rating, At
<1>7. Distinct'
  BY <1>1, <1>3, DistinctKept
<1>8. Pending(t) = {}
  BY <1>4 DEF Pending
<1>9. QED
  BY <1>2, <1>3, <1>4, <1>5, <1>6, <1>7, <1>8 DEF Quiet, Prepared

LEMMA RecalcStarted ==
  ASSUME IInv, Noting, NEW t \in Thread, Recalc(t)
  PROVE  Quiet(t)
<1>1. PICK p \in Player :
        /\ job[t] = NoJob
        /\ job' = [job EXCEPT ![t] = [NoJob EXCEPT !.op = "Recalc", !.next = "count", !.player = p]]
        /\ UNCHANGED <<tables, sent, late>>
  BY DEF Recalc
<1> DEFINE j == [NoJob EXCEPT !.op = "Recalc", !.next = "count", !.player = p]
<1>2. /\ j \in Job /\ j.op = "Recalc" /\ j.next = "count" /\ j.player = p /\ j.added = {}
      /\ j.row = NewRow /\ j.read = {} /\ j.offset = 0
  BY NoJobIs DEF Job, Op, Call
<1>3. job' = [job EXCEPT ![t] = j]
  BY <1>1
<1> HIDE DEF j
<1>4. job[t].next \notin ReportCalls /\ j.next \notin ReportCalls
  BY <1>1, <1>2, NoJobIs DEF ReportCalls, Ahead, ClanCalls
<1>5. TypeOK
  BY IInvParts
<1>6. job'[t] = j
  BY <1>3, <1>5, Written
<1>7. Summing(t)' /\ Editing(t)'
  BY <1>2, <1>6 DEF Summing, Editing, At
<1>8. QED
  BY <1>1, <1>2, <1>3, <1>4, <1>7, NewRowRanked, Aside

LEMMA RowsOfIs ==
  ASSUME TypeOK, NEW p
  PROVE  /\ RowsOf(p) \subseteq Key /\ IsFiniteSet(RowsOf(p))
         /\ Cardinality(RowsOf(p)) \in Nat
<1>1. RowsOf(p) \subseteq Key
  BY DEF RowsOf, TypeOK
<1>2. IsFiniteSet(RowsOf(p))
  BY <1>1, GameStatsAssumption, FS_Subset
<1>3. QED
  BY <1>1, <1>2, FS_CardinalityType

LEMMA PagesCounted ==
  ASSUME IInv, Noting, NEW t \in Thread, At(t, "count"), NEW n \in Nat,
         job' = [job EXCEPT ![t].total = n, ![t].next = FirstPage(n)],
         n = Cardinality(RowsOf(job[t].player)) \/ ~ StaysClear(job[t].player),
         UNCHANGED <<tables, sent, late>>
  PROVE  Quiet(t)
<1> DEFINE j == [job[t] EXCEPT !.total = n, !.next = FirstPage(n)]
<1>1. TypeOK /\ Locals(t)
  BY IInvParts DEF Prepared
<1>2. /\ job[t].player \in Player /\ job[t].read = {} /\ job[t].offset = 0
      /\ job[t].row = NewRow
      /\ job[t].next \notin ReportCalls /\ job[t].op # "UpdateGame" /\ job[t].added = {}
  BY <1>1 DEF Locals, At, ReportCalls, Ahead, ClanCalls
<1>3. /\ j \in Job /\ j.total = n /\ j.next = FirstPage(n)
      /\ j.player = job[t].player /\ j.read = {} /\ j.offset = 0 /\ j.row = NewRow
      /\ j.op = job[t].op /\ j.added = {}
  <2>1. FirstPage(n) \in Call
    BY DEF Call, FirstPage
  <2>2. job[t] \in Job
    BY <1>1, JobIs
  <2>3. QED
    BY <1>2, <2>1, <2>2 DEF Job
<1>4. job' = [job EXCEPT ![t] = j]
  BY <1>1 DEF TypeOK
<1> HIDE DEF j
<1>5. job'[t] = j
  BY <1>1, <1>4, Written
<1>6. /\ j.next \in {"page", "updateRecalc"}
      /\ j.next = "page" => 0 < n
      /\ j.next = "updateRecalc" => 0 = n
  BY <1>3 DEF FirstPage
<1>7. j.next \notin ReportCalls /\ j.next # "count" /\ j.next # "updateClan"
  BY <1>6 DEF ReportCalls, Ahead, ClanCalls
<1>8. Summing(t)'
  <2>1. SUFFICES ASSUME StaysClear(job[t].player) PROVE Summing(t)'
    BY <1>3, <1>5 DEF Summing, Clear, StaysClear
  <2>2. n = Cardinality(RowsOf(job[t].player))
    BY <2>1
  <2>5. Cardinality({}) = 0
    BY FS_EmptySet
  <2>6. \A k \in Key : j.row.games[k] = 0
    BY <1>3 DEF NewRow
  <2>7. QED
    BY <1>3, <1>5, <1>6, <2>2, <2>5, <2>6 DEF Summing, At, RowsOf, tables
<1>9. Editing(t)'
  BY <1>5, <1>7 DEF Editing, At
<1>10. QED
  BY <1>2, <1>3, <1>4, <1>7, <1>8, <1>9, NewRowRanked, Aside

LEMMA RowsCounted ==
  ASSUME IInv, Noting, NEW t \in Thread, RecalcCount(t)
  PROVE  Quiet(t)
<1> DEFINE n == Cardinality(RowsOf(job[t].player))
<1>1. /\ At(t, "count") /\ UNCHANGED <<tables, sent, late>>
      /\ job' = [job EXCEPT ![t].total = n, ![t].next = FirstPage(n)]
  BY DEF RecalcCount
<1>2. n \in Nat
  BY RowsOfIs, IInvParts
<1>3. n = Cardinality(RowsOf(job[t].player))
  OBVIOUS
<1> HIDE DEF n
<1>4. QED
  BY <1>1, <1>2, <1>3, PagesCounted

\* A failed call of a recalculation spoils its player's row.
LEMMA PlayerConcerned ==
  ASSUME NEW t \in Thread, job[t].next \in {"count", "page"}, Concerned(t) \subseteq noted'
  PROVE  ~ StaysClear(job[t].player)
<1>1. Concerned(t) = {<<"player", job[t].player>>}
  BY DEF Concerned, At
<1>2. <<"player", job[t].player>> \in noted'
  BY <1>1
<1>3. QED
  BY <1>2 DEF StaysClear

LEMMA CountFailed ==
  ASSUME IInv, Noting, NEW t \in Thread, RecalcCountFails(t), Concerned(t) \subseteq noted'
  PROVE  Quiet(t)
<1>1. PICK n \in {0, Cardinality(Key)} :
        job' = [job EXCEPT ![t].total = n, ![t].next = FirstPage(n)]
  BY DEF RecalcCountFails
<1>2. n \in Nat
  BY <1>1, GameStatsAssumption, FS_CardinalityType
<1>3. /\ At(t, "count") /\ job[t].next \in {"count", "page"}
      /\ UNCHANGED <<tables, sent, late>>
  BY DEF RecalcCountFails, At
<1>4. ~ StaysClear(job[t].player)
  BY <1>3, PlayerConcerned
<1>5. QED
  BY <1>1, <1>2, <1>3, <1>4, PagesCounted

LEMMA PageDoneIs ==
  ASSUME NEW j \in Job
  PROVE  /\ PageDone(j) \in Job
         /\ PageDone(j).next \in {"page", "updateRecalc"}
         /\ PageDone(j).next = "page" => j.offset + 1 < j.total
         /\ PageDone(j).next = "updateRecalc" => ~ (j.offset + 1 < j.total)
         /\ PageDone(j).offset = j.offset + 1
         /\ PageDone(j).op = j.op /\ PageDone(j).player = j.player /\ PageDone(j).added = j.added
         /\ PageDone(j).row = j.row /\ PageDone(j).read = j.read /\ PageDone(j).total = j.total
<1> DEFINE n == IF j.offset + 1 < j.total THEN "page" ELSE "updateRecalc"
<1>1. j.offset + 1 \in Nat
  BY DEF Job
<1>2. /\ n \in Call /\ n \in {"page", "updateRecalc"}
      /\ n = "page" => j.offset + 1 < j.total
      /\ n = "updateRecalc" => ~ (j.offset + 1 < j.total)
  BY DEF Call
<1>3. PageDone(j) = [j EXCEPT !.offset = j.offset + 1, !.next = n]
  BY DEF PageDone
<1> HIDE DEF n
<1>4. QED
  BY <1>1, <1>2, <1>3 DEF Job

\* A page is done: a row more has been read, or the player's row is spoiled.
LEMMA PageRead ==
  ASSUME IInv, Noting, NEW t \in Thread, At(t, "page"), NEW j \in Job,
         job' = [job EXCEPT ![t] = PageDone(j)],
         j.op = job[t].op, j.player = job[t].player, j.offset = job[t].offset,
         j.total = job[t].total, j.added = job[t].added, IsRanked(j.row),
         \/ ~ StaysClear(job[t].player)
         \/ \E k \in Unread(t) :
              /\ j.read = job[t].read \union {k}
              /\ \A x \in Key : j.row.games[x] =
                   IF x = k /\ k \notin disabled THEN job[t].row.games[x] + 1
                                                 ELSE job[t].row.games[x],
         UNCHANGED <<tables, sent, late>>
  PROVE  Quiet(t)
<1> DEFINE p == job[t].player
           n == PageDone(j)
<1>1. TypeOK /\ Locals(t) /\ Summing(t)
  BY IInvParts DEF Prepared
<1>2. /\ p \in Player /\ job[t].next = "page"
      /\ job[t].next \notin ReportCalls /\ job[t].op # "UpdateGame" /\ job[t].added = {}
  BY <1>1 DEF Locals, At, ReportCalls, Ahead, ClanCalls
<1>3. /\ n \in Job
      /\ n.next \in {"page", "updateRecalc"}
      /\ n.next = "page" => job[t].offset + 1 < job[t].total
      /\ n.next = "updateRecalc" => ~ (job[t].offset + 1 < job[t].total)
      /\ n.offset = job[t].offset + 1 /\ n.total = job[t].total
      /\ n.op # "UpdateGame" /\ n.player = p /\ n.added = {}
      /\ n.row = j.row /\ n.read = j.read
  BY <1>2, PageDoneIs
<1> HIDE DEF n
<1>4. job'[t] = n
  BY <1>1, Written DEF n
<1>5. n.next \notin ReportCalls /\ n.next # "count" /\ n.next # "updateClan"
  BY <1>3 DEF ReportCalls, Ahead, ClanCalls
<1>6. Summing(t)'
  <2>1. SUFFICES ASSUME StaysClear(p) PROVE Summing(t)'
    BY <1>3, <1>4 DEF Summing, Clear, StaysClear
  <2>2. PICK k \in Unread(t) :
          /\ j.read = job[t].read \union {k}
          /\ \A x \in Key : j.row.games[x] =
               IF x = k /\ k \notin disabled THEN job[t].row.games[x] + 1
                                             ELSE job[t].row.games[x]
    BY <2>1
  <2>3. k \in RowsOf(p) /\ k \notin job[t].read /\ k \in Key
    BY <1>1, RowsOfIs DEF Unread
  <2>4. /\ job[t].read \subseteq RowsOf(p)
        /\ Cardinality(job[t].read) = job[t].offset
        /\ job[t].total = Cardinality(RowsOf(p))
        /\ job[t].offset < job[t].total
        /\ \A x \in Key : job[t].row.games[x] = IF x \in job[t].read \ disabled THEN 1 ELSE 0
    BY <1>1, <1>2, <2>1 DEF Summing, At, Clear, StaysClear, Noting
  <2>5. IsFiniteSet(job[t].read) /\ job[t].offset \in Nat /\ job[t].total \in Nat
    BY <1>1, <2>4, RowsOfIs, FS_Subset, JobIs
  <2>6. Cardinality(j.read) = job[t].offset + 1
    <3> DEFINE S == job[t].read
    <3>1. IsFiniteSet(S) /\ k \notin S
      BY <2>3, <2>5
    <3> HIDE DEF S
    <3>2. Cardinality(S \union {k}) = Cardinality(S) + 1
      BY <3>1, FS_AddElement
    <3>3. QED
      BY <2>2, <2>4, <3>2 DEF S
  <2>7. j.read \subseteq RowsOf(p)
    BY <2>2, <2>3, <2>4
  <2>8. \A x \in Key : j.row.games[x] = IF x \in j.read \ disabled THEN 1 ELSE 0
    BY <2>2, <2>3, <2>4
  <2>9. n.next = "updateRecalc" => job[t].offset + 1 = job[t].total
    BY <1>3, <2>4, <2>5
  <2>10. disabled' = disabled
    BY DEF tables
  <2>11. /\ job'[t].player = p /\ job'[t].offset = job[t].offset + 1
         /\ job'[t].total = job[t].total /\ job'[t].next = n.next
         /\ job'[t].row = j.row /\ job'[t].read = j.read
    BY <1>3, <1>4
  <2>12. RowsOf(p) = {x \in log' : pid(x) = job'[t].player}
    BY <2>11 DEF RowsOf, tables
  <2>13. /\ job'[t].read \subseteq {x \in log' : pid(x) = job'[t].player}
         /\ Cardinality(job'[t].read) = job'[t].offset
         /\ job'[t].total = Cardinality({x \in log' : pid(x) = job'[t].player})
    BY <2>4, <2>6, <2>7, <2>11, <2>12
  <2>14. /\ job'[t].next = "page" => job'[t].offset < job'[t].total
         /\ job'[t].next = "updateRecalc" => job'[t].offset = job'[t].total
    BY <1>3, <2>9, <2>11
  <2>15. \A x \in Key : job'[t].row.games[x] = IF x \in job'[t].read \ disabled' THEN 1 ELSE 0
    BY <2>8, <2>10, <2>11
  <2>16. QED
    BY <2>13, <2>14, <2>15 DEF Summing, At, RowsOf
<1>7. Editing(t)'
  BY <1>4, <1>5 DEF Editing, At
<1>8. QED
  BY <1>2, <1>3, <1>4, <1>5, <1>6, <1>7, Aside DEF n

LEMMA PageQueried ==
  ASSUME IInv, Noting, NEW t \in Thread, RecalcPage(t)
  PROVE  Quiet(t)
<1> DEFINE p == job[t].player
<1>1. TypeOK /\ Locals(t) /\ Summing(t)
  BY IInvParts DEF Prepared
<1>2. /\ At(t, "page") /\ UNCHANGED <<tables, sent, late>>
      /\ job[t] \in Job /\ job[t].row \in Row /\ IsRanked(job[t].row)
      /\ job[t].read \subseteq Key
  BY <1>1, JobIs DEF RecalcPage, Locals
<1>3. CASE Unread(t) = {} /\ job' = [job EXCEPT ![t] = PageDone(job[t])]
  <2>1. ~ StaysClear(p)
    <3>1. SUFFICES ASSUME StaysClear(p) PROVE FALSE
      OBVIOUS
    <3>2. /\ job[t].read \subseteq RowsOf(p)
          /\ Cardinality(job[t].read) = job[t].offset
          /\ job[t].total = Cardinality(RowsOf(p))
          /\ job[t].offset < job[t].total
      BY <1>1, <1>2, <3>1 DEF Summing, At, Clear, StaysClear, Noting
    <3>3. job[t].read = RowsOf(p)
      BY <1>3, <3>2 DEF Unread
    <3>4. Cardinality(RowsOf(p)) \in Nat
      BY <1>1, RowsOfIs
    <3>5. QED
      BY <3>2, <3>3, <3>4
  <2>2. QED
    BY <1>2, <1>3, <2>1, PageRead
<1>4. ASSUME NEW k \in Unread(t), k \in disabled,
             job' = [job EXCEPT ![t] = PageDone([job[t] EXCEPT !.read = @ \union {k}])]
      PROVE  Quiet(t)
  <2> DEFINE j == [job[t] EXCEPT !.read = @ \union {k}]
  <2>1. k \in Key
    BY <1>1, <1>4, RowsOfIs DEF Unread
  <2>2. /\ j \in Job /\ j.read = job[t].read \union {k} /\ j.row = job[t].row
        /\ j.op = job[t].op /\ j.player = job[t].player /\ j.offset = job[t].offset
        /\ j.total = job[t].total /\ j.added = job[t].added
    BY <1>2, <2>1 DEF Job
  <2>3. job' = [job EXCEPT ![t] = PageDone(j)]
    BY <1>4
  <2> HIDE DEF j
  <2>4. QED
    BY <1>2, <1>4, <2>2, <2>3, PageRead
<1>5. ASSUME NEW k \in Unread(t), k \notin disabled,
             NEW r \in Update(job[t].row, k, lineAt(k)),
             job' = [job EXCEPT ![t] = PageDone([job[t] EXCEPT !.read = @ \union {k}, !.row = r])]
      PROVE  Quiet(t)
  <2> DEFINE j == [job[t] EXCEPT !.read = @ \union {k}, !.row = r]
  <2>1. k \in Key /\ lineAt(k) \in Line
    BY <1>1, <1>5, RowsOfIs, KeyIs DEF Unread
  <2>2. r \in Row /\ IsRanked(r) /\ r.games = [job[t].row.games EXCEPT ![k] = @ + 1]
    BY <1>2, <1>5, <2>1, UpdatedRow
  <2>3. /\ j \in Job /\ j.read = job[t].read \union {k} /\ j.row = r
        /\ j.op = job[t].op /\ j.player = job[t].player /\ j.offset = job[t].offset
        /\ j.total = job[t].total /\ j.added = job[t].added
    BY <1>2, <2>1, <2>2 DEF Job
  <2>4. job' = [job EXCEPT ![t] = PageDone(j)]
    BY <1>5
  <2> HIDE DEF j
  <2>5. \A x \in Key : j.row.games[x] =
          IF x = k /\ k \notin disabled THEN job[t].row.games[x] + 1 ELSE job[t].row.games[x]
    <3>1. job[t].row.games \in [Key -> Nat]
      BY <1>2 DEF Row
    <3>2. QED
      BY <1>5, <2>1, <2>2, <2>3, <3>1
  <2>6. IsRanked(j.row)
    BY <2>2, <2>3
  <2>7. QED
    BY <1>2, <1>5, <2>3, <2>4, <2>5, <2>6, PageRead
<1>6. QED
  BY <1>3, <1>4, <1>5 DEF RecalcPage

LEMMA PageQueryFailed ==
  ASSUME IInv, Noting, NEW t \in Thread, RecalcPageFails(t), Concerned(t) \subseteq noted'
  PROVE  Quiet(t)
<1>1. TypeOK /\ Locals(t)
  BY IInvParts DEF Prepared
<1>2. /\ At(t, "page") /\ job[t].next \in {"count", "page"} /\ UNCHANGED <<tables, sent, late>>
      /\ job' = [job EXCEPT ![t] = PageDone(job[t])]
  BY DEF RecalcPageFails, At
<1>3. job[t] \in Job /\ IsRanked(job[t].row)
  BY <1>1, JobIs DEF Locals
<1>4. ~ StaysClear(job[t].player)
  BY <1>2, PlayerConcerned
<1>5. QED
  BY <1>2, <1>3, <1>4, PageRead

\* The last call of such a handler has failed.
LEMMA Dropped ==
  ASSUME IInv, Noting, NEW t \in Thread, job[t].next \notin ReportCalls, Finish(t),
         UNCHANGED <<tables, sent, late>>
  PROVE  Quiet(t)
<1>1. /\ NoJob \in Job /\ NoJob.next = "none" /\ NoJob.op # "UpdateGame" /\ NoJob.added = {}
      /\ NoJob.row = NewRow /\ NoJob.next \notin ReportCalls
  BY NoJobIs DEF ReportCalls, Ahead, ClanCalls
<1>2. TypeOK /\ job' = [job EXCEPT ![t] = NoJob]
  BY IInvParts DEF Finish
<1>3. job'[t] = NoJob
  BY <1>2, Written
<1>4. Summing(t)' /\ Editing(t)'
  BY <1>1, <1>3 DEF Summing, Editing, At
<1>5. IsRanked(NoJob.row)
  BY <1>1, NewRowRanked
<1>6. QED
  BY <1>1, <1>2, <1>4, <1>5, Aside

LEMMA AnswersFailed ==
  ASSUME IInv, Noting, NEW t \in Thread, RecalcWriteFails(t) \/ UpdateClanWriteFails(t)
  PROVE  Quiet(t)
<1>1. job[t].next \notin ReportCalls
  BY DEF RecalcWriteFails, UpdateClanWriteFails, At, ReportCalls, Ahead, ClanCalls
<1>2. QED
  BY <1>1, Dropped DEF RecalcWriteFails, UpdateClanWriteFails

LEMMA PageUpdateStarted ==
  ASSUME IInv, Noting, NEW t \in Thread, UpdateClan(t)
  PROVE  Quiet(t)
<1>1. PICK c \in Clan, i \in Info :
        /\ job[t] = NoJob
        /\ job' = [job EXCEPT ![t] = [NoJob EXCEPT !.op = "UpdateClan", !.next = "updateClan",
                                      !.clan = c, !.page = [clans[c] EXCEPT !.info = i]]]
        /\ UNCHANGED <<tables, sent, late>>
  BY DEF UpdateClan
<1> DEFINE page == [clans[c] EXCEPT !.info = i]
           j == [NoJob EXCEPT !.op = "UpdateClan", !.next = "updateClan", !.clan = c, !.page = page]
<1>2. TypeOK
  BY IInvParts
<1>3. page \in ClanRow /\ Held(page) = Held(clans[c])
  BY <1>2 DEF TypeOK, ClanRow, Held
<1>4. job' = [job EXCEPT ![t] = j]
  BY <1>1
<1> HIDE DEF page
<1>5. /\ j \in Job /\ j.op = "UpdateClan" /\ j.next = "updateClan" /\ j.added = {}
      /\ j.clan = c /\ j.page = page /\ j.row = NewRow
  BY <1>3, NoJobIs DEF Job, Op, Call
<1> HIDE DEF j
<1>6. job[t].next \notin ReportCalls /\ j.next \notin ReportCalls
  BY <1>1, <1>5, NoJobIs DEF ReportCalls, Ahead, ClanCalls
<1>7. job'[t] = j /\ clans' = clans
  BY <1>1, <1>2, <1>4, Written DEF tables
<1>8. Summing(t)' /\ Editing(t)'
  BY <1>3, <1>5, <1>7 DEF Summing, Editing, At
<1>9. QED
  BY <1>1, <1>4, <1>5, <1>6, <1>8, NewRowRanked, Aside

\* The read of a page fails: its row, which the page will be written over, is noted.
LEMMA PageReadFailed ==
  ASSUME IInv, Noting, NEW t \in Thread, UpdateClanReadFails(t),
         <<"clan", job'[t].clan>> \in noted'
  PROVE  Quiet(t)
<1>1. PICK c \in Clan, i \in Info :
        /\ job[t] = NoJob
        /\ job' = [job EXCEPT ![t] = [NoJob EXCEPT !.op = "UpdateClan", !.next = "updateClan",
                                      !.clan = c, !.page = [NewClan EXCEPT !.info = i]]]
        /\ UNCHANGED <<tables, sent, late>>
  BY DEF UpdateClanReadFails
<1> DEFINE page == [NewClan EXCEPT !.info = i]
           j == [NoJob EXCEPT !.op = "UpdateClan", !.next = "updateClan", !.clan = c, !.page = page]
<1>2. TypeOK
  BY IInvParts
<1>3. page \in ClanRow
  BY NewClanIs DEF ClanRow
<1>4. job' = [job EXCEPT ![t] = j]
  BY <1>1
<1> HIDE DEF page
<1>5. /\ j \in Job /\ j.op = "UpdateClan" /\ j.next = "updateClan" /\ j.added = {}
      /\ j.clan = c /\ j.row = NewRow
  BY <1>3, NoJobIs DEF Job, Op, Call
<1> HIDE DEF j
<1>6. job[t].next \notin ReportCalls /\ j.next \notin ReportCalls
  BY <1>1, <1>5, NoJobIs DEF ReportCalls, Ahead, ClanCalls
<1>7. job'[t] = j
  BY <1>1, <1>2, <1>4, Written
<1>8. Summing(t)' /\ Editing(t)'
  BY <1>5, <1>7 DEF Summing, Editing, Plain, At
<1>9. QED
  BY <1>1, <1>4, <1>5, <1>6, <1>8, NewRowRanked, Aside

-----------------------------------------------------------------------------
(***************************************************************************)
(* Steps that write a table.                                               *)
(***************************************************************************)
LEMMA PlayerRaceNoted ==
  ASSUME IInv, Noting, NEW p \in PlayerRaces
  PROVE  ~ StaysClear(p)
<1>1. <<"player", p>> \in Races
  BY DEF Races
<1>2. QED
  BY <1>1 DEF IInv, RacesNoted, Noting, StaysClear

LEMMA ClanRaceNoted ==
  ASSUME IInv, Noting, NEW c \in ClanRaces
  PROVE  ~ StaysPlain(c)
<1>1. <<"clan", c>> \in Races
  BY DEF Races
<1>2. QED
  BY <1>1 DEF IInv, RacesNoted, Noting, StaysPlain

LEMMA StatsKept ==
  ASSUME StatsMatchLog, Noting, NEW t \in Thread, \A u \in Thread \ {t} : job'[u] = job[u],
         job'[t].added = job[t].added, UNCHANGED <<stats, log, disabled>>
  PROVE  StatsMatchLog'
<1>1. \A k \in Key : InFlight(k)' <=> InFlight(k)
  BY DEF InFlight
<1>2. QED
  BY <1>1 DEF StatsMatchLog, Noting

LEMMA RecordKept ==
  ASSUME ClanRecordMatchesLog, Noting, NEW t \in Thread,
         \A u \in Thread \ {t} : job'[u] = job[u],
         job'[t].next \notin ClanCalls, job[t].next \notin ClanCalls,
         UNCHANGED <<clans, games>>
  PROVE  ClanRecordMatchesLog'
<1>1. SUFFICES ASSUME NEW g \in Game, NEW s \in {1, 2},
                      team(g, s) \in Clan, victory(g, s) \in Lost .. Draw,
                      <<"clan", team(g, s)>> \notin noted'
               PROVE  OnRecord(team(g, s), <<g, s>>)' <=>
                        /\ g \in games' /\ ClanGame(g)
                        /\ ~ \E u \in Thread : job'[u].game = g /\ job'[u].next \in ClanCalls
  BY DEF ClanRecordMatchesLog, ClanCalls
<1>2. (\E u \in Thread : job'[u].game = g /\ job'[u].next \in ClanCalls)
        <=> (\E u \in Thread : job[u].game = g /\ job[u].next \in ClanCalls)
  OBVIOUS
<1>3. OnRecord(team(g, s), <<g, s>>)' <=> OnRecord(team(g, s), <<g, s>>)
  BY DEF OnRecord
<1>4. <<"clan", team(g, s)>> \notin noted
  BY <1>1 DEF Noting
<1>5. QED
  BY <1>1, <1>2, <1>3, <1>4 DEF ClanRecordMatchesLog, ClanCalls

\* A line is added to the statistics: nobody else holds the player's row.
LEMMA PlayerWritten ==
  ASSUME IInv, Noting, NEW t \in Thread, WritePlayer(t)
  PROVE  IInv'
<1> DEFINE p == pid(Current(t))
           g == job[t].game
           j == [job[t] EXCEPT !.added = @ \union {Current(t)}]
<1>1. /\ TypeOK /\ \A u \in Thread : Prepared(u)
      /\ Distinct /\ LogSent /\ RowsRanked
      /\ StatsMatchLog /\ ClanRecordMatchesLog /\ BoardsFresh
  BY IInvParts
<1>2. /\ job[t].next = "updatePlayerStats" /\ At(t, "updatePlayerStats")
      /\ stats' = [stats EXCEPT ![p] = job[t].row]
      /\ job' = [job EXCEPT ![t] = NextLine([job[t] EXCEPT !.added = @ \union {Current(t)}])]
      /\ UNCHANGED <<restricted, games, log, disabled, clans, boards, sent, late>>
  BY DEF WritePlayer, At
<1>3. /\ Current(t) \in Key /\ p \in Player
      /\ job[t].row \in Row /\ IsRanked(job[t].row) /\ job[t] \in Job
  BY <1>1, <1>2, ReportingJob, JobIs DEF Prepared, Locals, ReportCalls, Ahead
<1>4. /\ j \in Job /\ j.added = job[t].added \union {Current(t)}
      /\ j.op = job[t].op /\ j.next = job[t].next /\ j.game = job[t].game
      /\ j.i = job[t].i /\ j.barred = job[t].barred
  BY <1>3 DEF Job
<1>5. job' = [job EXCEPT ![t] = NextLine(j)]
  BY <1>2
<1> HIDE DEF j
<1>6. /\ job' \in [Thread -> Job] /\ \A u \in Thread \ {t} : job'[u] = job[u]
      /\ Prepared(t)'
      /\ job'[t].op = "UpdateGame" /\ job[t].op = "UpdateGame" /\ job'[t].game = job[t].game
      /\ job'[t].added = job[t].added \union {Current(t)}
      /\ job'[t].next \in {"queryPlayer", "insertGameStat"}
      /\ Pending(t) \subseteq Pending(t)' /\ <<"player", p>> \in Pending(t)'
  <2>1. /\ job[t].added \subseteq j.added /\ j.added \subseteq job[t].added \union {Current(t)}
        /\ Current(t) \in j.added /\ job[t].barred \subseteq j.barred
    BY <1>4
  <2>2. /\ games' = games /\ log' = log /\ sent \subseteq sent'
        /\ job[t].next \in {"queryPlayer", "updatePlayerStats"}
    BY <1>2
  <2>3. Prepared(t)
    BY <1>1
  <2>4. QED
    BY <1>1, <1>4, <1>5, <2>1, <2>2, <2>3, Advance
<1>7. TypeOK'
  BY <1>1, <1>2, <1>3, <1>6 DEF TypeOK, Noting
<1>8. ASSUME NEW u \in Thread \ {t} PROVE Prepared(u)'
  <2>1. At(u, "updatePlayerStats") /\ StaysClear(pid(Current(u))) =>
          stats'[pid(Current(u))] = stats[pid(Current(u))]
    <3>1. SUFFICES ASSUME At(u, "updatePlayerStats"), pid(Current(u)) = p PROVE ~ StaysClear(p)
      BY <1>1, <1>2 DEF TypeOK
    <3>2. Updating(t, p) /\ Updating(u, p)
      BY <1>2, <3>1 DEF Updating
    <3>3. p \in PlayerRaces
      BY <1>3, <1>8, <3>2 DEF PlayerRaces
    <3>4. QED
      BY <3>3, PlayerRaceNoted
  <2>2. \A q : RowsOf(q)' = RowsOf(q)
    BY <1>2 DEF RowsOf
  <2>3. job[u].next \in ClanCalls => \A s \in {1, 2} : team(job[u].game, s) \in Clan
    BY <1>1, ClanTeams DEF Prepared
  <2>4. RowsOf(job[u].player)' = RowsOf(job[u].player)
    BY <1>2, <1>6 DEF RowsOf
  <2>5. QED
    BY <1>1, <1>2, <1>6, <2>1, <2>2, <2>3, <2>4, Others DEF Noting
<1>9. Distinct'
  BY <1>1, <1>6, DistinctKept
<1>10. RowsRanked' /\ LogSent'
  BY <1>1, <1>2, <1>3 DEF RowsRanked, LogSent, TypeOK
<1>11. StatsMatchLog'
  <2>1. SUFFICES ASSUME NEW q \in Player, <<"player", q>> \notin noted', NEW k \in Key
                 PROVE  stats'[q].games[k] =
                          IF pid(k) = q /\ (k \in log' \ disabled' \/ InFlight(k)') THEN 1 ELSE 0
    BY DEF StatsMatchLog
  <2>2. stats[q].games[k] =
          IF pid(k) = q /\ (k \in log \ disabled \/ InFlight(k)) THEN 1 ELSE 0
    BY <1>1, <2>1 DEF StatsMatchLog, Noting
  <2>3. InFlight(k)' <=> InFlight(k) \/ k = Current(t)
    BY <1>6 DEF InFlight
  <2>4. CASE q # p
    <3>1. pid(k) = q => k # Current(t)
      BY <2>4
    <3>2. stats'[q] = stats[q]
      BY <1>1, <1>2, <2>4 DEF TypeOK
    <3>3. QED
      BY <1>2, <2>2, <2>3, <3>1, <3>2
  <2>5. CASE q = p
    <3>1. stats'[q] = job[t].row
      BY <1>1, <1>2, <1>3, <2>5 DEF TypeOK
    <3>2. Clear(p)
      BY <2>1, <2>5 DEF Clear, Noting
    <3>3. job[t].row.games[k] = IF k = Current(t) THEN 1 ELSE stats[p].games[k]
      BY <1>1, <1>2, <3>2 DEF Prepared, Adding
    <3>4. QED
      BY <1>2, <2>2, <2>3, <2>5, <3>1, <3>3
  <2>6. QED
    BY <2>4, <2>5
<1>12. ClanRecordMatchesLog'
  BY <1>1, <1>2, <1>6, RecordKept DEF ClanCalls
<1>13. BoardsFresh'
  <2>1. \A u \in Thread : Pending(u) \subseteq Pending(u)'
    BY <1>6, PendingKept
  <2>2. \A b \in Board : Unshown(b) \subseteq Unshown(b)'
    BY <1>1, <1>2, <2>1, UnshownKept
  <2>3. \A b \in Board : <<"player", p>> \in Unshown(b)'
    BY <1>3, <1>6, NotShown DEF Subject
  <2>4. \A q \in Player \ {p} : stats'[q] = stats[q]
    BY <1>1, <1>2 DEF TypeOK
  <2>5. QED
    BY <1>1, <1>2, <2>2, <2>3, <2>4, FreshKept
<1>14. RacesNoted'
  BY DEF Noting, RacesNoted
<1>15. QED
  BY <1>6, <1>7, <1>8, <1>9, <1>10, <1>11, <1>12, <1>13, <1>14, IInvParts DEF IInv, Prepared

\* The game and its lines get into the log, or those of some players that are
\* noted do not.
LEMMA Logged ==
  ASSUME IInv, Noting, NEW t \in Thread, At(t, "insertGameStat"),
         NEW L \in SUBSET KeysOf(job[t].game),
         \/ games' = games \union {job[t].game}
         \/ games' = games /\ \A s \in {1, 2} :
              team(job[t].game, s) \in Clan => ~ StaysPlain(team(job[t].game, s)),
         \A k \in KeysOf(job[t].game) : StaysClear(pid(k)) => k \in L,
         log' = log \union L,
         disabled' = disabled \union {k \in L : pid(k) \in job[t].barred},
         job' = [job EXCEPT ![t].next = AfterInsert(job[t].game), ![t].added = {}],
         UNCHANGED <<restricted, stats, clans, boards, sent, late>>
  PROVE  IInv'
<1> DEFINE g == job[t].game
           n == AfterInsert(g)
           j == [job[t] EXCEPT !.next = n, !.added = {}]
<1>1. /\ TypeOK /\ \A u \in Thread : Prepared(u)
      /\ Distinct /\ LogSent /\ RowsRanked
      /\ StatsMatchLog /\ ClanRecordMatchesLog /\ BoardsFresh
  BY IInvParts
<1>2. /\ job[t].next = "insertGameStat" /\ job[t].next \in Ahead /\ job[t].next \in ReportCalls
      /\ g \in Game /\ g \in sent /\ job[t].op = "UpdateGame" /\ IsRanked(job[t].row)
      /\ \A k \in KeysOf(g) : k[2] < job[t].i
  <2>1. job[t].next = "insertGameStat" /\ job[t].next \in Ahead /\ job[t].next \in ReportCalls
    BY DEF At, Ahead, ReportCalls
  <2>2. QED
    BY <1>1, <2>1, ReportingJob DEF Prepared, Locals
<1>3. /\ g \notin games /\ \A k \in KeysOf(g) : k \notin log
      /\ job[t].added \subseteq KeysOf(g)
      /\ \A k \in KeysOf(g) : k \in job[t].added \/ pid(k) \in job[t].barred \/ ~ Clear(pid(k))
  BY <1>1, <1>2 DEF Prepared, Logging
<1>4. n \in Call /\ n \in {"queryClans", "createLeaderboards"} /\ (n = "queryClans" <=> ClanGame(g))
  BY DEF AfterInsert, Call
<1> HIDE DEF n
<1>5. /\ j \in Job /\ j.next = n /\ j.added = {}
      /\ j.op = job[t].op /\ j.game = g /\ j.i = job[t].i /\ j.row = job[t].row
  <2>1. job[t] \in Job /\ {} \subseteq Key
    BY <1>1, JobIs
  <2>2. QED
    BY <1>4, <2>1 DEF Job
<1>6. job' = [job EXCEPT ![t] = j]
  BY <1>1 DEF TypeOK, n
<1> HIDE DEF j
<1>7. job'[t] = j /\ job' \in [Thread -> Job] /\ \A u \in Thread \ {t} : job'[u] = job[u]
  BY <1>1, <1>5, <1>6, Written
<1>8. \A k \in KeysOf(g) : k \in Key /\ k[1] = g
  BY KeysOfIs
<1>9. TypeOK'
  <2>1. games' \subseteq sent'
    BY <1>1, <1>2 DEF TypeOK
  <2>2. log' \subseteq Key /\ disabled' \subseteq log'
    BY <1>1, <1>8 DEF TypeOK
  <2>3. QED
    BY <1>1, <1>7, <2>1, <2>2 DEF TypeOK, Noting
<1>10. Prepared(t)'
  <2>1. Locals(t)'
    <3>1. /\ n \in ReportCalls /\ n \notin Ahead /\ (n \in ClanCalls => ClanGame(g))
          /\ n \notin {"count", "page", "updateRecalc", "updateClan", "queryPlayer",
                      "updatePlayerStats", "insertGameStat"}
      BY <1>4 DEF ReportCalls, Ahead, ClanCalls
    <3>2. /\ job'[t].next = n /\ job'[t].op = "UpdateGame" /\ job'[t].game = g
          /\ job'[t].added = {} /\ IsRanked(job'[t].row) /\ g \in sent'
      BY <1>2, <1>5, <1>7
    <3>3. QED
      BY <3>1, <3>2 DEF Locals, At, IsRanked
  <2>2. Logging(t)' /\ Adding(t)' /\ Summing(t)' /\ Editing(t)'
    BY <1>4, <1>5, <1>7 DEF Logging, Adding, Summing, Editing, At, Ahead
  <2>3. Rating(t)'
    <3>1. SUFFICES ASSUME n \in ClanCalls, NEW s \in {1, 2}, StaysPlain(team(g, s))
                   PROVE  g \in games'
      BY <1>4, <1>5, <1>7 DEF Rating, Plain, StaysPlain, At
    <3>2. team(g, s) \in Clan
      BY <1>2, <1>4, <3>1, ReportIs DEF ClanGame, ClanCalls
    <3>3. QED
      BY <3>1, <3>2
  <2>4. QED
    BY <2>1, <2>2, <2>3 DEF Prepared
<1>11. ASSUME NEW u \in Thread \ {t}, job[u].next \in Ahead PROVE job[u].game # g
  BY <1>1, <1>2, <1>11 DEF Prepared, Locals, Distinct, ReportCalls
<1>12. ASSUME NEW u \in Thread \ {t} PROVE Prepared(u)'
  <2>1. job[u].next \in Ahead =>
          /\ job[u].game \in games' => job[u].game \in games
          /\ \A k \in KeysOf(job[u].game) : k \in log' => k \in log
    <3>1. SUFFICES ASSUME job[u].next \in Ahead
                   PROVE  /\ job[u].game \in games' => job[u].game \in games
                          /\ \A k \in KeysOf(job[u].game) : k \in log' => k \in log
      OBVIOUS
    <3>2. job[u].game # g
      BY <1>11, <3>1
    <3>3. \A k \in KeysOf(job[u].game) : k[1] = job[u].game
      BY KeysOfIs
    <3>4. QED
      BY <1>8, <3>2, <3>3
  <2>2. job[u].next \in {"page", "updateRecalc"} /\ StaysClear(job[u].player) =>
          /\ RowsOf(job[u].player)' = RowsOf(job[u].player)
          /\ \A k \in RowsOf(job[u].player) : k \in disabled' <=> k \in disabled
    <3> DEFINE q == job[u].player
    <3>1. SUFFICES ASSUME job[u].next \in {"page", "updateRecalc"}, StaysClear(q)
                   PROVE  /\ RowsOf(q)' = RowsOf(q)
                          /\ \A k \in RowsOf(q) : k \in disabled' <=> k \in disabled
      OBVIOUS
    <3>2. q \in Player /\ Recalculating(u, q)
      BY <1>1, <3>1 DEF Prepared, Locals, Recalculating
    <3>3. \A k \in KeysOf(g) : pid(k) # q
      <4>1. SUFFICES ASSUME NEW k \in KeysOf(g), pid(k) = q PROVE FALSE
        OBVIOUS
      <4>2. Reporting(t, q)
        BY <1>2, <4>1 DEF Reporting
      <4>3. q \in PlayerRaces
        BY <3>2, <4>2 DEF PlayerRaces
      <4>4. QED
        BY <3>1, <4>3, PlayerRaceNoted
    <3>4. {k \in log' : pid(k) = q} = {k \in log : pid(k) = q}
      BY <3>3
    <3>5. \A k \in log : pid(k) = q => (k \in disabled' <=> k \in disabled)
      BY <3>3
    <3>6. QED
      BY <1>7, <3>4, <3>5 DEF RowsOf
  <2>3. job[u].next \in ClanCalls => \A s \in {1, 2} : team(job[u].game, s) \in Clan
    BY <1>1, ClanTeams DEF Prepared
  <2>4. job'[u] = job[u] /\ games \subseteq games'
    BY <1>7
  <2>5. QED
    BY <1>1, <2>1, <2>2, <2>3, <2>4, Others DEF Noting
<1>13. Distinct'
  BY <1>1, <1>2, <1>5, <1>7, DistinctKept
<1>14. LogSent' /\ RowsRanked'
  BY <1>1, <1>2, <1>8 DEF LogSent, RowsRanked
<1>15. StatsMatchLog'
  <2>1. SUFFICES ASSUME NEW q \in Player, <<"player", q>> \notin noted', NEW k \in Key, pid(k) = q
                 PROVE  (k \in log' \ disabled' \/ InFlight(k)')
                          <=> (k \in log \ disabled \/ InFlight(k))
    BY <1>1 DEF StatsMatchLog, Noting
  <2>2. Clear(q) /\ StaysClear(q)
    BY <2>1 DEF Clear, StaysClear, Noting
  <2>3. CASE k \in KeysOf(g)
    <3>1. k \notin log /\ k \notin disabled /\ k \in L
      BY <1>1, <1>3, <2>1, <2>2, <2>3 DEF TypeOK
    <3>2. k \in disabled' <=> q \in job[t].barred
      BY <2>1, <3>1
    <3>3. \A u \in Thread \ {t} : k \notin job[u].added
      <4>1. SUFFICES ASSUME NEW u \in Thread \ {t}, k \in job[u].added PROVE FALSE
        OBVIOUS
      <4>2. job[u].next \in Ahead
        BY <1>1, <4>1 DEF Prepared, Locals
      <4>3. k \in KeysOf(job[u].game) /\ job[u].game # g
        BY <1>1, <1>11, <4>1, <4>2 DEF Prepared, Logging
      <4>4. QED
        BY <1>8, <2>3, <4>3, KeysOfIs
    <3>4. ~ InFlight(k)' /\ (InFlight(k) <=> k \in job[t].added)
      BY <1>5, <1>7, <3>3 DEF InFlight
    <3>5. ~ (k \in job[t].added /\ q \in job[t].barred)
      <4>1. SUFFICES ASSUME k \in job[t].added, q \in job[t].barred PROVE FALSE
        OBVIOUS
      <4>2. q \in PlayerRaces
        BY <2>1, <4>1 DEF PlayerRaces
      <4>3. QED
        BY <2>2, <4>2, PlayerRaceNoted
    <3>6. k \in job[t].added \/ q \in job[t].barred
      BY <1>3, <2>1, <2>2, <2>3
    <3>7. QED
      BY <3>1, <3>2, <3>4, <3>5, <3>6
  <2>4. CASE k \notin KeysOf(g)
    <3>1. k \notin job[t].added
      BY <1>3, <2>4
    <3>2. InFlight(k)' <=> InFlight(k)
      BY <1>5, <1>7, <3>1 DEF InFlight
    <3>3. QED
      BY <2>4, <3>2
  <2>5. QED
    BY <2>3, <2>4
<1>16. ClanRecordMatchesLog'
  <2>1. SUFFICES ASSUME NEW h \in Game, NEW s \in {1, 2},
                        team(h, s) \in Clan, victory(h, s) \in Lost .. Draw,
                        <<"clan", team(h, s)>> \notin noted'
                 PROVE  OnRecord(team(h, s), <<h, s>>)' <=>
                          /\ h \in games' /\ ClanGame(h)
                          /\ ~ \E u \in Thread : job'[u].game = h /\ job'[u].next \in ClanCalls
    BY DEF ClanRecordMatchesLog, ClanCalls
  <2>2. OnRecord(team(h, s), <<h, s>>) <=>
          /\ h \in games /\ ClanGame(h)
          /\ ~ \E u \in Thread : job[u].game = h /\ job[u].next \in ClanCalls
    BY <1>1, <2>1 DEF ClanRecordMatchesLog, ClanCalls, Noting
  <2>3. OnRecord(team(h, s), <<h, s>>)' <=> OnRecord(team(h, s), <<h, s>>)
    BY DEF OnRecord
  <2>4. CASE h = g
    <3>1. ClanGame(h) => job'[t].game = h /\ job'[t].next \in ClanCalls
      BY <1>4, <1>5, <1>7, <2>4 DEF ClanCalls
    <3>2. QED
      BY <1>3, <2>2, <2>3, <2>4, <3>1
  <2>5. CASE h # g
    <3>1. h \in games' <=> h \in games
      BY <2>5
    <3>2. (\E u \in Thread : job'[u].game = h /\ job'[u].next \in ClanCalls)
            <=> (\E u \in Thread : job[u].game = h /\ job[u].next \in ClanCalls)
      BY <1>5, <1>7, <2>5
    <3>3. QED
      BY <2>2, <2>3, <3>1, <3>2
  <2>6. QED
    BY <2>4, <2>5
<1>17. BoardsFresh'
  <2>1. Pending(t) \subseteq Pending(t)'
    BY <1>2, <1>5, <1>7 DEF Pending, At
  <2>2. \A u \in Thread : Pending(u) \subseteq Pending(u)'
    BY <1>7, <2>1, PendingKept
  <2>3. \A b \in Board : Unshown(b) \subseteq Unshown(b)'
    BY <1>1, <2>2, UnshownKept
  <2>4. QED
    BY <1>1, <2>3, FreshKept
<1>18. RacesNoted'
  BY DEF Noting, RacesNoted
<1>19. QED
  BY <1>9, <1>10, <1>12, <1>13, <1>14, <1>15, <1>16, <1>17, <1>18, IInvParts DEF IInv, Prepared

LEMMA GameInserted ==
  ASSUME IInv, Noting, NEW t \in Thread, InsertGame(t)
  PROVE  IInv'
<1> DEFINE g == job[t].game
<1>1. /\ At(t, "insertGameStat")
      /\ games' = games \union {g}
      /\ log' = log \union KeysOf(g)
      /\ disabled' = disabled \union {k \in KeysOf(g) : pid(k) \in job[t].barred}
      /\ job' = [job EXCEPT ![t].next = AfterInsert(g), ![t].added = {}]
      /\ UNCHANGED <<restricted, stats, clans, boards, sent, late>>
  BY DEF InsertGame
<1>2. KeysOf(g) \in SUBSET KeysOf(g)
  OBVIOUS
<1>3. \A k \in KeysOf(g) : StaysClear(pid(k)) => k \in KeysOf(g)
  OBVIOUS
<1>4. QED
  BY <1>1, <1>2, <1>3, Logged

LEMMA GameInsertFailed ==
  ASSUME IInv, Noting, NEW t \in Thread, InsertGameFails(t), Concerned(t) \subseteq noted'
  PROVE  IInv'
<1> DEFINE g == job[t].game
<1>1. /\ At(t, "insertGameStat")
      /\ \/ UNCHANGED <<games, log, disabled>>
         \/ \E L \in SUBSET KeysOf(g) :
              /\ L # KeysOf(g)
              /\ games' = games \union {g}
              /\ log' = log \union L
              /\ disabled' = disabled \union {k \in L : pid(k) \in job[t].barred}
      /\ job' = [job EXCEPT ![t].next = AfterInsert(g), ![t].added = {}]
      /\ UNCHANGED <<restricted, stats, clans, boards, sent, late>>
  BY DEF InsertGameFails
<1>2. Concerned(t) =
        {<<"player", pid(k)>> : k \in KeysOf(g)}
          \union {<<"clan", c>> : c \in Clan \intersect {team(g, 1), team(g, 2)}}
  BY <1>1 DEF Concerned, At
<1>3. \A k \in KeysOf(g) : ~ StaysClear(pid(k))
  BY <1>2 DEF StaysClear
<1>4. \A s \in {1, 2} : team(g, s) \in Clan => ~ StaysPlain(team(g, s))
  BY <1>2 DEF StaysPlain
<1>5. CASE UNCHANGED <<games, log, disabled>>
  <2>1. /\ {} \in SUBSET KeysOf(g) /\ log' = log \union {}
        /\ disabled' = disabled \union {k \in {} : pid(k) \in job[t].barred}
    BY <1>5
  <2>2. QED
    BY <1>1, <1>3, <1>4, <1>5, <2>1, Logged
<1>6. CASE \E L \in SUBSET KeysOf(g) :
             /\ games' = games \union {g}
             /\ log' = log \union L
             /\ disabled' = disabled \union {k \in L : pid(k) \in job[t].barred}
  BY <1>1, <1>3, <1>6, Logged
<1>7. QED
  BY <1>1, <1>5, <1>6

\* updateClans: a clan that plays itself is spoiled already.
LEMMA TwoRows ==
  ASSUME IInv, Noting, NEW t \in Thread, WriteClans(t)
  PROVE  /\ clans' \in [Clan -> ClanRow]
         /\ \A c \in Clan :
              c \notin {team(job[t].game, 1), team(job[t].game, 2)} => clans'[c] = clans[c]
         /\ \A s \in {1, 2} :
              StaysPlain(team(job[t].game, s)) => clans'[team(job[t].game, s)] = job[t].rows[s]
<1> DEFINE g == job[t].game
           rows == job[t].rows
           F(c) == CASE c = team(g, 1) -> rows[1]
                     [] c # team(g, 1) /\ c = team(g, 2) -> rows[2]
                     [] OTHER -> clans[c]
<1>1. TypeOK /\ Locals(t)
  BY IInvParts DEF Prepared
<1>2. /\ At(t, "updateClans") /\ job[t].next \in ClanCalls
      /\ clans' = [c \in Clan |-> F(c)]
  BY DEF WriteClans, updateClans, At, ClanCalls
<1>3. /\ team(g, 1) \in Clan /\ team(g, 2) \in Clan
      /\ rows[1] \in ClanRow /\ rows[2] \in ClanRow
  BY <1>1, <1>2, ClanTeams, JobIs
<1>4. /\ \A c \in Clan : c \notin {team(g, 1), team(g, 2)} => F(c) = clans[c]
      /\ F(team(g, 1)) = rows[1]
      /\ team(g, 1) # team(g, 2) => F(team(g, 2)) = rows[2]
  OBVIOUS
<1>5. \A c \in Clan : F(c) \in ClanRow
  BY <1>1, <1>3, <1>4 DEF TypeOK
<1> HIDE DEF F
<1>6. team(g, 1) = team(g, 2) => ~ StaysPlain(team(g, 1))
  <2>1. team(g, 1) = team(g, 2) => team(g, 1) \in ClanRaces
    BY <1>2, <1>3 DEF ClanRaces
  <2>2. QED
    BY <2>1, ClanRaceNoted
<1>7. QED
  BY <1>2, <1>3, <1>4, <1>5, <1>6

\* The rows of two clans are written: nobody else holds either of them.
LEMMA ClansWritten ==
  ASSUME IInv, Noting, NEW t \in Thread, WriteClans(t)
  PROVE  IInv'
<1> DEFINE g == job[t].game
           rows == job[t].rows
<1>1. /\ TypeOK /\ \A u \in Thread : Prepared(u)
      /\ Distinct /\ LogSent /\ RowsRanked
      /\ StatsMatchLog /\ ClanRecordMatchesLog /\ BoardsFresh
  BY IInvParts
<1>2. /\ At(t, "updateClans") /\ job[t].next \in ClanCalls /\ job[t].next \in ReportCalls
      /\ clans' = updateClans(g, rows) /\ Go(t, "createLeaderboards")
      /\ UNCHANGED <<restricted, stats, games, log, disabled, boards, sent, late>>
  BY DEF WriteClans, At, ClanCalls, ReportCalls
<1>3. /\ g \in Game /\ team(g, 1) \in Clan /\ team(g, 2) \in Clan
      /\ ClanGame(g) /\ job[t].op = "UpdateGame"
      /\ rows[1] \in ClanRow /\ rows[2] \in ClanRow
  BY <1>1, <1>2, ClanTeams, JobIs DEF Prepared, Locals
<1>4. /\ job' \in [Thread -> Job] /\ \A u \in Thread \ {t} : job'[u] = job[u]
      /\ Prepared(t)'
      /\ job'[t].op = "UpdateGame" /\ job'[t].game = g
      /\ job'[t].next = "createLeaderboards" /\ job'[t].next \notin ClanCalls
      /\ job'[t].added = job[t].added
      /\ Pending(t)' = Pending(t) \union {<<"clan", c>> : c \in Clan \intersect {team(g, 1), team(g, 2)}}
  BY <1>1, <1>2, <1>3, LastCall DEF ClanCalls
<1>5. /\ clans' \in [Clan -> ClanRow]
      /\ \A c \in Clan : c \notin {team(g, 1), team(g, 2)} => clans'[c] = clans[c]
      /\ \A s \in {1, 2} : StaysPlain(team(g, s)) => clans'[team(g, s)] = rows[s]
  BY TwoRows
\* What the rows hold now.
<1>6. ASSUME NEW s \in {1, 2}, StaysPlain(team(g, s))
      PROVE  /\ g \in games
             /\ Held(clans'[team(g, s)]) = Held(clans[team(g, s)]) \union Results(g, s)
  <2>1. Plain(team(g, s))
    BY <1>6 DEF Plain, StaysPlain, Noting
  <2>2. /\ g \in games
        /\ Held(rows[s]) = Held(clans[team(g, s)]) \union Results(g, s)
    BY <1>1, <1>2, <1>6, <2>1 DEF Prepared, Rating
  <2>3. clans'[team(g, s)] = rows[s]
    BY <1>5, <1>6
  <2>4. QED
    BY <2>2, <2>3
<1>7. TypeOK'
  BY <1>1, <1>2, <1>4, <1>5 DEF TypeOK, Noting
<1>8. ASSUME NEW u \in Thread \ {t} PROVE Prepared(u)'
  <2>1. \A c \in Clan : Holding(u, c) /\ StaysPlain(c) => clans'[c] = clans[c]
    <3>1. SUFFICES ASSUME NEW c \in Clan, Holding(u, c), c \in {team(g, 1), team(g, 2)}
                   PROVE  ~ StaysPlain(c)
      BY <1>5
    <3>2. Holding(t, c)
      BY <1>2, <3>1 DEF Holding
    <3>3. c \in ClanRaces
      BY <1>8, <3>1, <3>2 DEF ClanRaces
    <3>4. QED
      BY <3>3, ClanRaceNoted
  <2>2. job[u].next \in ClanCalls => \A s \in {1, 2} : team(job[u].game, s) \in Clan
    BY <1>1, ClanTeams DEF Prepared
  <2>3. RowsOf(job[u].player)' = RowsOf(job[u].player)
    BY <1>2, <1>4 DEF RowsOf
  <2>4. QED
    BY <1>1, <1>2, <1>4, <2>1, <2>2, <2>3, Others DEF Noting
<1>9. Distinct'
  BY <1>1, <1>3, <1>4, DistinctKept
<1>10. LogSent' /\ RowsRanked' /\ RacesNoted'
  BY <1>1, <1>2 DEF LogSent, RowsRanked, RacesNoted, Noting
<1>11. StatsMatchLog'
  BY <1>1, <1>2, <1>4, StatsKept
<1>12. ClanRecordMatchesLog'
  <2>1. SUFFICES ASSUME NEW h \in Game, NEW s \in {1, 2},
                        team(h, s) \in Clan, victory(h, s) \in Lost .. Draw,
                        StaysPlain(team(h, s))
                 PROVE  OnRecord(team(h, s), <<h, s>>)' <=>
                          /\ h \in games' /\ ClanGame(h)
                          /\ ~ \E u \in Thread : job'[u].game = h /\ job'[u].next \in ClanCalls
    BY DEF ClanRecordMatchesLog, ClanCalls, StaysPlain
  <2>2. OnRecord(team(h, s), <<h, s>>) <=>
          /\ h \in games /\ ClanGame(h)
          /\ ~ \E u \in Thread : job[u].game = h /\ job[u].next \in ClanCalls
    BY <1>1, <2>1 DEF ClanRecordMatchesLog, ClanCalls, Noting, StaysPlain
  <2>3. CASE h = g
    <3>1. <<h, s>> \in Results(g, s)
      BY <2>1, <2>3 DEF Results
    <3>2. OnRecord(team(h, s), <<h, s>>)' /\ h \in games'
      BY <1>2, <1>6, <2>1, <2>3, <3>1 DEF OnRecord, Held
    <3>3. ~ \E u \in Thread : job'[u].game = h /\ job'[u].next \in ClanCalls
      <4>1. SUFFICES ASSUME NEW u \in Thread, job'[u].game = h, job'[u].next \in ClanCalls
                     PROVE  FALSE
        OBVIOUS
      <4>2. u # t /\ job[u].game = g /\ job[u].next \in ReportCalls
        BY <1>4, <2>3, <4>1 DEF ReportCalls
      <4>3. job[u].op = "UpdateGame"
        BY <1>1, <4>2 DEF Prepared, Locals
      <4>4. QED
        BY <1>1, <1>3, <4>2, <4>3 DEF Distinct
    <3>4. QED
      BY <1>3, <2>3, <3>2, <3>3
  <2>4. CASE h # g
    <3>1. (\E u \in Thread : job'[u].game = h /\ job'[u].next \in ClanCalls)
            <=> (\E u \in Thread : job[u].game = h /\ job[u].next \in ClanCalls)
      BY <1>4, <2>4
    <3>2. OnRecord(team(h, s), <<h, s>>)' <=> OnRecord(team(h, s), <<h, s>>)
      <4>1. CASE team(h, s) \notin {team(g, 1), team(g, 2)}
        BY <1>5, <2>1, <4>1 DEF OnRecord
      <4>2. ASSUME NEW x \in {1, 2}, team(h, s) = team(g, x)
            PROVE  OnRecord(team(h, s), <<h, s>>)' <=> OnRecord(team(h, s), <<h, s>>)
        <5>1. Held(clans'[team(h, s)]) = Held(clans[team(h, s)]) \union Results(g, x)
          BY <1>6, <2>1, <4>2
        <5>2. <<h, s>> \notin Results(g, x)
          BY <2>4 DEF Results
        <5>3. QED
          BY <5>1, <5>2 DEF OnRecord, Held
      <4>3. QED
        BY <4>1, <4>2
    <3>3. QED
      BY <1>2, <2>2, <3>1, <3>2
  <2>5. QED
    BY <2>3, <2>4
<1>13. BoardsFresh'
  <2>1. \A u \in Thread : Pending(u) \subseteq Pending(u)'
    BY <1>4, PendingKept
  <2>2. \A b \in Board : Unshown(b) \subseteq Unshown(b)'
    BY <1>1, <1>2, <2>1, UnshownKept
  <2>3. ASSUME NEW c \in Clan, c \in {team(g, 1), team(g, 2)}
        PROVE  <<"clan", c>> \in Unshown("clan")'
    <3>1. <<"clan", c>> \in Pending(t)' /\ <<"clan", c>> \in Subject /\ "clan" \in Board
      BY <1>4, <2>3 DEF Subject, Board
    <3>2. QED
      BY <3>1, NotShown
  <2>4. QED
    BY <1>1, <1>2, <1>5, <2>2, <2>3, FreshKept
<1>14. QED
  BY <1>4, <1>7, <1>8, <1>9, <1>10, <1>11, <1>12, <1>13, IInvParts DEF IInv, Prepared

\* A handler is done: what a finished job leaves behind.
LEMMA Finished ==
  ASSUME TypeOK, Distinct, NEW t \in Thread, Finish(t)
  PROVE  /\ job' \in [Thread -> Job] /\ \A u \in Thread \ {t} : job'[u] = job[u]
         /\ Prepared(t)' /\ Distinct' /\ Pending(t)' = {}
         /\ job'[t].added = {} /\ job'[t].next \notin ClanCalls
<1>1. /\ job'[t] = NoJob /\ job' \in [Thread -> Job] /\ \A u \in Thread \ {t} : job'[u] = job[u]
  BY NoJobIs, Written DEF Finish
<1>2. Prepared(t)'
  BY <1>1, NoJobIs, NewRowRanked, Unprepared
<1>3. Distinct'
  BY <1>1, NoJobIs, DistinctKept
<1>4. job'[t].op # "UpdateGame" /\ job'[t].added = {} /\ job'[t].next \notin ClanCalls
  BY <1>1, NoJobIs DEF ClanCalls
<1>5. Pending(t)' = {}
  BY <1>4 DEF Pending
<1>6. QED
  BY <1>1, <1>2, <1>3, <1>4, <1>5

LEMMA LeaderboardsCreated ==
  ASSUME IInv, Noting, NEW t \in Thread, CreateLeaderboards(t)
  PROVE  IInv'
<1>1. /\ TypeOK /\ \A u \in Thread : Prepared(u)
      /\ Distinct /\ LogSent /\ RowsRanked
      /\ StatsMatchLog /\ ClanRecordMatchesLog
  BY IInvParts
<1>2. /\ job[t].next = "createLeaderboards" /\ Finish(t)
      /\ boards' = [b \in Board |-> TableOf(b)] /\ late' = {}
      /\ UNCHANGED <<restricted, stats, games, log, disabled, clans, sent>>
  BY DEF CreateLeaderboards, At
<1>3. /\ job' \in [Thread -> Job] /\ \A u \in Thread \ {t} : job'[u] = job[u]
      /\ Prepared(t)' /\ Distinct' /\ job'[t].added = {} /\ job'[t].next \notin ClanCalls
  BY <1>1, <1>2, Finished
<1>4. job[t].added = {} /\ job[t].next \notin ClanCalls
  BY <1>1, <1>2 DEF Prepared, Locals, Ahead, ClanCalls
<1>5. TypeOK'
  <2>1. DOMAIN boards' = Board /\ \A b \in Board : boards'[b] = TableOf(b)
    BY <1>2
  <2>2. stats \in [Player -> Row] /\ clans \in [Clan -> ClanRow]
    BY <1>1 DEF TypeOK
  <2>3. /\ \A b \in Board \ {"clan"} : boards'[b] \in [Player -> Row] \union {NoTable}
        /\ boards'["clan"] \in [Clan -> ClanRow] \union {NoTable}
    BY <2>1, <2>2 DEF TableOf, Board
  <2>4. QED
    BY <1>1, <1>2, <1>3, <2>1, <2>3 DEF TypeOK, Noting
<1>6. ASSUME NEW u \in Thread \ {t} PROVE Prepared(u)'
  BY <1>1, <1>2, <1>3, Unwritten DEF Noting
<1>7. LogSent' /\ RowsRanked' /\ RacesNoted'
  BY <1>1, <1>2 DEF LogSent, RowsRanked, RacesNoted, Noting
<1>8. StatsMatchLog' /\ ClanRecordMatchesLog'
  BY <1>1, <1>2, <1>3, <1>4, StatsKept, RecordKept
<1>9. BoardsFresh'
  <2>1. /\ \A b \in Board \ {"clan"} : boards'[b] = stats'
        /\ boards'["clan"] = clans'
    BY <1>2 DEF TableOf, Board
  <2>2. DOMAIN stats' = Player /\ DOMAIN clans' = Clan
    BY <1>5 DEF TypeOK
  <2>3. QED
    BY <2>1, <2>2 DEF BoardsFresh
<1>10. QED
  BY <1>3, <1>5, <1>6, <1>7, <1>8, <1>9, IInvParts DEF IInv, Prepared

\* The procedure stops at one of the tables: those before it show the rows of
\* this moment, the others are left out of by what the report has written, and
\* the one that is dropped by all.
LEMMA LeaderboardsFailed ==
  ASSUME IInv, Noting, NEW t \in Thread, CreateLeaderboardsFails(t)
  PROVE  IInv'
<1>1. /\ TypeOK /\ \A u \in Thread : Prepared(u)
      /\ Distinct /\ LogSent /\ RowsRanked
      /\ StatsMatchLog /\ ClanRecordMatchesLog /\ BoardsFresh
  BY IInvParts
<1>2. /\ job[t].next = "createLeaderboards" /\ Finish(t)
      /\ UNCHANGED <<restricted, stats, games, log, disabled, clans, sent>>
  BY DEF CreateLeaderboardsFails, At
<1>3. PICK made \in SUBSET Board, gone \in SUBSET Board :
        /\ made \intersect gone = {}
        /\ boards' = [b \in Board |-> CASE b \in made -> TableOf(b)
                                        [] b \in gone -> NoTable
                                        [] OTHER -> boards[b]]
        /\ late' = (late \ (made \X Subject)) \union ((Board \ made) \X Pending(t))
                      \union (gone \X Subject)
  <2>1. /\ DOMAIN Boards = 1 .. 4 /\ \A i \in 1 .. 4 : Boards[i] \in Board
        /\ \A i, m \in 1 .. 4 : i # m => Boards[i] # Boards[m]
    BY DEF Boards, Board
  <2>2. PICK n \in 1 .. 4 :
          LET made == {Boards[i] : i \in 1 .. n - 1}
          IN  \E gone \in {{}, {Boards[n]}} :
                /\ boards' = [b \in Board |-> CASE b \in made -> TableOf(b)
                                                [] b \in gone -> NoTable
                                                [] OTHER -> boards[b]]
                /\ late' = (late \ (made \X Subject)) \union ((Board \ made) \X Pending(t))
                              \union (gone \X Subject)
    BY <2>1 DEF CreateLeaderboardsFails
  <2> DEFINE made == {Boards[i] : i \in 1 .. n - 1}
  <2>3. /\ made \in SUBSET Board /\ {} \in SUBSET Board /\ {Boards[n]} \in SUBSET Board
        /\ Boards[n] \notin made
    BY <2>1
  <2>4. PICK gone \in {{}, {Boards[n]}} :
          /\ boards' = [b \in Board |-> CASE b \in made -> TableOf(b)
                                          [] b \in gone -> NoTable
                                          [] OTHER -> boards[b]]
          /\ late' = (late \ (made \X Subject)) \union ((Board \ made) \X Pending(t))
                        \union (gone \X Subject)
    BY <2>2
  <2>5. gone \in SUBSET Board /\ made \intersect gone = {}
    BY <2>3, <2>4
  <2> HIDE DEF made
  <2>6. QED
    BY <2>3, <2>4, <2>5
<1>4. /\ job' \in [Thread -> Job] /\ \A u \in Thread \ {t} : job'[u] = job[u]
      /\ Prepared(t)' /\ Distinct' /\ Pending(t)' = {}
      /\ job'[t].added = {} /\ job'[t].next \notin ClanCalls
  BY <1>1, <1>2, Finished
<1>5. job[t].added = {} /\ job[t].next \notin ClanCalls
  BY <1>1, <1>2 DEF Prepared, Locals, Ahead, ClanCalls
<1>6. \A u \in Thread : Pending(u) \subseteq Subject
  BY <1>1, PendingTyped
<1>7. DOMAIN boards' = Board /\ \A b \in Board :
        boards'[b] = IF b \in made THEN TableOf(b) ELSE IF b \in gone THEN NoTable ELSE boards[b]
  BY <1>3
<1>7a. TypeOK'
  <2>1. DOMAIN boards' = Board
    BY <1>7
  <2>2. \A b \in Board : boards'[b] \in {TableOf(b), NoTable, boards[b]}
    BY <1>7
  <2>3. stats \in [Player -> Row] /\ clans \in [Clan -> ClanRow]
    BY <1>1 DEF TypeOK
  <2>4. ASSUME NEW b \in Board \ {"clan"} PROVE boards'[b] \in [Player -> Row] \union {NoTable}
    <3>1. TableOf(b) = stats /\ boards[b] \in [Player -> Row] \union {NoTable}
      BY <1>1 DEF TableOf, TypeOK
    <3>2. QED
      BY <2>2, <2>3, <3>1
  <2>5. boards'["clan"] \in [Clan -> ClanRow] \union {NoTable}
    <3>1. /\ TableOf("clan") = clans /\ "clan" \in Board
          /\ boards["clan"] \in [Clan -> ClanRow] \union {NoTable}
      BY <1>1 DEF TableOf, Board, TypeOK
    <3>2. QED
      BY <2>2, <2>3, <3>1
  <2>6. late' \subseteq Board \X Subject
    BY <1>1, <1>3, <1>6 DEF TypeOK
  <2>7. QED
    BY <1>1, <1>2, <1>4, <2>1, <2>4, <2>5, <2>6 DEF TypeOK, Noting
<1>8. ASSUME NEW u \in Thread \ {t} PROVE Prepared(u)'
  BY <1>1, <1>2, <1>4, Unwritten DEF Noting
<1>9. LogSent' /\ RowsRanked' /\ RacesNoted'
  BY <1>1, <1>2 DEF LogSent, RowsRanked, RacesNoted, Noting
<1>10. StatsMatchLog' /\ ClanRecordMatchesLog'
  BY <1>1, <1>2, <1>4, <1>5, StatsKept, RecordKept
\* A leaderboard shows this moment's rows, or nothing, or what it has shown.
<1>11. ASSUME NEW b \in Board, NEW x \in Subject, x \notin Unshown(b)'
       PROVE  \/ boards'[b] = TableOf(b)
              \/ boards'[b] = boards[b] /\ x \notin Unshown(b)
  <2>1. \A u \in Thread : u # t => Pending(u)' = Pending(u)
    BY <1>4, PendingKept
  <2>2. <<b, x>> \notin late' /\ \A u \in Thread : x \notin Pending(u)'
    <3>1. Unshown(b)' =
            {y \in Subject : <<b, y>> \in late'} \union UNION {Pending(u)' : u \in Thread}
      BY DEF Unshown
    <3>2. <<b, x>> \notin late'
      BY <1>11, <3>1
    <3>3. ASSUME NEW u \in Thread, x \in Pending(u)' PROVE FALSE
      BY <1>11, <3>1, <3>3
    <3>4. QED
      BY <3>2, <3>3
  <2>3. CASE b \in made
    BY <1>7, <2>3
  <2>4. CASE b \notin made
    <3>1. b \notin gone /\ <<b, x>> \notin late /\ x \notin Pending(t)
      BY <1>3, <2>2, <2>4
    <3>2. \A u \in Thread : x \notin Pending(u)
      BY <2>1, <2>2, <3>1
    <3>3. boards'[b] = boards[b]
      BY <1>7, <2>4, <3>1
    <3>4. QED
      BY <3>1, <3>2, <3>3 DEF Unshown
  <2>5. QED
    BY <2>3, <2>4
<1>12. BoardsFresh'
  <2>1. DOMAIN stats = Player /\ DOMAIN clans = Clan
    BY <1>1 DEF TypeOK
  <2>2. ASSUME NEW b \in Board \ {"clan"}, NEW p \in Player, <<"player", p>> \notin Unshown(b)'
        PROVE  p \in DOMAIN boards'[b] /\ boards'[b][p] = stats'[p]
    <3>1. TableOf(b) = stats /\ <<"player", p>> \in Subject
      BY DEF TableOf, Subject
    <3>2. \/ boards'[b] = stats
          \/ boards'[b] = boards[b] /\ <<"player", p>> \notin Unshown(b)
      BY <1>11, <2>2, <3>1
    <3>3. QED
      BY <1>1, <1>2, <2>1, <3>2 DEF BoardsFresh
  <2>3. ASSUME NEW c \in Clan, <<"clan", c>> \notin Unshown("clan")'
        PROVE  c \in DOMAIN boards'["clan"] /\ boards'["clan"][c] = clans'[c]
    <3>1. TableOf("clan") = clans /\ <<"clan", c>> \in Subject /\ "clan" \in Board
      BY DEF TableOf, Subject, Board
    <3>2. \/ boards'["clan"] = clans
          \/ boards'["clan"] = boards["clan"] /\ <<"clan", c>> \notin Unshown("clan")
      BY <1>11, <2>3, <3>1
    <3>3. QED
      BY <1>1, <1>2, <2>1, <3>2 DEF BoardsFresh
  <2>4. QED
    BY <2>2, <2>3 DEF BoardsFresh
<1>13. QED
  BY <1>4, <1>7a, <1>8, <1>9, <1>10, <1>12, IInvParts DEF IInv, Prepared

\* A recalculation is written: it has summed up all rows of its player, and no
\* report of a line of this player is under way.
LEMMA RecalcWritten ==
  ASSUME IInv, Noting, NEW t \in Thread, RecalcWrite(t)
  PROVE  IInv'
<1> DEFINE p == job[t].player
<1>1. /\ TypeOK /\ \A u \in Thread : Prepared(u)
      /\ Distinct /\ LogSent /\ RowsRanked
      /\ StatsMatchLog /\ ClanRecordMatchesLog /\ BoardsFresh
  BY IInvParts
<1>2. /\ job[t].next = "updateRecalc" /\ Finish(t)
      /\ stats' = [stats EXCEPT ![p] = job[t].row]
      /\ late' = late \union (Board \X {<<"player", p>>})
      /\ UNCHANGED <<restricted, games, log, disabled, clans, boards, sent>>
  BY DEF RecalcWrite, At
<1>3. /\ job' \in [Thread -> Job] /\ \A u \in Thread \ {t} : job'[u] = job[u]
      /\ Prepared(t)' /\ Distinct' /\ Pending(t)' = {}
      /\ job'[t].added = {} /\ job'[t].next \notin ClanCalls
  BY <1>1, <1>2, Finished
<1>4. /\ job[t].added = {} /\ job[t].next \notin ClanCalls /\ job[t].op # "UpdateGame"
      /\ p \in Player /\ job[t].row \in Row /\ IsRanked(job[t].row) /\ Recalculating(t, p)
  BY <1>1, <1>2, JobIs
     DEF Prepared, Locals, At, Ahead, ClanCalls, ReportCalls, Recalculating
<1>5. <<"player", p>> \in Subject
  BY <1>4 DEF Subject
<1>6. TypeOK'
  BY <1>1, <1>2, <1>3, <1>4, <1>5 DEF TypeOK, Noting
<1>7. ASSUME NEW u \in Thread, Reporting(u, p) PROVE ~ StaysClear(p)
  <2>1. p \in PlayerRaces
    BY <1>4, <1>7 DEF PlayerRaces
  <2>2. QED
    BY <2>1, PlayerRaceNoted
<1>8. ASSUME NEW u \in Thread \ {t} PROVE Prepared(u)'
  <2>1. At(u, "updatePlayerStats") /\ StaysClear(pid(Current(u))) =>
          stats'[pid(Current(u))] = stats[pid(Current(u))]
    <3>1. SUFFICES ASSUME At(u, "updatePlayerStats"), pid(Current(u)) = p PROVE ~ StaysClear(p)
      BY <1>1, <1>2 DEF TypeOK
    <3>2. Reporting(u, p)
      BY <3>1 DEF Reporting, Updating
    <3>3. QED
      BY <1>7, <3>2
  <2>2. job[u].next \in ClanCalls => \A s \in {1, 2} : team(job[u].game, s) \in Clan
    BY <1>1, ClanTeams DEF Prepared
  <2>3. RowsOf(job[u].player)' = RowsOf(job[u].player)
    BY <1>2, <1>3 DEF RowsOf
  <2>4. QED
    BY <1>1, <1>2, <1>3, <2>1, <2>2, <2>3, Others DEF Noting
<1>9. LogSent' /\ RowsRanked' /\ RacesNoted'
  BY <1>1, <1>2, <1>4 DEF LogSent, RowsRanked, RacesNoted, Noting, TypeOK
<1>10. StatsMatchLog'
  <2>1. SUFFICES ASSUME NEW q \in Player, <<"player", q>> \notin noted', NEW k \in Key
                 PROVE  stats'[q].games[k] =
                          IF pid(k) = q /\ (k \in log' \ disabled' \/ InFlight(k)') THEN 1 ELSE 0
    BY DEF StatsMatchLog
  <2>2. InFlight(k)' <=> InFlight(k)
    BY <1>3, <1>4 DEF InFlight
  <2>3. CASE q # p
    BY <1>1, <1>2, <2>1, <2>2, <2>3 DEF StatsMatchLog, TypeOK, Noting
  <2>4. CASE q = p
    <3>1. Clear(p) /\ StaysClear(p)
      BY <2>1, <2>4 DEF Clear, StaysClear, Noting
    <3>2. stats'[q] = job[t].row
      BY <1>1, <1>2, <1>4, <2>4 DEF TypeOK
    <3>3. /\ job[t].read \subseteq RowsOf(p)
          /\ Cardinality(job[t].read) = job[t].offset
          /\ job[t].total = Cardinality(RowsOf(p))
          /\ job[t].offset = job[t].total
          /\ job[t].row.games[k] = IF k \in job[t].read \ disabled THEN 1 ELSE 0
      BY <1>1, <1>2, <3>1 DEF Prepared, Summing, At
    <3>4. job[t].read = RowsOf(p)
      <4> DEFINE S == job[t].read
                 T == RowsOf(p)
      <4>1. S \subseteq T /\ Cardinality(S) = Cardinality(T) /\ IsFiniteSet(T)
        BY <1>1, <3>3, RowsOfIs
      <4> HIDE DEF S, T
      <4>2. S = T
        BY <4>1, FS_Subset
      <4>3. QED
        BY <4>2 DEF S, T
    <3>5. pid(k) = p => ~ InFlight(k)
      <4>1. SUFFICES ASSUME pid(k) = p, NEW u \in Thread, k \in job[u].added PROVE FALSE
        BY DEF InFlight
      <4>2. job[u].next \in Ahead
        BY <1>1, <4>1 DEF Prepared, Locals
      <4>3. k \in KeysOf(job[u].game) /\ k[2] < job[u].i
        BY <1>1, <4>1, <4>2 DEF Prepared, Logging
      <4>4. Reporting(u, p)
        BY <4>1, <4>2, <4>3 DEF Reporting, Ahead
      <4>5. QED
        BY <1>7, <3>1, <4>4
    <3>6. QED
      BY <1>2, <2>2, <2>4, <3>2, <3>3, <3>4, <3>5 DEF RowsOf
  <2>5. QED
    BY <2>3, <2>4
<1>11. ClanRecordMatchesLog'
  BY <1>1, <1>2, <1>3, <1>4, RecordKept
<1>12. BoardsFresh'
  <2>1. Pending(t) = {}
    BY <1>4 DEF Pending
  <2>2. \A u \in Thread : Pending(u) \subseteq Pending(u)'
    BY <1>3, <2>1, PendingKept
  <2>3. \A q \in Player \ {p} : stats'[q] = stats[q]
    BY <1>1, <1>2 DEF TypeOK
  <2>4. \A b \in Board : Unshown(b) \subseteq Unshown(b)'
    BY <1>1, <1>2, <2>2, UnshownKept
  <2>5. \A b \in Board : <<"player", p>> \in Unshown(b)'
    BY <1>2, <1>5, NotShown
  <2>6. QED
    BY <1>1, <1>2, <2>3, <2>4, <2>5, FreshKept
<1>13. QED
  BY <1>3, <1>6, <1>8, <1>9, <1>10, <1>11, <1>12, IInvParts DEF IInv, Prepared

\* A page is written, with the results its row had when it was read.
LEMMA PageWritten ==
  ASSUME IInv, Noting, NEW t \in Thread, UpdateClanWrite(t)
  PROVE  IInv'
<1> DEFINE c == job[t].clan
<1>1. /\ TypeOK /\ \A u \in Thread : Prepared(u)
      /\ Distinct /\ LogSent /\ RowsRanked
      /\ StatsMatchLog /\ ClanRecordMatchesLog /\ BoardsFresh
  BY IInvParts
<1>2. /\ At(t, "updateClan") /\ job[t].next = "updateClan" /\ Finish(t)
      /\ clans' = [clans EXCEPT ![c] = job[t].page]
      /\ late' = late \union (Board \X {<<"clan", c>>})
      /\ UNCHANGED <<restricted, stats, games, log, disabled, boards, sent>>
  BY DEF UpdateClanWrite, At
<1>3. /\ job' \in [Thread -> Job] /\ \A u \in Thread \ {t} : job'[u] = job[u]
      /\ Prepared(t)' /\ Distinct' /\ Pending(t)' = {}
      /\ job'[t].added = {} /\ job'[t].next \notin ClanCalls
  BY <1>1, <1>2, Finished
<1>4. /\ job[t].added = {} /\ job[t].next \notin ClanCalls /\ job[t].op # "UpdateGame"
      /\ c \in Clan /\ job[t].page \in ClanRow
  BY <1>1, <1>2, JobIs DEF Prepared, Locals, Ahead, ClanCalls, ReportCalls
<1>5. <<"clan", c>> \in Subject
  BY <1>4 DEF Subject
<1>6. TypeOK'
  BY <1>1, <1>2, <1>3, <1>4, <1>5 DEF TypeOK, Noting
<1>7. ASSUME NEW u \in Thread \ {t} PROVE Prepared(u)'
  <2>1. \A x \in Clan : Holding(u, x) /\ StaysPlain(x) => clans'[x] = clans[x]
    <3>1. SUFFICES ASSUME Holding(u, c) PROVE ~ StaysPlain(c)
      BY <1>1, <1>2 DEF TypeOK
    <3>2. Holding(t, c)
      BY <1>2 DEF Holding
    <3>3. c \in ClanRaces
      BY <1>4, <1>7, <3>1, <3>2 DEF ClanRaces
    <3>4. QED
      BY <3>3, ClanRaceNoted
  <2>2. job[u].next \in ClanCalls => \A s \in {1, 2} : team(job[u].game, s) \in Clan
    BY <1>1, ClanTeams DEF Prepared
  <2>3. RowsOf(job[u].player)' = RowsOf(job[u].player)
    BY <1>2, <1>3 DEF RowsOf
  <2>4. QED
    BY <1>1, <1>2, <1>3, <2>1, <2>2, <2>3, Others DEF Noting
<1>8. LogSent' /\ RowsRanked' /\ RacesNoted'
  BY <1>1, <1>2 DEF LogSent, RowsRanked, RacesNoted, Noting
<1>9. StatsMatchLog'
  BY <1>1, <1>2, <1>3, <1>4, StatsKept
<1>10. ClanRecordMatchesLog'
  <2>1. SUFFICES ASSUME NEW g \in Game, NEW s \in {1, 2},
                        team(g, s) \in Clan, victory(g, s) \in Lost .. Draw,
                        <<"clan", team(g, s)>> \notin noted'
                 PROVE  OnRecord(team(g, s), <<g, s>>)' <=>
                          /\ g \in games' /\ ClanGame(g)
                          /\ ~ \E u \in Thread : job'[u].game = g /\ job'[u].next \in ClanCalls
    BY DEF ClanRecordMatchesLog, ClanCalls
  <2>2. OnRecord(team(g, s), <<g, s>>) <=>
          /\ g \in games /\ ClanGame(g)
          /\ ~ \E u \in Thread : job[u].game = g /\ job[u].next \in ClanCalls
    BY <1>1, <2>1 DEF ClanRecordMatchesLog, ClanCalls, Noting
  <2>3. (\E u \in Thread : job'[u].game = g /\ job'[u].next \in ClanCalls)
          <=> (\E u \in Thread : job[u].game = g /\ job[u].next \in ClanCalls)
    BY <1>3, <1>4
  <2>4. OnRecord(team(g, s), <<g, s>>)' <=> OnRecord(team(g, s), <<g, s>>)
    <3>1. CASE team(g, s) # c
      BY <1>1, <1>2, <3>1 DEF OnRecord, TypeOK
    <3>2. CASE team(g, s) = c
      <4>1. clans'[c] = job[t].page
        BY <1>1, <1>2, <1>4 DEF TypeOK
      <4>2. Plain(c)
        BY <2>1, <3>2 DEF Plain, Noting
      <4>3. Held(job[t].page) = Held(clans[c])
        BY <1>1, <1>2, <4>2 DEF Prepared, Editing
      <4>4. QED
        BY <3>2, <4>1, <4>3 DEF OnRecord, Held
    <3>3. QED
      BY <3>1, <3>2
  <2>5. QED
    BY <1>2, <2>2, <2>3, <2>4
<1>11. BoardsFresh'
  <2>1. Pending(t) = {}
    BY <1>4 DEF Pending
  <2>2. \A u \in Thread : Pending(u) \subseteq Pending(u)'
    BY <1>3, <2>1, PendingKept
  <2>3. \A x \in Clan \ {c} : clans'[x] = clans[x]
    BY <1>1, <1>2 DEF TypeOK
  <2>4. \A b \in Board : Unshown(b) \subseteq Unshown(b)'
    BY <1>1, <1>2, <2>2, UnshownKept
  <2>5. <<"clan", c>> \in Unshown("clan")'
    <3>1. "clan" \in Board
      BY DEF Board
    <3>2. QED
      BY <1>2, <1>5, <3>1, NotShown
  <2>6. QED
    BY <1>1, <1>2, <2>3, <2>4, <2>5, FreshKept
<1>12. QED
  BY <1>3, <1>6, <1>7, <1>8, <1>9, <1>10, <1>11, IInvParts DEF IInv, Prepared

\* The administrator freezes a player: no row of any table changes.
LEMMA RowsUnchanged ==
  ASSUME IInv, noted \subseteq noted', noted' \subseteq Subject, RacesNoted',
         restricted' \subseteq Player,
         UNCHANGED <<stats, games, log, disabled, clans, boards, sent, job, late>>
  PROVE  IInv'
<1>1. /\ TypeOK /\ \A u \in Thread : Prepared(u)
      /\ Distinct /\ LogSent /\ RowsRanked
      /\ StatsMatchLog /\ ClanRecordMatchesLog /\ BoardsFresh
  BY IInvParts
<1>2. TypeOK'
  BY <1>1 DEF TypeOK
<1>3. \A u \in Thread : Prepared(u)'
  BY <1>1, Unwritten
<1>4. Distinct' /\ LogSent' /\ RowsRanked'
  BY <1>1 DEF Distinct, LogSent, RowsRanked
<1>5. StatsMatchLog'
  BY <1>1 DEF StatsMatchLog, InFlight
<1>6. ClanRecordMatchesLog'
  BY <1>1 DEF ClanRecordMatchesLog, OnRecord
<1>7. BoardsFresh'
  <2>1. \A u \in Thread : Pending(u)' = Pending(u)
    BY PendingKept
  <2>2. \A b \in Board : Unshown(b) \subseteq Unshown(b)'
    BY <1>1, <2>1, UnshownKept
  <2>3. QED
    BY <1>1, <2>2, FreshKept
<1>8. QED
  BY <1>2, <1>3, <1>4, <1>5, <1>6, <1>7, IInvParts DEF IInv, Prepared

LEMMA Restricted ==
  ASSUME IInv, Noting, RestrictPlayer
  PROVE  IInv'
<1>1. PICK p \in Player \ restricted :
        /\ restricted' = restricted \union {p}
        /\ UNCHANGED <<stats, games, log, disabled, clans, boards, sent, job, late>>
  BY DEF RestrictPlayer
<1>2. restricted' \subseteq Player
  BY <1>1, IInvParts DEF TypeOK
<1>3. RacesNoted'
  BY DEF Noting, RacesNoted
<1>4. QED
  BY <1>1, <1>2, <1>3, RowsUnchanged DEF Noting

\* All handlers are gone: their half-done rows are noted.
LEMMA Crashed ==
  ASSUME IInv, Crash, noted \subseteq noted', noted' \subseteq Subject,
         \A t \in Thread : Interrupted(t) \subseteq noted'
  PROVE  IInv'
<1>1. /\ job' = [t \in Thread |-> NoJob]
      /\ late' = late \union (Board \X UNION {Pending(t) : t \in Thread})
      /\ UNCHANGED <<restricted, stats, games, log, disabled, clans, boards, sent>>
  BY DEF Crash, tables
<1>2. /\ TypeOK /\ \A u \in Thread : Prepared(u)
      /\ LogSent /\ RacesNoted /\ RowsRanked
      /\ StatsMatchLog /\ ClanRecordMatchesLog /\ BoardsFresh
  BY IInvParts
<1>3. \A t \in Thread : job'[t] = NoJob
  BY <1>1
<1>4. TypeOK'
  <2>1. \A t \in Thread : Pending(t) \subseteq Subject
    BY <1>2, PendingTyped
  <2>2. job' \in [Thread -> Job]
    BY <1>1, NoJobIs
  <2>3. late' \subseteq Board \X Subject
    BY <1>1, <1>2, <2>1 DEF TypeOK
  <2>4. QED
    BY <1>1, <1>2, <2>2, <2>3 DEF TypeOK
<1>5. \A t \in Thread : Prepared(t)'
  BY <1>3, NoJobIs, NewRowRanked, Unprepared
<1>6. Distinct'
  BY <1>3, NoJobIs DEF Distinct
<1>7. LogSent' /\ RowsRanked'
  BY <1>1, <1>2 DEF LogSent, RowsRanked
<1>8. RacesNoted'
  <2>1. \A t \in Thread : /\ job'[t].next = "none" /\ job'[t].added = {}
    BY <1>3, NoJobIs
  <2>2. PlayerRaces' = {}
    BY <2>1 DEF PlayerRaces, Updating, Recalculating, At
  <2>3. ClanRaces' = {}
    BY <2>1 DEF ClanRaces, Holding, At
  <2>4. QED
    BY <2>2, <2>3 DEF RacesNoted, Races
<1>9. StatsMatchLog'
  <2>1. SUFFICES ASSUME NEW q \in Player, StaysClear(q), NEW k \in Key
                 PROVE  stats'[q].games[k] =
                          IF pid(k) = q /\ (k \in log' \ disabled' \/ InFlight(k)') THEN 1 ELSE 0
    BY DEF StatsMatchLog, StaysClear
  <2>2. ~ InFlight(k)'
    BY <1>3, NoJobIs DEF InFlight
  <2>3. pid(k) = q => ~ InFlight(k)
    <3>1. SUFFICES ASSUME pid(k) = q, NEW t \in Thread, k \in job[t].added PROVE FALSE
      BY DEF InFlight
    <3>2. <<"player", pid(k)>> \in Interrupted(t)
      BY <3>1 DEF Interrupted
    <3>3. <<"player", q>> \in noted'
      BY <3>1, <3>2
    <3>4. QED
      BY <2>1, <3>3 DEF StaysClear
  <2>4. QED
    BY <1>1, <1>2, <2>1, <2>2, <2>3 DEF StatsMatchLog, StaysClear
<1>10. ClanRecordMatchesLog'
  <2>1. SUFFICES ASSUME NEW g \in Game, NEW s \in {1, 2},
                        team(g, s) \in Clan, victory(g, s) \in Lost .. Draw,
                        StaysPlain(team(g, s))
                 PROVE  OnRecord(team(g, s), <<g, s>>)' <=>
                          /\ g \in games' /\ ClanGame(g)
                          /\ ~ \E u \in Thread : job'[u].game = g /\ job'[u].next \in ClanCalls
    BY DEF ClanRecordMatchesLog, ClanCalls, StaysPlain
  <2>2. OnRecord(team(g, s), <<g, s>>) <=>
          /\ g \in games /\ ClanGame(g)
          /\ ~ \E u \in Thread : job[u].game = g /\ job[u].next \in ClanCalls
    BY <1>2, <2>1 DEF ClanRecordMatchesLog, ClanCalls, StaysPlain
  <2>3. ~ \E u \in Thread : job'[u].game = g /\ job'[u].next \in ClanCalls
    BY <1>3, NoJobIs DEF ClanCalls
  <2>4. ~ \E u \in Thread : job[u].game = g /\ job[u].next \in ClanCalls
    <3>1. SUFFICES ASSUME NEW u \in Thread, job[u].game = g, job[u].next \in ClanCalls PROVE FALSE
      OBVIOUS
    <3>2. Concerned(u) \subseteq noted'
      BY <3>1 DEF Interrupted, ClanCalls
    <3>3. ~ StaysPlain(team(g, s))
      BY <1>2, <3>1, <3>2, ClansConcerned DEF Prepared
    <3>4. QED
      BY <2>1, <3>3
  <2>5. OnRecord(team(g, s), <<g, s>>)' <=> OnRecord(team(g, s), <<g, s>>)
    BY <1>1 DEF OnRecord
  <2>6. QED
    BY <1>1, <2>2, <2>3, <2>4, <2>5
<1>11. BoardsFresh'
  <2>1. \A t \in Thread : \A x \in Pending(t) : \A b \in Board : <<b, x>> \in late'
    BY <1>1
  <2>2. \A b \in Board : Unshown(b) \subseteq Unshown(b)'
    BY <1>1, <1>2, <2>1, UnshownKept
  <2>3. QED
    BY <1>1, <1>2, <2>2, FreshKept
<1>12. QED
  BY <1>4, <1>5, <1>6, <1>7, <1>8, <1>9, <1>10, <1>11, IInvParts DEF IInv, Prepared

-----------------------------------------------------------------------------
(***************************************************************************)
(* The invariant holds at first, and every step keeps it.                  *)
(***************************************************************************)
LEMMA InitHolds == Init => IInv
<1> SUFFICES ASSUME Init PROVE IInv
  OBVIOUS
<1>1. /\ restricted = {} /\ games = {} /\ log = {} /\ disabled = {} /\ sent = {}
      /\ noted = {} /\ late = {}
      /\ stats = [p \in Player |-> NewRow] /\ clans = [c \in Clan |-> NewClan]
      /\ boards = [b \in Board |-> TableOf(b)]
      /\ job = [t \in Thread |-> NoJob]
  BY DEF Init
<1>2. \A t \in Thread :
        /\ job[t] = NoJob /\ job[t].op = "none" /\ job[t].next = "none" /\ job[t].added = {}
        /\ job[t].row = NewRow
  BY <1>1, NoJobIs
<1>3. TypeOK
  <2>1. stats \in [Player -> Row] /\ clans \in [Clan -> ClanRow] /\ job \in [Thread -> Job]
    BY <1>1, NewRowRanked, NewClanIs, NoJobIs
  <2>2. /\ DOMAIN boards = Board
        /\ \A b \in Board \ {"clan"} : boards[b] \in [Player -> Row] \union {NoTable}
        /\ boards["clan"] \in [Clan -> ClanRow] \union {NoTable}
    BY <1>1, <2>1 DEF TableOf, Board
  <2>3. QED
    BY <1>1, <2>1, <2>2 DEF TypeOK
<1>4. \A t \in Thread : Locals(t)
  BY <1>2, NewRowRanked DEF Locals, At, ReportCalls, Ahead, ClanCalls
<1>5. \A t \in Thread :
        Logging(t) /\ Adding(t) /\ Summing(t) /\ Rating(t) /\ Editing(t)
  BY <1>2 DEF Logging, Adding, Summing, Rating, Editing, At, Ahead, ClanCalls
<1>6. Distinct /\ LogSent /\ RowsRanked
  BY <1>1, <1>2, NewRowRanked DEF Distinct, LogSent, RowsRanked
<1>7. RacesNoted
  <2>1. PlayerRaces = {}
    BY <1>2 DEF PlayerRaces, Updating, Recalculating, At
  <2>2. ClanRaces = {}
    BY <1>2 DEF ClanRaces, Holding, At
  <2>3. QED
    BY <2>1, <2>2 DEF RacesNoted, Races
<1>8. StatsMatchLog
  <2>1. \A k \in Key : ~ InFlight(k) /\ k \notin log
    BY <1>1, <1>2 DEF InFlight
  <2>2. \A p \in Player, k \in Key : stats[p].games[k] = 0
    BY <1>1 DEF NewRow
  <2>3. QED
    BY <2>1, <2>2 DEF StatsMatchLog
<1>9. ClanRecordMatchesLog
  <2>1. \A c \in Clan : Held(clans[c]) = {}
    BY <1>1 DEF NewClan, Held
  <2>2. QED
    BY <1>1, <2>1 DEF ClanRecordMatchesLog, OnRecord, Held
<1>10. BoardsFresh
  <2>1. /\ \A b \in Board \ {"clan"} : boards[b] = stats
        /\ boards["clan"] = clans
    BY <1>1 DEF TableOf, Board
  <2>2. DOMAIN stats = Player /\ DOMAIN clans = Clan
    BY <1>1
  <2>3. QED
    BY <2>1, <2>2 DEF BoardsFresh
<1>11. QED
  BY <1>3, <1>4, <1>5, <1>6, <1>7, <1>8, <1>9, <1>10 DEF IInv

LEMMA RacesTyped == Races' \subseteq Subject
BY DEF Races, PlayerRaces, ClanRaces, Subject

LEMMA ConcernedTyped ==
  ASSUME IInv, NEW t \in Thread
  PROVE  Concerned(t) \subseteq Subject
<1>1. TypeOK /\ Locals(t)
  BY IInvParts DEF Prepared
<1>2. CASE job[t].next \in {"queryPlayer", "updatePlayerStats"}
  <2>1. pid(Current(t)) \in Player
    BY <1>1, <1>2, ReportingJob DEF ReportCalls, Ahead
  <2>2. Concerned(t) = {<<"player", pid(Current(t))>>}
    BY <1>2 DEF Concerned, At
  <2>3. QED
    BY <2>1, <2>2 DEF Subject
<1>3. CASE job[t].next = "insertGameStat"
  <2>1. \A k \in KeysOf(job[t].game) : pid(k) \in Player
    BY KeysOfIs, KeyIs
  <2>2. Concerned(t) = {<<"player", pid(k)>> : k \in KeysOf(job[t].game)} \union
          {<<"clan", c>> : c \in Clan \intersect {team(job[t].game, 1), team(job[t].game, 2)}}
    BY <1>3 DEF Concerned, At
  <2>3. QED
    BY <2>1, <2>2 DEF Subject
<1>4. CASE job[t].next \in ClanCalls
  <2>1. team(job[t].game, 1) \in Clan /\ team(job[t].game, 2) \in Clan
    BY <1>1, <1>4, ClanTeams
  <2>2. Concerned(t) = {<<"clan", team(job[t].game, 1)>>, <<"clan", team(job[t].game, 2)>>}
    BY <1>4 DEF Concerned, ClanCalls, At
  <2>3. QED
    BY <2>1, <2>2 DEF Subject
<1>5. CASE job[t].next \in {"count", "page"}
  <2>1. job[t].player \in Player
    BY <1>1, <1>5 DEF Locals
  <2>2. Concerned(t) = {<<"player", job[t].player>>}
    BY <1>5 DEF Concerned, At
  <2>3. QED
    BY <2>1, <2>2 DEF Subject
<1>6. CASE job[t].next \notin {"queryPlayer", "updatePlayerStats", "insertGameStat",
                               "count", "page"} \union ClanCalls
  BY <1>6 DEF Concerned, ClanCalls, At
<1>7. QED
  BY <1>2, <1>3, <1>4, <1>5, <1>6

\* The row that is noted when the read of a page fails.
LEMMA PageReadTyped ==
  ASSUME TypeOK, NEW t \in Thread, UpdateClanReadFails(t)
  PROVE  <<"clan", job'[t].clan>> \in Subject
<1>1. PICK c \in Clan, i \in Info :
        job' = [job EXCEPT ![t] = [NoJob EXCEPT !.op = "UpdateClan", !.next = "updateClan",
                                      !.clan = c, !.page = [NewClan EXCEPT !.info = i]]]
  BY DEF UpdateClanReadFails
<1>2. job'[t].clan = c
  BY <1>1, NoJobIs DEF TypeOK, Job
<1>3. QED
  BY <1>2 DEF Subject

LEMMA InterruptedTyped ==
  ASSUME IInv, NEW t \in Thread
  PROVE  Interrupted(t) \subseteq Subject
<1>1. \A k \in job[t].added : pid(k) \in Player
  BY IInvParts, JobIs, KeyIs
<1>2. QED
  BY <1>1, ConcernedTyped DEF Interrupted, Subject

LEMMA NextKeeps == IInv /\ [Next]_vars => IInv'
<1> SUFFICES ASSUME IInv, [Next]_vars PROVE IInv'
  OBVIOUS
<1>1. TypeOK
  BY IInvParts
<1>2. ASSUME RestrictPlayer \/ \E t \in Thread : Step(t), noted' = noted \union Races'
      PROVE  IInv'
  <2>1. Noting
    BY <1>1, <1>2, RacesTyped DEF Noting, TypeOK
  <2>2. CASE RestrictPlayer
    BY <2>1, <2>2, Restricted
  <2>3. ASSUME NEW t \in Thread, Step(t) PROVE IInv'
    <3>1. CASE UpdateGame(t)
      BY <2>1, <3>1, Started, QuietStep
    <3>2. CASE QueryPlayer(t)
      BY <2>1, <3>2, PlayerQueried, QuietStep
    <3>3. CASE WritePlayer(t)
      BY <2>1, <3>3, PlayerWritten
    <3>4. CASE InsertGame(t)
      BY <2>1, <3>4, GameInserted
    <3>5. CASE QueryClans(t)
      BY <2>1, <3>5, ClansQueried, QuietStep
    <3>6. CASE WriteClans(t)
      BY <2>1, <3>6, ClansWritten
    <3>7. CASE CreateLeaderboards(t)
      BY <2>1, <3>7, LeaderboardsCreated
    <3>8. CASE Recalc(t)
      BY <2>1, <3>8, RecalcStarted, QuietStep
    <3>9. CASE RecalcCount(t)
      BY <2>1, <3>9, RowsCounted, QuietStep
    <3>10. CASE RecalcPage(t)
      BY <2>1, <3>10, PageQueried, QuietStep
    <3>11. CASE RecalcWrite(t)
      BY <2>1, <3>11, RecalcWritten
    <3>12. CASE UpdateClan(t)
      BY <2>1, <3>12, PageUpdateStarted, QuietStep
    <3>13. CASE UpdateClanWrite(t)
      BY <2>1, <3>13, PageWritten
    <3>14. QED
      BY <2>3, <3>1, <3>2, <3>3, <3>4, <3>5, <3>6, <3>7, <3>8, <3>9, <3>10, <3>11, <3>12, <3>13
         DEF Step
  <2>4. QED
    BY <1>2, <2>2, <2>3
<1>3. ASSUME NEW t \in Thread, Failure(t), noted' = noted \union Races' \union Concerned(t)
      PROVE  IInv'
  <2>1. Noting /\ Concerned(t) \subseteq noted'
    BY <1>1, <1>3, RacesTyped, ConcernedTyped DEF Noting, TypeOK
  <2>2. CASE QueryPlayerFails(t)
    BY <2>1, <2>2, PlayerQueryFailed, QuietStep
  <2>3. CASE WritePlayerFails(t)
    BY <2>1, <2>3, PlayerWriteFailed, QuietStep
  <2>4. CASE InsertGameFails(t)
    BY <2>1, <2>4, GameInsertFailed
  <2>5. CASE QueryClansFails(t)
    BY <2>1, <2>5, ClansQueryFailed, QuietStep
  <2>6. CASE WriteClansFails(t)
    BY <2>1, <2>6, ClansWriteFailed, QuietStep
  <2>7. CASE CreateLeaderboardsFails(t)
    BY <2>1, <2>7, LeaderboardsFailed
  <2>8. CASE RecalcCountFails(t)
    BY <2>1, <2>8, CountFailed, QuietStep
  <2>9. CASE RecalcPageFails(t)
    BY <2>1, <2>9, PageQueryFailed, QuietStep
  <2>10. CASE RecalcWriteFails(t) \/ UpdateClanWriteFails(t)
    BY <2>1, <2>10, AnswersFailed, QuietStep
  <2>11. QED
    BY <1>3, <2>2, <2>3, <2>4, <2>5, <2>6, <2>7, <2>8, <2>9, <2>10 DEF Failure
<1>4. ASSUME NEW t \in Thread, UpdateClanReadFails(t),
             noted' = noted \union Races' \union {<<"clan", job'[t].clan>>}
      PROVE  IInv'
  <2>1. Noting
    BY <1>1, <1>4, RacesTyped, PageReadTyped DEF Noting, TypeOK
  <2>2. QED
    BY <1>4, <2>1, PageReadFailed, QuietStep
<1>5. ASSUME Crash, noted' = noted \union UNION {Interrupted(t) : t \in Thread}
      PROVE  IInv'
  <2>1. noted \subseteq noted' /\ \A t \in Thread : Interrupted(t) \subseteq noted'
    BY <1>5
  <2>2. noted' \subseteq Subject
    BY <1>1, <1>5, InterruptedTyped DEF TypeOK
  <2>3. QED
    BY <1>5, <2>1, <2>2, Crashed
<1>6. CASE UNCHANGED vars
  <2>1. /\ UNCHANGED <<stats, games, log, disabled, clans, boards, sent, job, late>>
        /\ restricted' = restricted /\ noted' = noted
    BY <1>6 DEF vars, tables
  <2>2. Races' = Races
    BY <2>1 DEF Races, PlayerRaces, ClanRaces, Updating, Reporting, Recalculating, Holding,
                Current, At
  <2>3. RacesNoted'
    BY <2>1, <2>2, IInvParts DEF RacesNoted
  <2>4. QED
    BY <1>1, <2>1, <2>3, RowsUnchanged DEF TypeOK
<1>7. CASE Next
  <2>1. CASE (RestrictPlayer \/ \E t \in Thread : Step(t)) /\ noted' = noted \union Races'
    BY <1>2, <2>1
  <2>2. CASE \E t \in Thread : Failure(t) /\ noted' = noted \union Races' \union Concerned(t)
    BY <1>3, <2>2
  <2>3. CASE \E t \in Thread : /\ UpdateClanReadFails(t)
                               /\ noted' = noted \union Races' \union {<<"clan", job'[t].clan>>}
    BY <1>4, <2>3
  <2>4. CASE Crash /\ noted' = noted \union UNION {Interrupted(t) : t \in Thread}
    BY <1>5, <2>4
  <2>5. QED
    BY <1>7, <2>1, <2>2, <2>3, <2>4 DEF Next
<1>8. QED
  BY <1>6, <1>7

LEMMA Invariance == Spec => []IInv
BY InitHolds, NextKeeps, PTL DEF Spec

-----------------------------------------------------------------------------
(***************************************************************************)
(* Theorems.                                                               *)
(***************************************************************************)
\* Types: the handlers of reports, recalculations and page updates keep the
\* tables and their own variables in range, whatever calls fail.
THEOREM StatTypes == Spec => []TypeOK
<1>1. IInv => TypeOK
  BY DEF IInv
<1>2. QED
  BY <1>1, Invariance, PTL

\* Statistics are the sum of the enabled lines of the log: reports of any number
\* of games on any number of threads, restrictions in between, recalculations.
THEOREM StatsAreOfLog == Spec => []StatsMatchLog
<1>1. IInv => StatsMatchLog
  BY DEF IInv
<1>2. QED
  BY <1>1, Invariance, PTL

\* A clan's record holds the results of its logged games.
THEOREM RecordsAreOfLog == Spec => []ClanRecordMatchesLog
<1>1. IInv => ClanRecordMatchesLog
  BY DEF IInv
<1>2. QED
  BY <1>1, Invariance, PTL

\* What the leaderboards do not show is under way, or was left out by something
\* other than a report.
THEOREM BoardsAreFresh == Spec => []BoardsFresh
<1>1. IInv => BoardsFresh
  BY DEF IInv
<1>2. QED
  BY <1>1, Invariance, PTL

\* The rank in the table is the one the other columns earn, however they got
\* there: setters that rank too early are made good by those that follow.
THEOREM RanksAreEarned == Spec => []RankMatches
<1>1. IInv => RankMatches
  BY DEF IInv, RowsRanked, IsRanked, RankMatches
<1>2. QED
  BY <1>1, Invariance, PTL

LEMMA PageKept ==
  ASSUME IInv, Noting, NEW t \in Thread, WriteClans(t), NEW c \in Clan, StaysPlain(c)
  PROVE  clans'[c].info = clans[c].info
<1>1. Rating(t) /\ At(t, "updateClans") /\ job[t].next \in ClanCalls
  BY IInvParts DEF Prepared, WriteClans, At, ClanCalls
<1>2. CASE c \notin {team(job[t].game, 1), team(job[t].game, 2)}
  BY <1>2, TwoRows
<1>3. ASSUME NEW s \in {1, 2}, c = team(job[t].game, s) PROVE clans'[c].info = clans[c].info
  <2>1. clans'[c] = job[t].rows[s]
    BY <1>3, TwoRows
  <2>2. Plain(c)
    BY DEF Noting, Plain, StaysPlain
  <2>3. job[t].rows[s].info = clans[c].info
    BY <1>1, <1>3, <2>2 DEF Rating
  <2>4. QED
    BY <2>1, <2>3
<1>4. QED
  BY <1>2, <1>3

\* A report writes a clan's page back as it has found it, although it writes
\* the whole row.
THEOREM PagesAreKept == Spec => ReportsKeepThePage
<1> DEFINE Kept ==
      \A c \in Clan :
        clans'[c].info # clans[c].info =>
          \/ <<"clan", c>> \in noted'
          \/ \E t \in Thread :
               job[t].clan = c /\ At(t, "updateClan") /\ clans'[c].info = job[t].page.info
<1>1. clans' = clans => Kept
  OBVIOUS
<1>2. ASSUME IInv, Noting, NEW t \in Thread, WriteClans(t) PROVE Kept
  <2>1. \A c \in Clan : <<"clan", c>> \notin noted' => clans'[c].info = clans[c].info
    BY <1>2, PageKept DEF StaysPlain
  <2>2. QED
    BY <2>1
<1>3. ASSUME IInv, NEW t \in Thread, UpdateClanWrite(t) PROVE Kept
  <2>1. /\ At(t, "updateClan") /\ clans' = [clans EXCEPT ![job[t].clan] = job[t].page]
        /\ clans \in [Clan -> ClanRow]
    BY <1>3, IInvParts DEF UpdateClanWrite, TypeOK
  <2>2. QED
    BY <2>1
<1>4. ASSUME NEW t \in Thread, Step(t), ~ WriteClans(t), ~ UpdateClanWrite(t)
      PROVE  clans' = clans
  BY <1>4 DEF Step, UpdateGame, QueryPlayer, WritePlayer, InsertGame, QueryClans,
              CreateLeaderboards, Recalc, RecalcCount, RecalcPage, RecalcWrite, UpdateClan, tables
<1>5. ASSUME NEW t \in Thread, Failure(t) PROVE clans' = clans
  BY <1>5 DEF Failure, QueryPlayerFails, WritePlayerFails, InsertGameFails, QueryClansFails,
              WriteClansFails, CreateLeaderboardsFails, RecalcCountFails, RecalcPageFails,
              RecalcWriteFails, UpdateClanWriteFails, tables
<1>6. /\ RestrictPlayer \/ Crash \/ UNCHANGED vars => clans' = clans
      /\ \A t \in Thread : UpdateClanReadFails(t) => clans' = clans
  BY DEF RestrictPlayer, Crash, UpdateClanReadFails, vars, tables
<1>7. IInv /\ [Next]_vars => Kept
  <2>1. SUFFICES ASSUME IInv, [Next]_vars PROVE Kept
    OBVIOUS
  <2>2. ASSUME NEW t \in Thread, Step(t), noted' = noted \union Races' PROVE Kept
    <3>1. Noting
      BY <2>1, <2>2, RacesTyped DEF Noting, IInv, TypeOK
    <3>2. QED
      BY <1>1, <1>2, <1>3, <1>4, <2>1, <2>2, <3>1
  <2>3. ASSUME NEW t \in Thread, Failure(t) PROVE Kept
    BY <1>1, <1>5, <2>3
  <2>4. CASE \/ RestrictPlayer \/ Crash \/ UNCHANGED vars
             \/ \E t \in Thread : UpdateClanReadFails(t)
    BY <1>1, <1>6, <2>4
  <2>5. \/ RestrictPlayer \/ Crash \/ UNCHANGED vars
        \/ \E t \in Thread : UpdateClanReadFails(t)
        \/ \E t \in Thread : Step(t) /\ noted' = noted \union Races'
        \/ \E t \in Thread : Failure(t)
    BY <2>1 DEF Next
  <2> HIDE DEF Kept
  <2>6. QED
    BY <2>2, <2>3, <2>4, <2>5
<1>8. QED
  BY <1>7, Invariance, PTL DEF Spec, ReportsKeepThePage

=============================================================================
