---------------------------- MODULE StatsProofs ----------------------------
(***************************************************************************)
(* Proofs about the numbers in the rows of players and clans: medals,      *)
(* points per hour, and the points two clans play for; and that the rows   *)
(* are the accounts of Ledger.                                             *)
(*                                                                         *)
(* GameStatsProofs says which lines are in a row; here it is what they     *)
(* make of it.  RowsEarned, an invariant of all rows in the table and in   *)
(* the hands of handlers, spoiled or not, says that the medals of a row    *)
(* are those of its best line, and that score and points per hour are      *)
(* within the rate of its best line.  Every row a step makes is an         *)
(* Offspring: new, or an Update of a row that is there already, so it is   *)
(* enough that Load and Update keep a row earned.                          *)
(*                                                                         *)
(* The argument about points per hour is not linear; products are taken    *)
(* apart by the lemmas of the first section.                               *)
(*                                                                         *)
(* For clans, Weighs says that the rows a report is about to write were    *)
(* rated with the points that are still in the table.                      *)
(*                                                                         *)
(* The last section proves that GameStats implements Ledger.  RowsFiled    *)
(* says that each result is in the column of its victory, so that what a   *)
(* row holds decides its columns; IInv of GameStats has the rest: the      *)
(* guards of Count and Enter in Logging and Adding, of Settle in Rating.   *)
(***************************************************************************)
EXTENDS GameStatsProofs

(***************************************************************************)
(* Products and quotients.                                                 *)
(***************************************************************************)

LEMMA Products ==
  ASSUME NEW a \in Nat, NEW b \in Nat
  PROVE  a * b \in Nat
OBVIOUS

LEMMA Distributes ==
  ASSUME NEW a \in Int, NEW b \in Int, NEW c \in Int
  PROVE  (a + b) * c = a * c + b * c /\ (a - b) * c = a * c - b * c /\ a * c = c * a
OBVIOUS

LEMMA Scaled ==
  ASSUME NEW a \in Int, NEW b \in Int, NEW c \in Nat, a <= b
  PROVE  a * c <= b * c
<1>1. b - a \in Nat
  OBVIOUS
<1>2. (b - a) * c \in Nat
  BY <1>1, Products
<1>3. (b - a) * c = b * c - a * c
  BY Distributes
<1>4. QED
  BY <1>2, <1>3

LEMMA ProductPositive ==
  ASSUME NEW a \in Int, NEW b \in Nat, a * b > 0
  PROVE  a > 0 /\ b > 0
<1>1. a > 0
  <2>1. SUFFICES ASSUME a <= 0 PROVE FALSE
    OBVIOUS
  <2>2. a * b <= 0 * b
    BY <2>1, Scaled
  <2>3. QED
    BY <2>2
<1>2. b # 0
  OBVIOUS
<1>3. QED
  BY <1>1, <1>2

LEMMA Division ==
  ASSUME NEW a \in Nat, NEW b \in Nat \ {0}
  PROVE  /\ a \div b \in Nat
         /\ (a \div b) * b <= a /\ a < (a \div b + 1) * b
OBVIOUS

LEMMA QuotientBelow ==
  ASSUME NEW a \in Nat, NEW b \in Nat \ {0}, NEW n \in Int, a <= n * b
  PROVE  a \div b <= n
<1>1. a \div b \in Nat /\ (a \div b) * b <= a
  BY Division
<1>2. SUFFICES ASSUME n + 1 <= a \div b PROVE FALSE
  BY <1>1
<1>3. (n + 1) * b <= (a \div b) * b
  BY <1>1, <1>2, Scaled
<1>4. (n + 1) * b = n * b + b
  BY Distributes
<1>5. n * b \in Int /\ (a \div b) * b \in Int
  BY <1>1
<1>6. QED
  BY <1>1, <1>3, <1>4, <1>5

LEMMA WordBelow ==
  ASSUME NEW n \in Nat, NEW w \in ToWord(n)
  PROVE  w \in Nat /\ w <= n
<1>1. n % Word \in Nat /\ n % Word <= n
  BY PlayerStatsAssumption
<1>2. QED
  BY <1>1 DEF ToWord

-----------------------------------------------------------------------------
(***************************************************************************)
(* A row and the lines it has taken in.                                    *)
(***************************************************************************)
Taken(r) == {k \in Key : r.games[k] > 0}

\* The medals are those of the line with the most.
Decorated(r) ==
  /\ \A k \in Taken(r) : Cardinality(lineAt(k).medals) <= Cardinality(r.medals)
  /\ r.medals = {} \/ \E k \in Taken(r) : r.medals = lineAt(k).medals

\* Neither the points in all the time nor the points per hour are above what the
\* best game brings.
Averaged(r) ==
  (\A k \in Taken(r) : Sane(k)) =>
    /\ r.score > 0 => \E k \in Taken(r) : r.score * Hour <= Rate(k) * r.time
    /\ r.pph > 0 => \E k \in Taken(r) : r.pph <= 100 * Rate(k)

LEMMA SettersKeep ==
  ASSUME NEW r \in Row, NEW n \in Int, NEW M \in SUBSET Medal
  PROVE  /\ SetScore(r, n).score = n /\ SetScore(r, n).time = r.time
         /\ SetScore(r, n).pph = r.pph /\ SetScore(r, n).medals = r.medals
         /\ SetPPH(r, n).score = r.score /\ SetPPH(r, n).time = r.time
         /\ SetPPH(r, n).pph = n /\ SetPPH(r, n).medals = r.medals
         /\ SetRank(r, n).score = r.score /\ SetRank(r, n).time = r.time
         /\ SetRank(r, n).pph = r.pph /\ SetRank(r, n).medals = r.medals
         /\ SetMedals(r, M).score = r.score /\ SetMedals(r, M).time = r.time
         /\ SetMedals(r, M).pph = r.pph
         /\ SetMedals(r, M).medals =
              IF Cardinality(M) > Cardinality(r.medals) THEN M ELSE r.medals
<1>1. \A x \in Row : /\ Ranked(x).score = x.score /\ Ranked(x).time = x.time
                     /\ Ranked(x).pph = x.pph /\ Ranked(x).medals = x.medals
  BY DEF Ranked, Row
<1>2. /\ SetScore(r, n).score = n /\ SetScore(r, n).time = r.time
      /\ SetScore(r, n).pph = r.pph /\ SetScore(r, n).medals = r.medals
  BY DEF SetScore, Ranked, Row
<1>3. /\ SetPPH(r, n).score = r.score /\ SetPPH(r, n).time = r.time
      /\ SetPPH(r, n).pph = n /\ SetPPH(r, n).medals = r.medals
  BY DEF SetPPH, Ranked, Row
<1>4. /\ SetRank(r, n).score = r.score /\ SetRank(r, n).time = r.time
      /\ SetRank(r, n).pph = r.pph /\ SetRank(r, n).medals = r.medals
  BY DEF SetRank, Row
<1>5. /\ SetMedals(r, M).score = r.score /\ SetMedals(r, M).time = r.time
      /\ SetMedals(r, M).pph = r.pph
      /\ SetMedals(r, M).medals =
           IF Cardinality(M) > Cardinality(r.medals) THEN M ELSE r.medals
  <2>1. CASE Cardinality(M) > Cardinality(r.medals)
    <3>1. SetMedals(r, M) = Ranked([r EXCEPT !.medals = M])
      BY <2>1 DEF SetMedals
    <3>2. /\ [r EXCEPT !.medals = M] \in Row
          /\ [r EXCEPT !.medals = M].score = r.score /\ [r EXCEPT !.medals = M].time = r.time
          /\ [r EXCEPT !.medals = M].pph = r.pph /\ [r EXCEPT !.medals = M].medals = M
      BY DEF Row
    <3>3. QED
      BY <1>1, <2>1, <3>1, <3>2
  <2>2. CASE ~ (Cardinality(M) > Cardinality(r.medals))
    BY <2>2 DEF SetMedals
  <2>3. QED
    BY <2>1, <2>2
<1>6. QED
  BY <1>2, <1>3, <1>4, <1>5

LEMMA NumbersKeep ==
  ASSUME NEW r \in Row, NEW n \in Nat
  PROVE  /\ SetPPH(r, n) \in Row /\ SetPPH(r, n).pph = n
         /\ SetPPH(r, n).score = r.score /\ SetPPH(r, n).time = r.time
         /\ SetPPH(r, n).medals = r.medals
         /\ SetRank(r, n) \in Row /\ SetRank(r, n).score = r.score
         /\ SetRank(r, n).time = r.time /\ SetRank(r, n).medals = r.medals
<1>1. {} \in SUBSET Medal /\ n \in Int
  OBVIOUS
<1>2. QED
  BY <1>1, Setters, SettersKeep

LEMMA ScoreKeeps ==
  ASSUME NEW r \in Row, NEW n \in Int
  PROVE  /\ SetScore(r, n) \in Row /\ SetScore(r, n).score = n /\ SetScore(r, n).pph = r.pph
         /\ SetScore(r, n).time = r.time /\ SetScore(r, n).medals = r.medals
<1>1. {} \in SUBSET Medal /\ 0 \in Nat
  OBVIOUS
<1>2. QED
  BY <1>1, Setters, SettersKeep

LEMMA MedalsKeep ==
  ASSUME NEW r \in Row, NEW M \in SUBSET Medal
  PROVE  /\ SetMedals(r, M).score = r.score /\ SetMedals(r, M).time = r.time
         /\ SetMedals(r, M).pph = r.pph
         /\ SetMedals(r, M).medals =
              IF Cardinality(M) > Cardinality(r.medals) THEN M ELSE r.medals
<1>1. 0 \in Int
  OBVIOUS
<1>2. QED
  BY <1>1, SettersKeep

\* The medals of a line are finitely many.
LEMMA MedalsCount ==
  ASSUME NEW M \in SUBSET Medal
  PROVE  Cardinality(M) \in Nat /\ (Cardinality(M) = 0 <=> M = {})
BY FS_Subset, FS_CardinalityType, FS_EmptySet, PlayerStatsAssumption

\* Update, column by column.
LEMMA UpdatedColumns ==
  ASSUME NEW r \in Row, IsRanked(r), NEW k \in Key, NEW line \in Line,
         NEW q \in Update(r, k, line)
  PROVE  /\ q.score = r.score + line.score /\ q.time = r.time + line.time
         /\ q.pph \in calcNewPPH(r, line.time, line.score)
         /\ q.medals = IF Cardinality(line.medals) > Cardinality(r.medals)
                       THEN line.medals ELSE r.medals
<1>1. line.score \in Int /\ line.time \in Nat /\ line.medals \in SUBSET Medal
  BY DEF Line
<1>2. PICK n \in calcNewPPH(r, line.time, line.score) :
        q = LET averaged == IF line.score = NameChange THEN r ELSE SetPPH(r, n)
                summed   == [averaged EXCEPT !.games[k] = @ + 1]
                scored   == SetScore(summed, r.score + line.score)
                timed    == [scored EXCEPT !.time = @ + line.time]
            IN  SetMedals(timed, line.medals)
  BY DEF Update
<1> DEFINE averaged == IF line.score = NameChange THEN r ELSE SetPPH(r, n)
           summed   == [averaged EXCEPT !.games[k] = @ + 1]
           scored   == SetScore(summed, r.score + line.score)
           timed    == [scored EXCEPT !.time = @ + line.time]
<1>3. q = SetMedals(timed, line.medals)
  BY <1>2
<1>4. n \in Nat
  BY <1>1, PPHIs
<1>5. averaged \in Row /\ averaged.pph \in calcNewPPH(r, line.time, line.score)
        /\ averaged.time = r.time /\ averaged.medals = r.medals
  <2>1. CASE line.score = NameChange
    BY <2>1 DEF calcNewPPH
  <2>2. CASE line.score # NameChange
    BY <1>2, <1>4, <2>2, NumbersKeep
  <2>3. QED
    BY <2>1, <2>2
<1> HIDE DEF averaged
<1>6. summed \in Row /\ summed.pph = averaged.pph /\ summed.time = averaged.time
        /\ summed.medals = averaged.medals
  BY <1>5 DEF Row
<1> HIDE DEF summed
<1>7. r.score + line.score \in Int
  BY <1>1 DEF Row
<1>8. scored \in Row /\ scored.score = r.score + line.score /\ scored.pph = summed.pph
        /\ scored.time = summed.time /\ scored.medals = summed.medals
  BY <1>6, <1>7, ScoreKeeps
<1> HIDE DEF scored
<1>9. timed \in Row /\ timed.score = scored.score /\ timed.pph = scored.pph
        /\ timed.time = scored.time + line.time /\ timed.medals = scored.medals
  BY <1>1, <1>8 DEF Row
<1> HIDE DEF timed
<1>10. QED
  BY <1>1, <1>3, <1>5, <1>6, <1>8, <1>9, MedalsKeep

\* Load gives the row back, but for its rank.
LEMMA LoadedColumns ==
  ASSUME NEW r \in Row
  PROVE  /\ Load(r).score = r.score /\ Load(r).time = r.time /\ Load(r).pph = r.pph
         /\ Load(r).medals = r.medals
<1> DEFINE sums   == [NewRow EXCEPT !.games = r.games, !.time = r.time]
           scored == SetRank(SetScore(sums, r.score), r.ran)
           paced  == SetPPH(scored, r.pph)
<1>1. r.score \in Int /\ r.ran \in Nat /\ r.pph \in Nat /\ r.medals \in SUBSET Medal
  BY DEF Row
<1>2. sums \in Row /\ sums.time = r.time /\ sums.medals = {}
  BY NewRowRanked DEF Row, NewRow
<1>3. Load(r) = SetMedals(paced, r.medals)
  BY DEF Load
<1> HIDE DEF sums
<1>4. SetScore(sums, r.score) \in Row /\ SetScore(sums, r.score).score = r.score
        /\ SetScore(sums, r.score).time = r.time /\ SetScore(sums, r.score).medals = {}
  BY <1>1, <1>2, ScoreKeeps
<1>5. scored \in Row /\ scored.score = r.score /\ scored.time = r.time /\ scored.medals = {}
  BY <1>1, <1>4, NumbersKeep
<1> HIDE DEF scored
<1>6. paced \in Row /\ paced.score = r.score /\ paced.time = r.time /\ paced.medals = {}
        /\ paced.pph = r.pph
  BY <1>1, <1>5, NumbersKeep
<1> HIDE DEF paced
<1>7. Cardinality(r.medals) > Cardinality({}) \/ r.medals = {}
  <2>1. Cardinality({}) = 0
    BY FS_EmptySet
  <2>2. QED
    BY <1>1, <2>1, MedalsCount
<1>8. QED
  BY <1>1, <1>3, <1>6, <1>7, MedalsKeep

LEMMA LoadedEarned ==
  ASSUME NEW r \in Row
  PROVE  /\ Decorated(r) => Decorated(Load(r))
         /\ Averaged(r) => Averaged(Load(r))
<1>1. Taken(Load(r)) = Taken(r)
  BY LoadedRow DEF Taken
<1>2. QED
  BY <1>1, LoadedColumns DEF Decorated, Averaged

LEMMA TakenGrows ==
  ASSUME NEW r \in Row, IsRanked(r), NEW k \in Key, NEW q \in Update(r, k, lineAt(k))
  PROVE  Taken(q) = Taken(r) \union {k}
<1>1. lineAt(k) \in Line
  BY KeyIs
<1>2. q.games = [r.games EXCEPT ![k] = @ + 1] /\ r.games \in [Key -> Nat]
  BY <1>1, UpdatedRow DEF Row
<1>3. QED
  BY <1>2 DEF Taken

LEMMA UpdatedDecorated ==
  ASSUME NEW r \in Row, IsRanked(r), Decorated(r), NEW k \in Key,
         NEW q \in Update(r, k, lineAt(k))
  PROVE  Decorated(q)
<1> DEFINE M == lineAt(k).medals
<1>1. lineAt(k) \in Line /\ M \in SUBSET Medal /\ r.medals \in SUBSET Medal
  BY KeyIs DEF Line, Row
<1>2. q.medals = IF Cardinality(M) > Cardinality(r.medals) THEN M ELSE r.medals
  BY <1>1, UpdatedColumns
<1>3. Cardinality(M) \in Nat /\ Cardinality(r.medals) \in Nat
  BY <1>1, MedalsCount
<1>4. Cardinality(M) <= Cardinality(q.medals) /\ Cardinality(r.medals) <= Cardinality(q.medals)
        /\ Cardinality(q.medals) \in Nat
  BY <1>2, <1>3
<1>5. \A x \in Taken(r) : Cardinality(lineAt(x).medals) \in Nat
  <2>1. \A x \in Taken(r) : lineAt(x).medals \in SUBSET Medal
    BY KeyIs DEF Taken, Line
  <2>2. QED
    BY <2>1, MedalsCount
<1>6. \A x \in Taken(q) : Cardinality(lineAt(x).medals) <= Cardinality(q.medals)
  BY <1>3, <1>4, <1>5, TakenGrows DEF Decorated
<1>7. q.medals = {} \/ \E x \in Taken(q) : q.medals = lineAt(x).medals
  BY <1>2, TakenGrows DEF Decorated
<1>8. QED
  BY <1>6, <1>7 DEF Decorated

(***************************************************************************)
(* The average of games is not above the best one.                         *)
(***************************************************************************)
LEMMA RateIs ==
  ASSUME NEW k \in Key, Sane(k)
  PROVE  /\ Rate(k) \in Int
         /\ lineAt(k).score >= 0 =>
              Rate(k) > 0 /\ lineAt(k).score * Hour <= Rate(k) * lineAt(k).time
<1>1. lineAt(k).score \in Int /\ lineAt(k).time \in Nat \ {0} /\ Hour \in Nat \ {0}
  BY KeyIs, PlayerStatsAssumption DEF Line, Sane
<1>2. lineAt(k).score * Hour \in Int
  BY <1>1
<1>3. Rate(k) \in Int
  BY <1>1, <1>2, QuotientIs DEF Rate
<1>4. ASSUME lineAt(k).score >= 0
      PROVE  Rate(k) > 0 /\ lineAt(k).score * Hour <= Rate(k) * lineAt(k).time
  <2> DEFINE points == lineAt(k).score * Hour
             T      == lineAt(k).time
  <2>1. points \in Nat /\ T \in Nat \ {0}
    BY <1>1, <1>4, Products
  <2>2. Rate(k) = points \div T + 1
    BY <2>1 DEF Rate, Quotient
  <2> HIDE DEF points, T
  <2>3. points \div T \in Nat /\ points < (points \div T + 1) * T
    BY <2>1, Division
  <2>4. Rate(k) > 0 /\ points < Rate(k) * T
    BY <2>2, <2>3
  <2>5. (Rate(k) * T) \in Int
    BY <1>3, <2>1
  <2>6. points <= Rate(k) * T
    BY <2>1, <2>4, <2>5
  <2>7. QED
    BY <2>4, <2>6 DEF points, T
<1>5. QED
  BY <1>3, <1>4

\* Two averages below n have a common average below n.
LEMMA ScoreBelow ==
  ASSUME NEW S \in Int, NEW time \in Nat, NEW s \in Nat, NEW T \in Nat, NEW n \in Nat,
         S > 0 => S * Hour <= n * time,
         s * Hour <= n * T
  PROVE  (S + s) * Hour <= n * (time + T)
<1>1. Hour \in Nat
  BY PlayerStatsAssumption
<1>2. S * Hour <= n * time
  <2>1. CASE S <= 0
    <3>1. S * Hour <= 0 * Hour
      BY <1>1, <2>1, Scaled
    <3>2. 0 * Hour = 0 /\ n * time \in Nat
      BY <1>1, Products
    <3>3. S * Hour \in Int
      BY <1>1
    <3>4. QED
      BY <3>1, <3>2, <3>3
  <2>2. QED
    BY <2>1
<1>3. (S + s) * Hour = S * Hour + s * Hour
  BY <1>1, Distributes
<1>4. n * (time + T) = n * time + n * T
  <2>1. (time + T) * n = time * n + T * n
    BY Distributes
  <2>2. (time + T) * n = n * (time + T) /\ time * n = n * time /\ T * n = n * T
    BY Distributes
  <2>3. QED
    BY <2>1, <2>2
<1>5. S * Hour \in Int /\ s * Hour \in Int /\ n * time \in Int /\ n * T \in Int
  BY <1>1
<1>6. QED
  BY <1>2, <1>3, <1>4, <1>5

\* calcNewPPH stays below 100 n when the old value, the game and all points
\* together do.
LEMMA PPHBelow ==
  ASSUME NEW r \in Row, NEW T \in Nat, NEW s \in Nat, NEW n \in Nat,
         T <= 5 * Hour,
         s * Hour <= n * T,
         r.pph <= 100 * n,
         (r.score + s) * Hour <= n * (r.time + T),
         NEW w \in calcNewPPH(r, T, s)
  PROVE  w <= 100 * n
<1> DEFINE hours == r.time + T
           total == Clamped(r.score + s)
<1>1. r.time \in Nat /\ r.pph \in Nat /\ r.score \in Int
  BY DEF Row
<1>2. Hour \in Nat \ {0} /\ s # NameChange
  BY PlayerStatsAssumption DEF NameChange
<1>3. hours \in Nat /\ total \in Nat
  BY <1>1, ClampedIs
<1>4. total * Hour <= n * hours
  <2>1. CASE r.score + s < 0
    <3>1. total = 0 /\ n * hours \in Nat
      BY <1>3, <2>1, Products DEF Clamped
    <3>2. QED
      BY <1>2, <3>1
  <2>2. CASE ~ (r.score + s < 0)
    <3>1. total = r.score + s
      BY <2>2 DEF Clamped
    <3>2. QED
      BY <3>1
  <2>3. QED
    BY <2>1, <2>2
<1>5. CASE hours < Hour
  <2>1. calcNewPPH(r, T, s) = ToWord(total * 100)
    BY <1>2, <1>3, <1>5 DEF calcNewPPH
  <2> HIDE DEF total, hours
  <2>2. w <= total * 100
    BY <1>3, <2>1, WordBelow
  <2>3. total <= n
    <3>1. SUFFICES ASSUME n + 1 <= total PROVE FALSE
      BY <1>3
    <3>2. (n + 1) * Hour <= total * Hour
      BY <1>2, <1>3, <3>1, Scaled
    <3>3. (n + 1) * Hour = n * Hour + Hour
      BY <1>2, Distributes
    <3>4. hours * n <= Hour * n
      BY <1>2, <1>3, <1>5, Scaled
    <3>5. hours * n = n * hours /\ Hour * n = n * Hour
      BY <1>2, <1>3, Distributes
    <3>6. n * hours \in Int /\ n * Hour \in Int /\ total * Hour \in Int
      BY <1>2, <1>3
    <3>7. QED
      BY <1>2, <1>4, <3>2, <3>3, <3>4, <3>5, <3>6
  <2>4. w \in Nat
    BY <1>3, <2>1, WordBelow
  <2>5. QED
    BY <1>3, <2>2, <2>3, <2>4
<1>6. CASE hours >= Hour /\ hours < 5 * Hour
  <2>1. calcNewPPH(r, T, s) = ToWord((total * 100 * Hour) \div hours)
    BY <1>2, <1>3, <1>6 DEF calcNewPPH
  <2> HIDE DEF total, hours
  <2>2. total * 100 * Hour = 100 * (total * Hour) /\ (100 * n) * hours = 100 * (n * hours)
    BY <1>2, <1>3
  <2>3. total * Hour \in Nat /\ n * hours \in Nat
    BY <1>2, <1>3, Products
  <2>4. total * 100 * Hour \in Nat /\ total * 100 * Hour <= (100 * n) * hours
    BY <1>4, <2>2, <2>3
  <2>5. hours \in Nat \ {0}
    BY <1>2, <1>3, <1>6
  <2> DEFINE points == total * 100 * Hour
             top    == 100 * n
  <2>6. points \in Nat /\ top \in Int /\ points <= top * hours
    BY <2>4
  <2> HIDE DEF points, top
  <2>7. points \div hours <= top /\ points \div hours \in Nat
    BY <2>5, <2>6, QuotientBelow, Division
  <2>8. w \in Nat /\ w <= points \div hours
    BY <2>1, <2>7, WordBelow DEF points
  <2>9. top \in Nat
    BY DEF top
  <2>10. QED
    BY <2>7, <2>8, <2>9 DEF top
<1>7. CASE hours >= 5 * Hour
  <2> DEFINE rest == 5 * Hour - T
             sum  == rest * r.pph + 100 * Hour * s
  <2>1. calcNewPPH(r, T, s) = ToWord(Quotient(sum, 5 * Hour))
    BY <1>2, <1>3, <1>7 DEF calcNewPPH
  <2>2. rest \in Nat /\ 5 * Hour \in Nat \ {0} /\ rest + T = 5 * Hour
    BY <1>2
  <2> HIDE DEF rest
  <2>3. rest * r.pph \in Nat /\ rest * r.pph <= (100 * n) * rest
    <3>1. r.pph * rest <= (100 * n) * rest
      BY <1>1, <2>2, Scaled
    <3>2. r.pph * rest = rest * r.pph
      BY <1>1, <2>2, Distributes
    <3>3. QED
      BY <1>1, <2>2, <3>1, <3>2, Products
  <2>4. 100 * Hour * s = 100 * (s * Hour) /\ (100 * n) * T = 100 * (n * T)
    BY <1>2
  <2>5. s * Hour \in Nat /\ n * T \in Nat
    BY <1>2, Products
  <2>6. sum \in Nat /\ sum <= (100 * n) * rest + (100 * n) * T
    <3>1. (100 * n) * rest \in Int
      BY <2>2
    <3>2. QED
      BY <2>3, <2>4, <2>5, <3>1
  <2>7. (100 * n) * rest + (100 * n) * T = (100 * n) * (5 * Hour)
    <3>1. (rest + T) * (100 * n) = rest * (100 * n) + T * (100 * n)
      BY <2>2, Distributes
    <3>2. /\ rest * (100 * n) = (100 * n) * rest /\ T * (100 * n) = (100 * n) * T
          /\ (5 * Hour) * (100 * n) = (100 * n) * (5 * Hour)
      BY <2>2, Distributes
    <3>3. QED
      BY <2>2, <3>1, <3>2
  <2>8. sum \in Nat /\ sum <= (100 * n) * (5 * Hour)
    BY <2>6, <2>7
  <2> HIDE DEF sum
  <2>9. Quotient(sum, 5 * Hour) = sum \div (5 * Hour)
    BY <2>8 DEF Quotient
  <2> DEFINE five == 5 * Hour
             top  == 100 * n
  <2>10. five \in Nat \ {0} /\ top \in Nat /\ top \in Int /\ sum <= top * five
    BY <2>2, <2>8
  <2> HIDE DEF five, top
  <2>11. sum \div five \in Nat /\ sum \div five <= top
    BY <2>8, <2>10, Division, QuotientBelow
  <2>12. w \in Nat /\ w <= sum \div five
    BY <2>1, <2>9, <2>11, WordBelow DEF five
  <2>13. QED
    BY <2>10, <2>11, <2>12 DEF top
<1>8. QED
  BY <1>2, <1>3, <1>5, <1>6, <1>7

LEMMA UpdatedAveraged ==
  ASSUME NEW r \in Row, IsRanked(r), Averaged(r), NEW k \in Key,
         NEW q \in Update(r, k, lineAt(k))
  PROVE  Averaged(q)
<1> DEFINE s == lineAt(k).score
           T == lineAt(k).time
<1>1. lineAt(k) \in Line /\ s \in Int /\ T \in Nat /\ Hour \in Nat \ {0}
  BY KeyIs, PlayerStatsAssumption DEF Line
<1>2. r.score \in Int /\ r.time \in Nat /\ r.pph \in Nat
  BY DEF Row
<1>3. q.score = r.score + s /\ q.time = r.time + T /\ q.pph \in calcNewPPH(r, T, s)
  BY <1>1, UpdatedColumns
<1>4. Taken(q) = Taken(r) \union {k}
  BY TakenGrows
<1>5. SUFFICES ASSUME \A x \in Taken(q) : Sane(x)
               PROVE  /\ q.score > 0 => \E x \in Taken(q) : q.score * Hour <= Rate(x) * q.time
                      /\ q.pph > 0 => \E x \in Taken(q) : q.pph <= 100 * Rate(x)
  BY DEF Averaged
<1>6. /\ r.score > 0 => \E x \in Taken(r) : r.score * Hour <= Rate(x) * r.time
      /\ r.pph > 0 => \E x \in Taken(r) : r.pph <= 100 * Rate(x)
  BY <1>4, <1>5 DEF Averaged
<1>7. \A x \in Taken(q) : x \in Key /\ Rate(x) \in Int
  BY <1>5, RateIs DEF Taken
<1>8. CASE s = NameChange
  <2>1. calcNewPPH(r, T, s) = {r.pph}
    BY <1>8 DEF calcNewPPH
  <2>2. ASSUME q.score > 0 PROVE \E x \in Taken(q) : q.score * Hour <= Rate(x) * q.time
    <3>1. r.score > 0 /\ q.score <= r.score
      BY <1>2, <1>3, <1>8, <2>2 DEF NameChange
    <3>2. PICK x \in Taken(r) : r.score * Hour <= Rate(x) * r.time
      BY <1>6, <3>1
    <3>3. Rate(x) \in Int /\ x \in Taken(q)
      BY <1>4, <1>7
    <3>4. q.score * Hour <= r.score * Hour
      BY <1>1, <1>2, <1>3, <3>1, Scaled
    <3>5. Rate(x) > 0
      <4> DEFINE n == Rate(x)
                 time == r.time
                 points == r.score * Hour
      <4>1. points > 0 /\ points \in Int
        BY <1>1, <1>2, <3>1
      <4>2. points <= n * time /\ n \in Int /\ time \in Nat
        BY <1>2, <3>2, <3>3
      <4> HIDE DEF n, time, points
      <4>3. n * time > 0
        BY <4>1, <4>2
      <4>4. n > 0
        BY <4>2, <4>3, ProductPositive
      <4>5. QED
        BY <4>4 DEF n
    <3>6. Rate(x) * r.time <= Rate(x) * q.time
      <4>1. r.time * Rate(x) <= q.time * Rate(x)
        BY <1>1, <1>2, <1>3, <3>3, <3>5, Scaled
      <4>2. r.time * Rate(x) = Rate(x) * r.time /\ q.time * Rate(x) = Rate(x) * q.time
        BY <1>1, <1>2, <1>3, <3>3, Distributes
      <4>3. QED
        BY <4>1, <4>2
    <3>7. /\ q.score * Hour \in Int /\ r.score * Hour \in Int
          /\ Rate(x) * r.time \in Int /\ Rate(x) * q.time \in Int
      BY <1>1, <1>2, <1>3, <3>3
    <3>8. q.score * Hour <= Rate(x) * q.time
      BY <3>2, <3>4, <3>6, <3>7
    <3>9. QED
      BY <3>3, <3>8
  <2>3. q.pph > 0 => \E x \in Taken(q) : q.pph <= 100 * Rate(x)
    BY <1>3, <1>4, <1>6, <2>1
  <2>4. QED
    BY <2>2, <2>3
<1>9. CASE s # NameChange
  <2>1. k \in Taken(q) /\ s \in Nat /\ T <= 5 * Hour
    BY <1>1, <1>4, <1>5, <1>9 DEF Sane
  <2>2. Rate(k) > 0 /\ s * Hour <= Rate(k) * T
    BY <1>5, <2>1, RateIs
  \* the best of the game and the witnesses of r
  <2>3. \E x \in Taken(q) :
          /\ Rate(k) <= Rate(x)
          /\ r.score > 0 => r.score * Hour <= Rate(x) * r.time
          /\ r.pph > 0 => r.pph <= 100 * Rate(x)
    <3>1. PICK x \in Taken(q) : /\ Rate(k) <= Rate(x)
                                /\ r.score > 0 => r.score * Hour <= Rate(x) * r.time
      <4>1. CASE r.score > 0 /\ \E y \in Taken(r) : /\ r.score * Hour <= Rate(y) * r.time
                                                    /\ Rate(k) <= Rate(y)
        BY <1>4, <4>1
      <4>2. CASE r.score > 0 /\ \E y \in Taken(r) : /\ r.score * Hour <= Rate(y) * r.time
                                                    /\ Rate(y) <= Rate(k)
        <5>1. PICK y \in Taken(r) : r.score * Hour <= Rate(y) * r.time /\ Rate(y) <= Rate(k)
          BY <4>2
        <5>2. Rate(y) \in Int /\ Rate(k) \in Int
          BY <1>4, <1>7, <2>1
        <5>3. Rate(y) * r.time <= Rate(k) * r.time
          BY <1>2, <5>1, <5>2, Scaled
        <5>4. r.score * Hour \in Int /\ Rate(y) * r.time \in Int /\ Rate(k) * r.time \in Int
          BY <1>1, <1>2, <5>2
        <5>5. r.score * Hour <= Rate(k) * r.time
          BY <5>1, <5>3, <5>4
        <5>6. QED
          BY <1>7, <2>1, <5>2, <5>5
      <4>3. CASE ~ (r.score > 0)
        BY <1>7, <2>1, <4>3
      <4>4. QED
        BY <1>4, <1>6, <1>7, <2>1, <4>1, <4>2, <4>3
    <3>2. CASE ~ (r.pph > 0) \/ r.pph <= 100 * Rate(x)
      BY <3>1, <3>2
    <3>3. CASE r.pph > 0 /\ ~ (r.pph <= 100 * Rate(x))
      <4>1. PICK y \in Taken(r) : r.pph <= 100 * Rate(y)
        BY <1>6, <3>3
      <4>2. Rate(y) \in Int /\ Rate(x) \in Int /\ Rate(k) \in Int
        BY <1>4, <1>7, <2>1
      <4>3. Rate(x) <= Rate(y)
        BY <1>2, <3>3, <4>1, <4>2
      <4>4. Rate(x) * r.time <= Rate(y) * r.time
        BY <1>2, <4>2, <4>3, Scaled
      <4>5. r.score * Hour \in Int /\ Rate(y) * r.time \in Int /\ Rate(x) * r.time \in Int
        BY <1>1, <1>2, <4>2
      <4>6. r.score > 0 => r.score * Hour <= Rate(y) * r.time
        BY <3>1, <4>4, <4>5
      <4>7. Rate(k) <= Rate(y)
        BY <3>1, <4>2, <4>3
      <4>8. QED
        BY <1>4, <4>1, <4>6, <4>7
    <3>4. QED
      BY <3>2, <3>3
  <2>4. PICK x \in Taken(q) :
          /\ Rate(k) <= Rate(x)
          /\ r.score > 0 => r.score * Hour <= Rate(x) * r.time
          /\ r.pph > 0 => r.pph <= 100 * Rate(x)
    BY <2>3
  <2> DEFINE n == Rate(x)
  <2>5. n \in Nat /\ n \in Int /\ r.pph <= 100 * n
    <3>1. Rate(x) \in Int /\ Rate(k) \in Int
      BY <1>7, <2>1
    <3>2. QED
      BY <1>2, <2>2, <2>4, <3>1
  <2>6. s * Hour <= n * T
    <3>1. Rate(k) \in Int
      BY <1>7, <2>1
    <3>2. Rate(k) * T <= n * T
      BY <1>1, <2>4, <2>5, <3>1, Scaled
    <3>3. s * Hour \in Int /\ Rate(k) * T \in Int /\ n * T \in Int
      BY <1>1, <2>5, <3>1
    <3>4. QED
      BY <2>2, <3>2, <3>3
  <2>7. r.score > 0 => r.score * Hour <= n * r.time
    BY <2>4
  <2> HIDE DEF n, s, T
  <2>8. (r.score + s) * Hour <= n * (r.time + T)
    BY <1>1, <1>2, <2>1, <2>5, <2>6, <2>7, ScoreBelow
  <2>9. q.pph <= 100 * n
    BY <1>1, <1>3, <2>1, <2>5, <2>6, <2>8, PPHBelow
  <2>10. QED
    BY <1>3, <2>8, <2>9 DEF n
<1>10. QED
  BY <1>8, <1>9

-----------------------------------------------------------------------------
(***************************************************************************)
(* Every row, in the table or in a handler's hands, is earned.             *)
(***************************************************************************)
Earned(r) == Decorated(r) /\ Averaged(r)

RowsEarned ==
  /\ \A p \in Player : Earned(stats[p])
  /\ \A t \in Thread : Earned(job[t].row)

\* What a call of t may put into its row.
Source(r) ==
  \/ r = NewRow
  \/ \E p \in Player : r = Load(stats[p])
  \/ \E t \in Thread : r = job[t].row

Offspring(q) ==
  \/ q = NewRow
  \/ \E t \in Thread : q = job[t].row
  \/ \E r, k : Source(r) /\ k \in Key /\ q \in Update(r, k, lineAt(k))

LEMMA NewRowEarned == Earned(NewRow)
<1>1. Taken(NewRow) = {} /\ NewRow.medals = {} /\ NewRow.score = 0 /\ NewRow.pph = 0
  BY DEF Taken, NewRow
<1>2. QED
  BY <1>1 DEF Earned, Decorated, Averaged

LEMMA OffspringEarned ==
  ASSUME IInv, RowsEarned, NEW q, Offspring(q)
  PROVE  Earned(q)
<1>1. ASSUME NEW r, Source(r) PROVE r \in Row /\ IsRanked(r) /\ Earned(r)
  <2>1. CASE r = NewRow
    BY <2>1, NewRowRanked, NewRowEarned
  <2>2. ASSUME NEW p \in Player, r = Load(stats[p]) PROVE r \in Row /\ IsRanked(r) /\ Earned(r)
    <3>1. stats[p] \in Row /\ Earned(stats[p])
      BY DEF IInv, TypeOK, RowsEarned
    <3>2. QED
      BY <2>2, <3>1, LoadedRow, LoadedEarned DEF Earned
  <2>3. ASSUME NEW t \in Thread, r = job[t].row PROVE r \in Row /\ IsRanked(r) /\ Earned(r)
    BY <2>3, JobIs DEF IInv, Locals, RowsEarned
  <2>4. QED
    BY <1>1, <2>1, <2>2, <2>3 DEF Source
<1>2. ASSUME NEW r, NEW k \in Key, Source(r), q \in Update(r, k, lineAt(k)) PROVE Earned(q)
  BY <1>1, <1>2, UpdatedDecorated, UpdatedAveraged DEF Earned
<1>3. QED
  BY <1>2, NewRowEarned DEF Offspring, RowsEarned

\* A step of t gives t such a row, and writes none but t's to the table.
Passes(t) ==
  /\ \A u \in Thread \ {t} : job'[u] = job[u]
  /\ Offspring(job'[t].row)
  /\ \A p \in Player : stats'[p] = stats[p] \/ stats'[p] = job[t].row

LEMMA RowKept ==
  ASSUME TypeOK, NEW t \in Thread,
         \/ InsertGame(t) \/ InsertGameFails(t) \/ QueryClans(t) \/ QueryClansFails(t)
         \/ WriteClans(t) \/ WriteClansFails(t) \/ RecalcCount(t) \/ RecalcCountFails(t)
         \/ RecalcPageFails(t)
  PROVE  Passes(t)
<1>1. job[t] \in Job /\ job \in [Thread -> Job]
  BY JobIs DEF TypeOK
<1>2. stats' = stats
  BY DEF InsertGame, InsertGameFails, QueryClans, QueryClansFails, WriteClans, WriteClansFails,
         RecalcCount, RecalcCountFails, RecalcPageFails, tables
<1>3. (\A u \in Thread \ {t} : job'[u] = job[u]) /\ job'[t].row = job[t].row
  <2>1. CASE RecalcPageFails(t)
    BY <1>1, <2>1, PageDoneIs DEF RecalcPageFails
  <2>2. CASE InsertGame(t) \/ InsertGameFails(t)
    BY <1>1, <2>2 DEF InsertGame, InsertGameFails, Job
  <2>3. CASE QueryClans(t) \/ QueryClansFails(t)
    BY <1>1, <2>3 DEF QueryClans, QueryClansFails, Job
  <2>4. CASE WriteClans(t) \/ WriteClansFails(t)
    BY <1>1, <2>4 DEF WriteClans, WriteClansFails, Go, Job
  <2>5. CASE RecalcCount(t) \/ RecalcCountFails(t)
    BY <1>1, <2>5 DEF RecalcCount, RecalcCountFails, Job
  <2>6. QED
    BY <2>1, <2>2, <2>3, <2>4, <2>5
<1>4. QED
  BY <1>2, <1>3 DEF Passes, Offspring

\* A failed read of a page: no table changes, and the handler goes on with
\* default-constructed rows.
LEMMA PageUnread ==
  ASSUME TypeOK, NEW t \in Thread, UpdateClanReadFails(t)
  PROVE  /\ UNCHANGED <<stats, games, log, disabled, clans, boards>>
         /\ \A u \in Thread \ {t} : job'[u] = job[u]
         /\ job'[t].row = NewRow /\ job'[t].rows = NoJob.rows
         /\ job'[t].next = "updateClan"
         /\ job'[t].page.wins = {} /\ job'[t].page.losses = {} /\ job'[t].page.draws = {}
<1>1. PICK c \in Clan, i \in Info :
        /\ job' = [job EXCEPT ![t] = [NoJob EXCEPT !.op = "UpdateClan", !.next = "updateClan",
                                      !.clan = c, !.page = [NewClan EXCEPT !.info = i]]]
        /\ UNCHANGED <<tables, sent, late>>
  BY DEF UpdateClanReadFails
<1>2. /\ UNCHANGED <<stats, games, log, disabled, clans, boards>>
      /\ \A u \in Thread \ {t} : job'[u] = job[u]
  BY <1>1 DEF tables, TypeOK
<1>3. job'[t] = [NoJob EXCEPT !.op = "UpdateClan", !.next = "updateClan",
                              !.clan = c, !.page = [NewClan EXCEPT !.info = i]]
  BY <1>1 DEF TypeOK
<1>4. job'[t].page = [NewClan EXCEPT !.info = i]
  BY <1>3 DEF NoJob
<1>5. job'[t].row = NewRow /\ job'[t].rows = NoJob.rows /\ job'[t].next = "updateClan"
  BY <1>3 DEF NoJob
<1>6. QED
  BY <1>2, <1>4, <1>5 DEF NewClan

LEMMA RowCleared ==
  ASSUME IInv, NEW t \in Thread,
         \/ UpdateGame(t) \/ WritePlayer(t) \/ WritePlayerFails(t)
         \/ CreateLeaderboards(t) \/ CreateLeaderboardsFails(t)
         \/ Recalc(t) \/ RecalcWrite(t) \/ RecalcWriteFails(t)
         \/ UpdateClan(t) \/ UpdateClanWrite(t) \/ UpdateClanWriteFails(t)
  PROVE  Passes(t)
<1>1. TypeOK /\ job[t] \in Job /\ job \in [Thread -> Job] /\ stats \in [Player -> Row]
  BY JobIs DEF IInv, TypeOK
<1>2. NoJob.row = NewRow
  BY NoJobIs
<1>3. \A j : NextLine(j).row = NewRow \/ j \notin Job
  BY DEF NextLine, Job
<1>4. CASE UpdateGame(t)
  <2>1. PICK g \in Game : \/ job' = job
                          \/ job' = [job EXCEPT ![t] = [NoJob EXCEPT !.op = "UpdateGame",
                                       !.game = g, !.i = 1, !.next = CallAt(g, 1)]]
    BY <1>4 DEF UpdateGame
  <2>2. stats' = stats
    BY <1>4 DEF UpdateGame, tables
  <2>3. job'[t].row = job[t].row \/ job'[t].row = NewRow
    BY <1>1, <1>2, <2>1 DEF NoJob
  <2>4. \A u \in Thread \ {t} : job'[u] = job[u]
    BY <1>1, <2>1
  <2>5. QED
    BY <2>2, <2>3, <2>4 DEF Passes, Offspring
<1>5. CASE WritePlayer(t) \/ WritePlayerFails(t)
  <2>1. \E A \in SUBSET Key : job' = [job EXCEPT ![t] = NextLine([job[t] EXCEPT !.added = A])]
    <3>1. Current(t) \in Key
      <4>1. job[t].next = "updatePlayerStats" /\ job[t].next \in ReportCalls
        BY <1>5 DEF WritePlayer, WritePlayerFails, At, ReportCalls, Ahead
      <4>2. Locals(t)
        BY DEF IInv
      <4>3. QED
        BY <1>1, <4>1, <4>2, ReportingJob
    <3>2. CASE WritePlayer(t)
      <4>1. job' = [job EXCEPT ![t] = NextLine([job[t] EXCEPT !.added = job[t].added \union {Current(t)}])]
        BY <3>2 DEF WritePlayer
      <4>2. job[t].added \union {Current(t)} \in SUBSET Key
        BY <1>1, <3>1, JobIs
      <4>3. QED
        BY <4>1, <4>2
    <3>3. CASE WritePlayerFails(t)
      <4>1. job' = [job EXCEPT ![t] = NextLine([job[t] EXCEPT !.added = job[t].added])]
        <5>1. [job[t] EXCEPT !.added = job[t].added] = job[t]
          BY <1>1 DEF Job
        <5>2. QED
          BY <3>3, <5>1 DEF WritePlayerFails
      <4>2. job[t].added \in SUBSET Key
        BY <1>1, JobIs
      <4>3. QED
        BY <4>1, <4>2
    <3>4. QED
      BY <1>5, <3>2, <3>3
  <2>2. PICK A \in SUBSET Key : job' = [job EXCEPT ![t] = NextLine([job[t] EXCEPT !.added = A])]
    BY <2>1
  <2>3. [job[t] EXCEPT !.added = A] \in Job
    BY <1>1 DEF Job
  <2>4. job'[t].row = NewRow /\ \A u \in Thread \ {t} : job'[u] = job[u]
    BY <1>1, <1>3, <2>2, <2>3
  <2>5. \A p \in Player : stats'[p] = stats[p] \/ stats'[p] = job[t].row
    BY <1>1, <1>5 DEF WritePlayer, WritePlayerFails, tables
  <2>6. QED
    BY <2>4, <2>5 DEF Passes, Offspring
<1>6. CASE CreateLeaderboards(t) \/ CreateLeaderboardsFails(t) \/ RecalcWrite(t) \/ RecalcWriteFails(t)
           \/ UpdateClanWrite(t) \/ UpdateClanWriteFails(t)
  <2>1. job' = [job EXCEPT ![t] = NoJob]
    BY <1>6 DEF CreateLeaderboards, CreateLeaderboardsFails, RecalcWrite, RecalcWriteFails,
                UpdateClanWrite, UpdateClanWriteFails, Finish
  <2>2. \A p \in Player : stats'[p] = stats[p] \/ stats'[p] = job[t].row
    BY <1>1, <1>6 DEF CreateLeaderboards, CreateLeaderboardsFails, RecalcWrite, RecalcWriteFails,
                      UpdateClanWrite, UpdateClanWriteFails, tables
  <2>3. QED
    BY <1>1, <1>2, <2>1, <2>2 DEF Passes, Offspring
<1>7. CASE Recalc(t) \/ UpdateClan(t)
  <2>1. job'[t].row = NewRow /\ \A u \in Thread \ {t} : job'[u] = job[u]
    BY <1>1, <1>7 DEF Recalc, UpdateClan, NoJob
  <2>2. stats' = stats
    BY <1>7 DEF Recalc, UpdateClan, tables
  <2>3. QED
    BY <2>1, <2>2 DEF Passes, Offspring
<1>8. QED
  BY <1>4, <1>5, <1>6, <1>7

LEMMA RowUpdated ==
  ASSUME IInv, NEW t \in Thread, QueryPlayer(t) \/ QueryPlayerFails(t) \/ RecalcPage(t)
  PROVE  Passes(t)
<1>1. TypeOK /\ Locals(t) /\ job[t] \in Job /\ job \in [Thread -> Job]
  BY JobIs DEF IInv, TypeOK
<1>2. stats' = stats
  BY DEF QueryPlayer, QueryPlayerFails, RecalcPage, tables
<1>3. ASSUME At(t, "queryPlayer") PROVE Current(t) \in Key /\ pid(Current(t)) \in Player
  <2>1. job[t].next = "queryPlayer" /\ job[t].next \in ReportCalls
    BY <1>3 DEF At, ReportCalls, Ahead
  <2>2. QED
    BY <1>1, <2>1, ReportingJob
<1>4. ASSUME NEW r, NEW k \in Key, NEW q \in Update(r, k, lineAt(k)), Source(r),
             job'[t].row = q, \A u \in Thread \ {t} : job'[u] = job[u]
      PROVE  Passes(t)
  BY <1>2, <1>4 DEF Passes, Offspring
<1>5. CASE QueryPlayer(t)
  <2>1. CASE pid(Current(t)) \in restricted
    <3>1. PICK B : job' = [job EXCEPT ![t] = NextLine([job[t] EXCEPT !.barred = B])]
      BY <1>5, <2>1 DEF QueryPlayer
    <3>2. job'[t].row = NewRow /\ \A u \in Thread \ {t} : job'[u] = job[u]
      BY <1>1, <3>1 DEF NextLine, Job
    <3>3. QED
      BY <1>2, <3>2 DEF Passes, Offspring
  <2>2. CASE pid(Current(t)) \notin restricted
    <3>1. PICK q \in Update(Load(stats[pid(Current(t))]), Current(t), lineAt(Current(t))) :
            job' = [job EXCEPT ![t].row = q, ![t].next = "updatePlayerStats"]
      BY <1>5, <2>2 DEF QueryPlayer
    <3>2. job'[t].row = q /\ \A u \in Thread \ {t} : job'[u] = job[u]
      BY <1>1, <3>1 DEF Job
    <3>3. Current(t) \in Key /\ pid(Current(t)) \in Player
      BY <1>3, <1>5 DEF QueryPlayer
    <3>4. Source(Load(stats[pid(Current(t))]))
      BY <3>3 DEF Source
    <3>5. QED
      BY <1>4, <3>2, <3>3, <3>4
  <2>3. QED
    BY <2>1, <2>2
<1>6. CASE QueryPlayerFails(t)
  <2>1. PICK q \in Update(NewRow, Current(t), lineAt(Current(t))) :
          job' = [job EXCEPT ![t].row = q, ![t].next = "updatePlayerStats"]
    BY <1>6 DEF QueryPlayerFails
  <2>2. job'[t].row = q /\ \A u \in Thread \ {t} : job'[u] = job[u]
    BY <1>1, <2>1 DEF Job
  <2>3. Current(t) \in Key
    BY <1>3, <1>6 DEF QueryPlayerFails
  <2>4. Source(NewRow)
    BY DEF Source
  <2>5. QED
    BY <1>4, <2>2, <2>3, <2>4
<1>7. CASE RecalcPage(t)
  <2>1. CASE job' = [job EXCEPT ![t] = PageDone(job[t])]
    BY <1>1, <1>2, <2>1, PageDoneIs DEF Passes, Offspring
  <2>2. ASSUME NEW k \in Unread(t),
               job' = [job EXCEPT ![t] = PageDone([job[t] EXCEPT !.read = @ \union {k}])]
        PROVE  Passes(t)
    <3>1. k \in Key
      BY <1>1 DEF Unread, RowsOf, TypeOK
    <3>2. [job[t] EXCEPT !.read = @ \union {k}] \in Job
            /\ [job[t] EXCEPT !.read = @ \union {k}].row = job[t].row
      BY <1>1, <3>1 DEF Job
    <3>3. job'[t].row = job[t].row /\ \A u \in Thread \ {t} : job'[u] = job[u]
      BY <1>1, <2>2, <3>2, PageDoneIs
    <3>4. QED
      BY <1>2, <3>3 DEF Passes, Offspring
  <2>3. ASSUME NEW k \in Unread(t), NEW r \in Update(job[t].row, k, lineAt(k)),
               job' = [job EXCEPT ![t] = PageDone([job[t] EXCEPT !.read = @ \union {k}, !.row = r])]
        PROVE  Passes(t)
    <3>1. k \in Key
      BY <1>1 DEF Unread, RowsOf, TypeOK
    <3>2. r \in Row
      BY <1>1, <3>1, KeyIs, JobIs, UpdatedRow DEF Locals
    <3>3. [job[t] EXCEPT !.read = @ \union {k}, !.row = r] \in Job
            /\ [job[t] EXCEPT !.read = @ \union {k}, !.row = r].row = r
      BY <1>1, <3>1, <3>2 DEF Job
    <3>4. job'[t].row = r /\ \A u \in Thread \ {t} : job'[u] = job[u]
      BY <1>1, <2>3, <3>3, PageDoneIs
    <3>5. Source(job[t].row)
      BY DEF Source
    <3>6. QED
      BY <1>4, <3>1, <3>4, <3>5
  <2>4. QED
    BY <1>7, <2>1, <2>2, <2>3 DEF RecalcPage
<1>8. QED
  BY <1>5, <1>6, <1>7

LEMMA NextEarned == IInv /\ RowsEarned /\ [Next]_vars => RowsEarned'
<1> SUFFICES ASSUME IInv, RowsEarned, [Next]_vars PROVE RowsEarned'
  OBVIOUS
<1>1. ASSUME NEW t \in Thread, Step(t) \/ Failure(t) PROVE RowsEarned'
  <2>1. TypeOK
    BY DEF IInv
  <2>2. Passes(t)
    BY <1>1, <2>1, RowKept, RowCleared, RowUpdated DEF Step, Failure
  <2>3. \A u \in Thread : Earned(job'[u].row)
    <3>1. Earned(job'[t].row)
      BY <2>2, OffspringEarned DEF Passes
    <3>2. QED
      BY <2>2, <3>1 DEF Passes, RowsEarned
  <2>4. \A p \in Player : Earned(stats'[p])
    BY <2>2 DEF Passes, RowsEarned
  <2>5. QED
    BY <2>3, <2>4 DEF RowsEarned
<1>2. CASE Crash
  <2>1. stats' = stats /\ \A t \in Thread : job'[t].row = NewRow
    BY <1>2, NoJobIs DEF Crash, tables
  <2>2. QED
    BY <2>1, NewRowEarned DEF RowsEarned
<1>3. CASE RestrictPlayer \/ UNCHANGED vars
  <2>1. stats' = stats /\ job' = job
    BY <1>3 DEF RestrictPlayer, vars, tables
  <2>2. QED
    BY <2>1 DEF RowsEarned
<1>4. ASSUME NEW t \in Thread, UpdateClanReadFails(t) PROVE RowsEarned'
  <2>1. stats' = stats /\ job'[t].row = NewRow /\ \A u \in Thread \ {t} : job'[u] = job[u]
    BY <1>4, PageUnread DEF IInv
  <2>2. QED
    BY <2>1, NewRowEarned DEF RowsEarned
<1>5. QED
  BY <1>1, <1>2, <1>3, <1>4 DEF Next

LEMMA EarnedInvariance == Spec => []RowsEarned
<1>1. Init => RowsEarned
  BY NewRowEarned, NoJobIs DEF Init, RowsEarned
<1>2. QED
  BY <1>1, NextEarned, Invariance, PTL DEF Spec

-----------------------------------------------------------------------------
(***************************************************************************)
(* Theorems about players.                                                 *)
(***************************************************************************)
\* Points per hour are an average: of a row whose games have all lasted up to
\* five hours and whose scores are not negative, they are never above the best
\* game, in whatever order calcNewPPH has seen the games.  Nothing is said of the
\* other columns, nor of a row with a game outside of these bounds, where the
\* code converts a negative number to an unsigned one.
THEOREM PointsAreAverages == Spec => []PointsPerHourBounded
<1>1. IInv /\ RowsEarned => PointsPerHourBounded
  <2>1. SUFFICES ASSUME IInv, RowsEarned, NEW p \in Player,
                        \A k \in Taken(stats[p]) : Sane(k)
                 PROVE  stats[p].pph = 0 \/ \E k \in Taken(stats[p]) : stats[p].pph <= 100 * Rate(k)
    BY DEF PointsPerHourBounded, Taken
  <2>2. stats[p].pph \in Nat
    BY <2>1 DEF IInv, TypeOK, Row
  <2>3. Averaged(stats[p])
    BY <2>1 DEF RowsEarned, Earned
  <2>4. QED
    BY <2>1, <2>2, <2>3 DEF Averaged
<1>2. QED
  BY <1>1, Invariance, EarnedInvariance, PTL

\* A row that is not spoiled only takes lines in; its medals are those of the
\* line with the most.
LEMMA MedalsGrow ==
  ASSUME IInv, IInv', RowsEarned, RowsEarned', noted \subseteq noted',
         NEW p \in Player, StaysClear(p),
         log' = log, disabled' = disabled,
         \A t \in Thread : job[t].added \subseteq job'[t].added
  PROVE  Cardinality(stats'[p].medals) >= Cardinality(stats[p].medals)
<1>1. /\ stats[p] \in Row /\ stats'[p] \in Row /\ log \subseteq Key
      /\ StatsMatchLog /\ StatsMatchLog'
  BY DEF IInv, TypeOK
<1>2. <<"player", p>> \notin noted /\ <<"player", p>> \notin noted'
  BY DEF StaysClear
<1>3. \A k \in Key : InFlight(k) => InFlight(k)'
  BY DEF InFlight
<1>4. \A k \in Key : stats[p].games[k] > 0 => stats'[p].games[k] > 0
  <2>1. SUFFICES ASSUME NEW k \in Key, stats[p].games[k] > 0 PROVE stats'[p].games[k] > 0
    OBVIOUS
  <2>2. stats[p].games[k] = IF pid(k) = p /\ (k \in log \ disabled \/ InFlight(k)) THEN 1 ELSE 0
    BY <1>1, <1>2 DEF StatsMatchLog
  <2>3. stats'[p].games[k] =
          IF pid(k) = p /\ (k \in log' \ disabled' \/ InFlight(k)') THEN 1 ELSE 0
    BY <1>1, <1>2 DEF StatsMatchLog
  <2>4. pid(k) = p /\ (k \in log \ disabled \/ InFlight(k))
    BY <2>1, <2>2
  <2>5. pid(k) = p /\ (k \in log' \ disabled' \/ InFlight(k)')
    BY <1>3, <2>4
  <2>6. QED
    BY <2>3, <2>5
<1>5. Taken(stats[p]) \subseteq Taken(stats'[p])
  BY <1>4 DEF Taken
<1>6. stats[p].medals \in SUBSET Medal /\ stats'[p].medals \in SUBSET Medal
  BY <1>1 DEF Row
<1>7. Decorated(stats[p]) /\ Decorated(stats'[p])
  BY DEF RowsEarned, Earned
<1>8. CASE stats[p].medals = {}
  <2>1. Cardinality(stats[p].medals) = 0 /\ Cardinality(stats'[p].medals) \in Nat
    BY <1>6, <1>8, MedalsCount
  <2>2. QED
    BY <2>1
<1>9. ASSUME NEW k \in Taken(stats[p]), stats[p].medals = lineAt(k).medals
      PROVE  Cardinality(stats'[p].medals) >= Cardinality(stats[p].medals)
  BY <1>5, <1>7, <1>9 DEF Decorated
<1>10. QED
  BY <1>7, <1>8, <1>9 DEF Decorated

\* Who writes a player's row.
LEMMA WritersOfStats ==
  ASSUME [Next]_vars
  PROVE  \/ stats' = stats
         \/ /\ \E t \in Thread : WritePlayer(t) \/ RecalcWrite(t)
            /\ noted \subseteq noted'
<1>1. ASSUME NEW t \in Thread, Step(t), ~ WritePlayer(t), ~ RecalcWrite(t)
      PROVE  stats' = stats
  BY <1>1 DEF Step, UpdateGame, QueryPlayer, InsertGame, QueryClans, WriteClans,
              CreateLeaderboards, Recalc, RecalcCount, RecalcPage, UpdateClan, UpdateClanWrite,
              tables
<1>2. ASSUME NEW t \in Thread, Failure(t) PROVE stats' = stats
  BY <1>2 DEF Failure, QueryPlayerFails, WritePlayerFails, InsertGameFails, QueryClansFails,
              WriteClansFails, CreateLeaderboardsFails, RecalcCountFails, RecalcPageFails,
              RecalcWriteFails, UpdateClanWriteFails, tables
<1>3. CASE \/ RestrictPlayer \/ Crash \/ UNCHANGED vars
           \/ \E t \in Thread : UpdateClanReadFails(t)
  BY <1>3 DEF RestrictPlayer, Crash, UpdateClanReadFails, vars, tables
<1>4. \/ RestrictPlayer \/ Crash \/ UNCHANGED vars
      \/ \E t \in Thread : Step(t) /\ noted \subseteq noted'
      \/ \E t \in Thread : Failure(t) \/ UpdateClanReadFails(t)
  BY DEF Next
<1>5. QED
  BY <1>1, <1>2, <1>3, <1>4

\* No report and no recalculation takes medals from the row of a player, unless
\* the row is noted: two handlers have held it at once, a call about it has
\* failed, or a report with it has died.
THEOREM MedalsAreKept == Spec => MedalsNeverDrop
<1> DEFINE Kept ==
      \A p \in Player :
        Cardinality(stats'[p].medals) >= Cardinality(stats[p].medals)
          \/ <<"player", p>> \in noted'
<1>1. ASSUME IInv, IInv', RowsEarned, RowsEarned', [Next]_vars PROVE Kept
  <2>1. CASE stats' = stats
    <3>1. \A p \in Player : Cardinality(stats[p].medals) \in Nat
      <4>1. \A p \in Player : stats[p].medals \in SUBSET Medal
        BY <1>1 DEF IInv, TypeOK, Row
      <4>2. QED
        BY <4>1, MedalsCount
    <3>2. QED
      BY <2>1, <3>1
  <2>2. ASSUME NEW t \in Thread, WritePlayer(t) \/ RecalcWrite(t), noted \subseteq noted'
        PROVE  Kept
    <3>1. log' = log /\ disabled' = disabled
      BY <2>2 DEF WritePlayer, RecalcWrite
    <3>2. job[t] \in Job /\ job \in [Thread -> Job] /\ Locals(t)
      BY <1>1, JobIs DEF IInv, TypeOK
    <3>3. \A u \in Thread : job[u].added \subseteq job'[u].added
      <4>1. CASE WritePlayer(t)
        BY <3>2, <4>1 DEF WritePlayer, NextLine, Job
      <4>2. CASE RecalcWrite(t)
        <5>1. job[t].added = {}
          BY <3>2, <4>2 DEF RecalcWrite, At, Locals, Ahead
        <5>2. \A u \in Thread \ {t} : job'[u] = job[u]
          BY <3>2, <4>2 DEF RecalcWrite, Finish
        <5>3. QED
          BY <5>1, <5>2
      <4>3. QED
        BY <2>2, <4>1, <4>2
    <3>4. QED
      BY <1>1, <2>2, <3>1, <3>3, MedalsGrow DEF StaysClear
  <2> HIDE DEF Kept
  <2>3. QED
    BY <1>1, <2>1, <2>2, WritersOfStats
<1>2. IInv /\ IInv' /\ RowsEarned /\ RowsEarned' /\ [Next]_vars => [Kept]_vars
  BY <1>1
<1>3. QED
  BY <1>2, Invariance, EarnedInvariance, PTL DEF Spec, MedalsNeverDrop

-----------------------------------------------------------------------------
(***************************************************************************)
(* Points of clans.                                                        *)
(***************************************************************************)
\* The rows about to be written have the points of the rows in the table, and
\* the step of the game.
Weighing(t) ==
  At(t, "updateClans") /\ (\A s \in {1, 2} : Plain(team(job[t].game, s))) =>
    \A s \in {1, 2} :
      job[t].rows[s].score =
        eloScore(job[t].game, s, clans[team(job[t].game, s)].score,
                                 clans[team(job[t].game, 3 - s)].score)

Weighs == \A t \in Thread : Weighing(t)

\* A thread that is not on its way to the clans has nothing to weigh.
LEMMA NothingToWeigh ==
  ASSUME IInv, NEW t \in Thread,
         \/ Step(t) /\ ~ QueryClans(t)
         \/ Failure(t) /\ ~ QueryClansFails(t)
  PROVE  job'[t].next # "updateClans"
<1>1. job[t] \in Job /\ job \in [Thread -> Job] /\ stats \in [Player -> Row]
  BY JobIs DEF IInv, TypeOK
<1>2. \A g, i : CallAt(g, i) # "updateClans" /\ FirstPage(i) # "updateClans"
  BY DEF CallAt, FirstPage
<1>3. \A g : AfterInsert(g) # "updateClans"
  BY DEF AfterInsert
<1>4. \A j : j \in Job => NextLine(j).next # "updateClans"
  BY <1>2 DEF NextLine, Job
<1>5. NoJob.next = "none"
  BY NoJobIs
<1>6. CASE UpdateGame(t)
  <2>1. PICK g \in Game : \/ job' = job
                          \/ job' = [job EXCEPT ![t] = [NoJob EXCEPT !.op = "UpdateGame",
                                       !.game = g, !.i = 1, !.next = CallAt(g, 1)]]
    BY <1>6 DEF UpdateGame
  <2>2. job[t] = NoJob
    BY <1>6 DEF UpdateGame
  <2>3. CASE job' = job
    BY <1>5, <2>2, <2>3
  <2>4. CASE job' = [job EXCEPT ![t] = [NoJob EXCEPT !.op = "UpdateGame",
                                       !.game = g, !.i = 1, !.next = CallAt(g, 1)]]
    <3>1. job'[t].next = CallAt(g, 1)
      BY <1>1, <2>4 DEF NoJob
    <3>2. QED
      BY <1>2, <3>1
  <2>5. QED
    BY <2>1, <2>3, <2>4
<1>7. CASE QueryPlayer(t)
  <2>1. CASE pid(Current(t)) \in restricted
    <3>1. PICK B : job' = [job EXCEPT ![t] = NextLine([job[t] EXCEPT !.barred = B])]
      BY <1>7, <2>1 DEF QueryPlayer
    <3>2. NextLine([job[t] EXCEPT !.barred = B]).next # "updateClans"
      BY <1>1, <1>2 DEF NextLine, Job
    <3>3. QED
      BY <1>1, <3>1, <3>2
  <2>2. CASE pid(Current(t)) \notin restricted
    <3>1. PICK q : job' = [job EXCEPT ![t].row = q, ![t].next = "updatePlayerStats"]
      BY <1>7, <2>2 DEF QueryPlayer
    <3>2. QED
      BY <1>1, <3>1 DEF Job
  <2>3. QED
    BY <2>1, <2>2
<1>8. CASE QueryPlayerFails(t)
  BY <1>1, <1>8 DEF QueryPlayerFails, Job
<1>9. CASE WritePlayer(t) \/ WritePlayerFails(t)
  <2>1. \/ job' = [job EXCEPT ![t] = NextLine(job[t])]
        \/ \E A : job' = [job EXCEPT ![t] = NextLine([job[t] EXCEPT !.added = A])]
    BY <1>9 DEF WritePlayer, WritePlayerFails
  <2>2. \A A : NextLine([job[t] EXCEPT !.added = A]).next # "updateClans"
    BY <1>1, <1>2 DEF NextLine, Job
  <2>3. QED
    BY <1>1, <1>4, <2>1, <2>2
<1>10. CASE InsertGame(t) \/ InsertGameFails(t)
  <2>1. job' = [job EXCEPT ![t].next = AfterInsert(job[t].game), ![t].added = {}]
    BY <1>10 DEF InsertGame, InsertGameFails
  <2>2. QED
    BY <1>1, <1>3, <2>1 DEF Job
<1>11. CASE WriteClans(t) \/ WriteClansFails(t)
  BY <1>1, <1>11 DEF WriteClans, WriteClansFails, Go, Job
<1>12. CASE CreateLeaderboards(t) \/ CreateLeaderboardsFails(t) \/ RecalcWrite(t)
            \/ RecalcWriteFails(t) \/ UpdateClanWrite(t) \/ UpdateClanWriteFails(t)
  BY <1>1, <1>5, <1>12 DEF CreateLeaderboards, CreateLeaderboardsFails, RecalcWrite,
       RecalcWriteFails, UpdateClanWrite, UpdateClanWriteFails, Finish
<1>13. CASE Recalc(t) \/ UpdateClan(t)
  BY <1>1, <1>13 DEF Recalc, UpdateClan, NoJob
<1>14. CASE RecalcCount(t) \/ RecalcCountFails(t)
  <2>1. PICK n : job' = [job EXCEPT ![t].total = n, ![t].next = FirstPage(n)]
    BY <1>14 DEF RecalcCount, RecalcCountFails
  <2>2. QED
    BY <1>1, <1>2, <2>1 DEF Job
<1>15. CASE RecalcPage(t) \/ RecalcPageFails(t)
  <2>1. \E R, r : job' = [job EXCEPT ![t] = PageDone([job[t] EXCEPT !.read = R, !.row = r])]
    <3>1. [job[t] EXCEPT !.read = job[t].read, !.row = job[t].row] = job[t]
      BY <1>1 DEF Job
    <3>2. CASE job' = [job EXCEPT ![t] = PageDone(job[t])]
      BY <3>1, <3>2
    <3>3. ASSUME NEW k, job' = [job EXCEPT ![t] = PageDone([job[t] EXCEPT !.read = @ \union {k}])]
          PROVE  \E R, r : job' = [job EXCEPT ![t] = PageDone([job[t] EXCEPT !.read = R, !.row = r])]
      <4>1. [job[t] EXCEPT !.read = job[t].read \union {k}, !.row = job[t].row]
              = [job[t] EXCEPT !.read = job[t].read \union {k}]
        BY <1>1 DEF Job
      <4>2. QED
        BY <3>3, <4>1
    <3>4. ASSUME NEW k, NEW r,
                 job' = [job EXCEPT ![t] = PageDone([job[t] EXCEPT !.read = @ \union {k}, !.row = r])]
          PROVE  \E R, q : job' = [job EXCEPT ![t] = PageDone([job[t] EXCEPT !.read = R, !.row = q])]
      BY <3>4
    <3>5. QED
      BY <1>15, <3>2, <3>3, <3>4 DEF RecalcPage, RecalcPageFails
  <2>2. PICK R, r : job' = [job EXCEPT ![t] = PageDone([job[t] EXCEPT !.read = R, !.row = r])]
    BY <2>1
  <2>3. job'[t] = PageDone([job[t] EXCEPT !.read = R, !.row = r])
    BY <1>1, <2>2
  <2>4. PageDone([job[t] EXCEPT !.read = R, !.row = r]).next \in {"page", "updateRecalc"}
    BY <1>1 DEF PageDone, Job
  <2>5. QED
    BY <2>3, <2>4
<1>16. QED
  BY <1>6, <1>7, <1>8, <1>9, <1>10, <1>11, <1>12, <1>13, <1>14, <1>15 DEF Step, Failure

\* The rows are the table's, unless one of them is spoiled.
LEMMA QueryWeighs ==
  ASSUME IInv, Noting, NEW t \in Thread, QueryClans(t)
  PROVE  Weighing(t)'
<1> DEFINE g == job[t].game
           q == queryClansByClanId(g)
           R == RatedRows(g, q)
<1>1. TypeOK /\ Prepared(t) /\ job[t] \in Job
  BY IInvParts, JobIs
<1>2. At(t, "queryClans") /\ clans' = clans
      /\ job' = [job EXCEPT ![t].rows = R, ![t].next = "updateClans"]
  BY DEF QueryClans, tables
<1>3. g \in Game /\ team(g, 1) \in Clan /\ team(g, 2) \in Clan
  BY <1>1, <1>2, ClanTeams DEF Prepared, At, ClanCalls
<1>4. job'[t].next = "updateClans" /\ job'[t].game = g /\ job'[t].rows = R
  BY <1>1, <1>2 DEF TypeOK, Job
<1>5. CASE team(g, 1) = team(g, 2)
  <2>1. team(g, 1) \in ClanRaces'
    BY <1>3, <1>4, <1>5 DEF ClanRaces, At
  <2>2. <<"clan", team(g, 1)>> \in Races'
    BY <2>1 DEF Races
  <2>3. ~ StaysPlain(team(g, 1))
    BY <2>2 DEF Noting, StaysPlain
  <2>4. QED
    BY <1>4, <2>3 DEF Weighing, Plain, StaysPlain
<1>6. CASE team(g, 1) # team(g, 2)
  <2>1. q[1] = clans[team(g, 1)] /\ q[2] = clans[team(g, 2)]
    BY <1>6 DEF queryClansByClanId
  <2>2. clans[team(g, 1)] \in ClanRow /\ clans[team(g, 2)] \in ClanRow
    BY <1>1, <1>3 DEF TypeOK
  <2>3. \A s \in {1, 2} : R[s] = Rated(q[s], g, s, q[3 - s])
    BY DEF RatedRows
  <2> HIDE DEF q, R
  <2>4. \A row \in ClanRow, s \in {1, 2} : \A other :
          Rated(row, g, s, other).score = eloScore(g, s, row.score, other.score)
    <3>1. SUFFICES ASSUME NEW row \in ClanRow, NEW s \in {1, 2}, NEW other
                   PROVE  Rated(row, g, s, other).score = eloScore(g, s, row.score, other.score)
      OBVIOUS
    <3>2. PICK W, L, D : Counted(row, g, s) = [row EXCEPT !.wins = W, !.losses = L, !.draws = D]
      BY DEF Counted
    <3>3. QED
      BY <3>2 DEF Rated, ClanRow
  <2>5. /\ R[1].score = eloScore(g, 1, clans[team(g, 1)].score, clans[team(g, 2)].score)
        /\ R[2].score = eloScore(g, 2, clans[team(g, 2)].score, clans[team(g, 1)].score)
    <3>1. R[1] = Rated(clans[team(g, 1)], g, 1, clans[team(g, 2)])
      BY <2>1, <2>3
    <3>2. R[2] = Rated(clans[team(g, 2)], g, 2, clans[team(g, 1)])
      BY <2>1, <2>3
    <3>3. QED
      BY <2>2, <2>4, <3>1, <3>2
  <2>6. QED
    BY <1>2, <1>4, <2>5 DEF Weighing
<1>7. QED
  BY <1>5, <1>6

\* A thread's step leaves what others weigh alone, unless it spoils a row.
LEMMA OthersWeigh ==
  ASSUME IInv, Noting, NEW t \in Thread, NEW u \in Thread \ {t}, Step(t) \/ Failure(t),
         job'[u] = job[u], Weighing(u)
  PROVE  Weighing(u)'
<1> DEFINE g == job[u].game
<1>1. SUFFICES ASSUME job[u].next = "updateClans",
                      \A s \in {1, 2} : StaysPlain(team(g, s))
               PROVE  \A s \in {1, 2} : clans'[team(g, s)] = clans[team(g, s)]
  <2>1. ASSUME At(u, "updateClans")', \A s \in {1, 2} : Plain(team(g, s))',
               \A s \in {1, 2} : clans'[team(g, s)] = clans[team(g, s)]
        PROVE  \A s \in {1, 2} :
                 job'[u].rows[s].score = eloScore(job'[u].game, s,
                   clans'[team(job'[u].game, s)].score, clans'[team(job'[u].game, 3 - s)].score)
    <3>1. At(u, "updateClans") /\ \A s \in {1, 2} : Plain(team(g, s))
      BY <2>1 DEF At, Plain, Noting
    <3>2. \A s \in {1, 2} : job[u].rows[s].score = eloScore(g, s,
            clans[team(g, s)].score, clans[team(g, 3 - s)].score)
      BY <3>1 DEF Weighing
    <3>3. 3 - 1 = 2 /\ 3 - 2 = 1
      OBVIOUS
    <3>4. QED
      BY <2>1, <3>2, <3>3
  <2>2. QED
    BY <1>1, <2>1 DEF Weighing, At, Plain, StaysPlain
<1>2. TypeOK /\ Prepared(u) /\ Prepared(t)
  BY IInvParts
<1>3. team(g, 1) \in Clan /\ team(g, 2) \in Clan
  BY <1>1, <1>2, ClanTeams DEF Prepared, At, ClanCalls
<1>4. \A s \in {1, 2} : Holding(u, team(g, s))
  BY <1>1 DEF Holding, At
<1>5. ASSUME NEW s \in {1, 2} PROVE ~ Holding(t, team(g, s))
  <2>1. Holding(t, team(g, s)) => team(g, s) \in ClanRaces
    BY <1>3, <1>4 DEF ClanRaces
  <2>2. QED
    BY <1>1, <2>1, ClanRaceNoted
<1>6. CASE WriteClans(t)
  <2>1. \A s \in {1, 2} : team(g, s) \notin {team(job[t].game, 1), team(job[t].game, 2)}
    BY <1>5, <1>6 DEF Holding, WriteClans
  <2>2. QED
    BY <1>3, <1>6, <2>1, TwoRows
<1>7. CASE UpdateClanWrite(t)
  <2>1. \A s \in {1, 2} : team(g, s) # job[t].clan
    BY <1>5, <1>7 DEF Holding, UpdateClanWrite
  <2>2. QED
    BY <1>2, <1>3, <1>7, <2>1 DEF UpdateClanWrite, TypeOK
<1>8. CASE ~ WriteClans(t) /\ ~ UpdateClanWrite(t)
  <2>1. clans' = clans
    <3>1. Step(t) => clans' = clans
      BY <1>8 DEF Step, UpdateGame, QueryPlayer, WritePlayer, InsertGame, QueryClans,
              CreateLeaderboards, Recalc, RecalcCount, RecalcPage, RecalcWrite, UpdateClan, tables
    <3>2. Failure(t) => clans' = clans
      BY DEF Failure, QueryPlayerFails, WritePlayerFails, InsertGameFails, QueryClansFails,
              WriteClansFails, CreateLeaderboardsFails, RecalcCountFails, RecalcPageFails,
              RecalcWriteFails, UpdateClanWriteFails, tables
    <3>3. QED
      BY <3>1, <3>2
  <2>2. QED
    BY <2>1
<1>9. QED
  BY <1>6, <1>7, <1>8

LEMMA NextWeighs == IInv /\ Weighs /\ [Next]_vars => Weighs'
<1> SUFFICES ASSUME IInv, Weighs, [Next]_vars PROVE Weighs'
  OBVIOUS
<1>1. TypeOK
  BY DEF IInv
<1>2. ASSUME NEW t \in Thread, Noting,
             Step(t) \/ (Failure(t) /\ Concerned(t) \subseteq noted')
      PROVE  Weighs'
  <2>1. Passes(t)
    BY <1>1, <1>2, RowKept, RowCleared, RowUpdated DEF Step, Failure
  <2>2. \A u \in Thread \ {t} : Weighing(u)'
    BY <1>2, <2>1, OthersWeigh DEF Passes, Weighs
  <2>3. Weighing(t)'
    <3>1. CASE QueryClans(t)
      BY <1>2, <3>1, QueryWeighs
    <3>2. CASE QueryClansFails(t) /\ Concerned(t) \subseteq noted'
      <4>1. Locals(t) /\ At(t, "queryClans") /\ job[t].next \in ClanCalls /\ job[t] \in Job
        BY <1>1, <3>2, JobIs DEF IInv, QueryClansFails, At, ClanCalls
      <4>2. ~ StaysPlain(team(job[t].game, 1))
        BY <1>1, <3>2, <4>1, ClansConcerned
      <4>3. job'[t].game = job[t].game
        BY <1>1, <3>2, <4>1 DEF QueryClansFails, TypeOK, Job
      <4>4. QED
        BY <4>2, <4>3 DEF Weighing, Plain, StaysPlain
    <3>3. CASE (Step(t) /\ ~ QueryClans(t)) \/ (Failure(t) /\ ~ QueryClansFails(t))
      <4>1. job'[t].next # "updateClans"
        BY <3>3, NothingToWeigh
      <4>2. QED
        BY <4>1 DEF Weighing, At
    <3>4. QED
      BY <1>2, <3>1, <3>2, <3>3
  <2>4. QED
    BY <2>2, <2>3 DEF Weighs
<1>3. ASSUME NEW t \in Thread, Step(t), noted' = noted \union Races' PROVE Weighs'
  <2>1. Noting
    BY <1>1, <1>3, RacesTyped DEF Noting, TypeOK
  <2>2. Step(t) \/ (Failure(t) /\ Concerned(t) \subseteq noted')
    BY <1>3
  <2>3. QED
    BY <1>2, <2>1, <2>2
<1>4. ASSUME NEW t \in Thread, Failure(t), noted' = noted \union Races' \union Concerned(t)
      PROVE  Weighs'
  <2>1. Noting /\ Concerned(t) \subseteq noted'
    BY <1>1, <1>4, RacesTyped, ConcernedTyped DEF Noting, TypeOK
  <2>2. QED
    BY <1>2, <1>4, <2>1
<1>5. CASE Crash
  <2>1. \A t \in Thread : job'[t].next # "updateClans"
    BY <1>5, NoJobIs DEF Crash
  <2>2. QED
    BY <2>1 DEF Weighs, Weighing, At
<1>6. CASE UNCHANGED vars \/ (RestrictPlayer /\ noted \subseteq noted')
  <2>1. job' = job /\ clans' = clans /\ noted \subseteq noted'
    BY <1>6 DEF RestrictPlayer, vars, tables
  <2>2. QED
    BY <2>1 DEF Weighs, Weighing, At, Plain
<1>7. ASSUME NEW t \in Thread, UpdateClanReadFails(t), noted \subseteq noted' PROVE Weighs'
  <2>1. /\ clans' = clans /\ job'[t].next # "updateClans"
        /\ \A u \in Thread \ {t} : job'[u] = job[u]
    BY <1>1, <1>7, PageUnread
  <2>2. QED
    BY <1>7, <2>1 DEF Weighs, Weighing, At, Plain
<1>8. \/ UNCHANGED vars \/ (RestrictPlayer /\ noted \subseteq noted') \/ Crash
      \/ \E t \in Thread : Step(t) /\ noted' = noted \union Races'
      \/ \E t \in Thread : Failure(t) /\ noted' = noted \union Races' \union Concerned(t)
      \/ \E t \in Thread : UpdateClanReadFails(t) /\ noted \subseteq noted'
  BY DEF Next
<1>9. QED
  BY <1>3, <1>4, <1>5, <1>6, <1>7, <1>8

LEMMA WeighsInvariance == Spec => []Weighs
<1>1. Init => Weighs
  BY NoJobIs DEF Init, Weighs, Weighing, At
<1>2. QED
  BY <1>1, NextWeighs, Invariance, PTL DEF Spec

\* Two opponents have one success to share.
LEMMA ExpectedShared ==
  ASSUME NEW d \in Int
  PROVE  /\ Expected(d) \in Int /\ Expected(-d) \in Int
         /\ Expected(d) + Expected(-d) = 1000
<1>1. Quotient(d, 2) \in Int /\ Quotient(-d, 2) = - Quotient(d, 2)
  BY DEF Quotient
<1>2. CASE d > 820 \/ d < -820
  BY <1>2 DEF Expected
<1>3. CASE ~ (d > 820) /\ ~ (d < -820)
  <2>1. Expected(d) = 500 - Quotient(d, 2)
    BY <1>3 DEF Expected
  <2>2. Expected(-d) = 500 - Quotient(-d, 2)
    BY <1>3 DEF Expected
  <2>3. QED
    BY <1>1, <2>1, <2>2
<1>4. QED
  BY <1>2, <1>3

\* Rounding down twice loses one at most.
LEMMA RoundedDown ==
  ASSUME NEW a \in Int
  PROVE  /\ a \div 1000 \in Int /\ (-a) \div 1000 \in Int
         /\ (a \div 1000) + ((-a) \div 1000) \in {-1, 0}
OBVIOUS

\* What a decided game does to the points m and n of its sides.
LEMMA PointsMove ==
  ASSUME NEW g \in Game, Decided(g), NEW m \in Nat, NEW n \in Nat
  PROVE  \/ eloScore(g, 1, m, n) + eloScore(g, 2, n, m) - (m + n) \in {-1, 0}
         \/ eloScore(g, 1, m, n) = 0 \/ eloScore(g, 2, n, m) = 0
<1> DEFINE K  == eloWeight(g, 1)
           s1 == success(victory(g, 1))
           s2 == success(victory(g, 2))
           e1 == Expected(n - m)
           e2 == Expected(m - n)
           a  == K * (s1 - e1)
<1>1. K \in Int /\ eloWeight(g, 2) = K
  <2>1. Factor(victory(g, 1)) \in Nat /\ Factor(victory(g, 2)) \in Nat
    BY ReportIs, FactorIs
  <2>2. QED
    BY <2>1 DEF eloWeight
<1>2. s1 \in Int /\ s2 \in Int /\ s1 + s2 = 1000
  <2>1. \/ victory(g, 1) = 0 /\ victory(g, 2) \in {1, 2}
        \/ victory(g, 2) = 0 /\ victory(g, 1) \in {1, 2}
    BY DEF Decided, Lost, Major, Minor
  <2>2. QED
    BY <2>1 DEF success, Lost
<1>3. e1 \in Int /\ e2 \in Int /\ e1 + e2 = 1000
  <2>1. n - m \in Int /\ m - n = -(n - m)
    OBVIOUS
  <2>2. QED
    BY <2>1, ExpectedShared
<1>4. /\ eloScore(g, 1, m, n) = Clamped((a \div 1000) + m)
      /\ eloScore(g, 2, n, m) = Clamped(((K * (s2 - e2)) \div 1000) + n)
  BY <1>1 DEF eloScore
<1> HIDE DEF K, s1, s2, e1, e2
<1>5. s2 - e2 = -(s1 - e1) /\ s1 - e1 \in Int
  BY <1>2, <1>3
<1>6. K * (s2 - e2) = -a /\ a \in Int
  BY <1>1, <1>5
<1> HIDE DEF a
<1> DEFINE x == a \div 1000
           y == (-a) \div 1000
<1>7. x \in Int /\ y \in Int /\ x + y \in {-1, 0}
  BY <1>6, RoundedDown
<1>8. eloScore(g, 1, m, n) = Clamped(x + m) /\ eloScore(g, 2, n, m) = Clamped(y + n)
  BY <1>4, <1>6
<1> HIDE DEF x, y
<1>9. QED
  BY <1>7, <1>8 DEF Clamped

\* A result comes into a clan's record only with its own game.
LEMMA ResultComes ==
  ASSUME IInv, Noting, NEW t \in Thread, WriteClans(t),
         NEW g \in Game, ClanGame(g), StaysPlain(team(g, 1)),
         ~ Settled(g), Settled(g)'
  PROVE  job[t].game = g
<1> DEFINE c == team(g, 1)
           h == job[t].game
<1>1. c \in Clan
  BY ReportIs DEF ClanGame
<1>2. <<g, 1>> \notin Held(clans[c]) /\ <<g, 1>> \in Held(clans'[c])
  BY DEF Settled, OnRecord, Held
<1>3. PICK s \in {1, 2} : c = team(h, s)
  <2>1. c \in {team(h, 1), team(h, 2)}
    BY <1>1, <1>2, TwoRows
  <2>2. QED
    BY <2>1
<1>4. clans'[c] = job[t].rows[s]
  BY <1>3, TwoRows
<1>5. Held(job[t].rows[s]) = Held(clans[c]) \union Results(h, s)
  <2>1. Plain(c) /\ Rating(t)
    BY IInvParts DEF Noting, Plain, StaysPlain, Prepared
  <2>2. At(t, "updateClans") /\ job[t].next \in ClanCalls
    BY DEF WriteClans, At, ClanCalls
  <2>3. QED
    BY <1>3, <2>1, <2>2 DEF Rating
<1>6. <<g, 1>> \in Results(h, s)
  BY <1>2, <1>4, <1>5
<1>7. QED
  BY <1>6 DEF Results

LEMMA PointsWritten ==
  ASSUME IInv, Weighs, Noting, NEW t \in Thread, WriteClans(t),
         NEW g \in Game, ClanGame(g), Decided(g),
         ~ Settled(g), Settled(g)',
         \A s \in {1, 2} : StaysPlain(team(g, s))
  PROVE  \/ (clans'[team(g, 1)].score + clans'[team(g, 2)].score)
              - (clans[team(g, 1)].score + clans[team(g, 2)].score) \in {-1, 0}
         \/ \E s \in {1, 2} : clans'[team(g, s)].score = 0
<1> DEFINE m == clans[team(g, 1)].score
           n == clans[team(g, 2)].score
<1>1. job[t].game = g
  BY ResultComes
<1>2. m \in Nat /\ n \in Nat
  <2>1. team(g, 1) \in Clan /\ team(g, 2) \in Clan
    BY ReportIs DEF ClanGame
  <2>2. clans[team(g, 1)] \in ClanRow /\ clans[team(g, 2)] \in ClanRow
    BY <2>1 DEF IInv, TypeOK
  <2>3. QED
    BY <2>2 DEF ClanRow
<1>3. \A s \in {1, 2} : Plain(team(g, s))
  BY DEF Noting, Plain, StaysPlain
<1>4. Weighing(t) /\ At(t, "updateClans")
  BY DEF Weighs, WriteClans
<1>5. /\ job[t].rows[1].score = eloScore(g, 1, m, n)
      /\ job[t].rows[2].score = eloScore(g, 2, n, m)
  <2>1. \A s \in {1, 2} : job[t].rows[s].score =
          eloScore(g, s, clans[team(g, s)].score, clans[team(g, 3 - s)].score)
    BY <1>1, <1>3, <1>4 DEF Weighing
  <2>2. 3 - 1 = 2 /\ 3 - 2 = 1
    OBVIOUS
  <2>3. QED
    BY <2>1, <2>2
<1>6. clans'[team(g, 1)] = job[t].rows[1] /\ clans'[team(g, 2)] = job[t].rows[2]
  BY <1>1, TwoRows
<1>7. /\ clans'[team(g, 1)].score = eloScore(g, 1, m, n)
      /\ clans'[team(g, 2)].score = eloScore(g, 2, n, m)
  BY <1>5, <1>6
<1> HIDE DEF m, n
<1>8. CASE eloScore(g, 1, m, n) + eloScore(g, 2, n, m) - (m + n) \in {-1, 0}
  <2>1. eloScore(g, 1, m, n) \in Nat /\ eloScore(g, 2, n, m) \in Nat
    BY <1>2, EloIs
  <2>2. (clans'[team(g, 1)].score + clans'[team(g, 2)].score) - (m + n) \in {-1, 0}
    BY <1>2, <1>7, <1>8, <2>1
  <2>3. QED
    BY <2>2 DEF m, n
<1>9. CASE eloScore(g, 1, m, n) = 0 \/ eloScore(g, 2, n, m) = 0
  <2>1. clans'[team(g, 1)].score = 0 \/ clans'[team(g, 2)].score = 0
    BY <1>7, <1>9
  <2>2. QED
    BY <2>1
<1>10. QED
  BY <1>2, <1>8, <1>9, PointsMove

\* A clan's page is written with the results that are on record.
LEMMA PageSettlesNothing ==
  ASSUME IInv, Noting, NEW t \in Thread, UpdateClanWrite(t),
         NEW g \in Game, ClanGame(g), StaysPlain(team(g, 1))
  PROVE  Settled(g)' => Settled(g)
<1> DEFINE c == team(g, 1)
<1>1. c \in Clan /\ Plain(c) /\ clans \in [Clan -> ClanRow] /\ Editing(t)
  BY ReportIs, IInvParts DEF ClanGame, Noting, Plain, StaysPlain, TypeOK, Prepared
<1>2. At(t, "updateClan") /\ clans' = [clans EXCEPT ![job[t].clan] = job[t].page]
  BY DEF UpdateClanWrite
<1>3. Held(clans'[c]) = Held(clans[c])
  <2>1. CASE c = job[t].clan
    BY <1>1, <1>2, <2>1 DEF Editing
  <2>2. CASE c # job[t].clan
    BY <1>1, <1>2, <2>2
  <2>3. QED
    BY <2>1, <2>2
<1>4. QED
  BY <1>3 DEF Settled, OnRecord, Held

\* A decided game between two clans whose rows are not noted leaves the sum of
\* their points as it was or one point lower, or leaves one of them with none:
\* WriteClans weighs the points that are still in the table.  Draws, which raise
\* both, are not spoken of.
THEOREM PointsMoveBetweenClans == Spec => PointsChangeHands
<1> DEFINE Moved ==
      \A g \in Game :
        (/\ ClanGame(g) /\ Decided(g)
         /\ ~ Settled(g) /\ Settled(g)'
         /\ \A s \in {1, 2} : <<"clan", team(g, s)>> \notin noted')
          => LET before == clans[team(g, 1)].score + clans[team(g, 2)].score
                 after  == clans'[team(g, 1)].score + clans'[team(g, 2)].score
             IN  after - before \in {-1, 0} \/ \E s \in {1, 2} : clans'[team(g, s)].score = 0
<1>1. clans' = clans => Moved
  BY DEF Settled, OnRecord
<1>2. ASSUME IInv, Weighs, Noting, NEW t \in Thread, WriteClans(t) PROVE Moved
  BY <1>2, PointsWritten DEF StaysPlain
<1>3. ASSUME IInv, Noting, NEW t \in Thread, UpdateClanWrite(t) PROVE Moved
  BY <1>3, PageSettlesNothing DEF StaysPlain
<1>4. ASSUME NEW t \in Thread, Step(t), ~ WriteClans(t), ~ UpdateClanWrite(t)
      PROVE  clans' = clans
  BY <1>4 DEF Step, UpdateGame, QueryPlayer, WritePlayer, InsertGame, QueryClans,
              CreateLeaderboards, Recalc, RecalcCount, RecalcPage, RecalcWrite, UpdateClan, tables
<1>5. ASSUME NEW t \in Thread, Failure(t) PROVE clans' = clans
  BY <1>5 DEF Failure, QueryPlayerFails, WritePlayerFails, InsertGameFails, QueryClansFails,
              WriteClansFails, CreateLeaderboardsFails, RecalcCountFails, RecalcPageFails,
              RecalcWriteFails, UpdateClanWriteFails, tables
<1>6. /\ RestrictPlayer \/ Crash \/ UNCHANGED vars => clans' = clans
      /\ \A t \in Thread : UpdateClanReadFails(t) => clans' = clans
  BY DEF RestrictPlayer, Crash, UpdateClanReadFails, vars, tables
<1> HIDE DEF Moved
<1>7. IInv /\ Weighs /\ [Next]_vars => Moved
  <2>1. SUFFICES ASSUME IInv, Weighs, [Next]_vars PROVE Moved
    OBVIOUS
  <2>2. ASSUME NEW t \in Thread, Step(t), noted' = noted \union Races' PROVE Moved
    <3>1. Noting
      BY <2>1, <2>2, RacesTyped DEF Noting, IInv, TypeOK
    <3>2. QED
      BY <1>1, <1>2, <1>3, <1>4, <2>1, <2>2, <3>1
  <2>3. ASSUME NEW t \in Thread, Failure(t) PROVE Moved
    BY <1>1, <1>5, <2>3
  <2>4. CASE \/ RestrictPlayer \/ Crash \/ UNCHANGED vars
             \/ \E t \in Thread : UpdateClanReadFails(t)
    BY <1>1, <1>6, <2>4
  <2>5. \/ RestrictPlayer \/ Crash \/ UNCHANGED vars
        \/ \E t \in Thread : UpdateClanReadFails(t)
        \/ \E t \in Thread : Step(t) /\ noted' = noted \union Races'
        \/ \E t \in Thread : Failure(t)
    BY <2>1 DEF Next
  <2>6. QED
    BY <2>2, <2>3, <2>4, <2>5
<1>8. QED
  BY <1>7, Invariance, WeighsInvariance, PTL DEF Spec, PointsChangeHands, Moved
-----------------------------------------------------------------------------
(***************************************************************************)
(* The ledger.                                                             *)
(***************************************************************************)
\* Each result is in the column its victory says, in rows in the table and in
\* the hands of handlers, spoiled or not.
Filed(row) ==
  /\ \A x \in row.wins : victory(x[1], x[2]) \in {Major, Minor}
  /\ \A x \in row.losses : victory(x[1], x[2]) = Lost
  /\ \A x \in row.draws : victory(x[1], x[2]) = Draw

RowsFiled ==
  /\ \A c \in Clan : Filed(clans[c])
  /\ \A t \in Thread : Filed(job[t].page) /\ \A s \in {1, 2} : Filed(job[t].rows[s])

LEMMA NewClanFiled == Filed(NewClan)
BY DEF Filed, NewClan

LEMMA RatedFiled ==
  ASSUME NEW g \in Game, NEW s \in {1, 2}, NEW row \in ClanRow, NEW other, Filed(row)
  PROVE  Filed(Rated(row, g, s, other))
<1> DEFINE v == victory(g, s)
           wins   == IF v \in {Major, Minor} THEN row.wins \union {<<g, s>>} ELSE row.wins
           losses == IF v = Lost THEN row.losses \union {<<g, s>>} ELSE row.losses
           draws  == IF v = Draw THEN row.draws \union {<<g, s>>} ELSE row.draws
           n      == eloScore(g, s, row.score, other.score)
           counted == [row EXCEPT !.wins = wins, !.losses = losses, !.draws = draws]
<1>1. Rated(row, g, s, other) = [counted EXCEPT !.score = n]
  BY DEF Rated, Counted
<1>2. <<g, s>>[1] = g /\ <<g, s>>[2] = s
  OBVIOUS
<1>3. \A x \in wins : victory(x[1], x[2]) \in {Major, Minor}
  BY <1>2 DEF Filed
<1>4. \A x \in losses : victory(x[1], x[2]) = Lost
  BY <1>2 DEF Filed
<1>5. \A x \in draws : victory(x[1], x[2]) = Draw
  BY <1>2 DEF Filed
<1> HIDE DEF wins, losses, draws, n, v
<1>6. /\ [counted EXCEPT !.score = n].wins = wins
      /\ [counted EXCEPT !.score = n].losses = losses
      /\ [counted EXCEPT !.score = n].draws = draws
  BY DEF ClanRow
<1>7. QED
  BY <1>1, <1>3, <1>4, <1>5, <1>6 DEF Filed

LEMMA RatedRowsFiled ==
  ASSUME NEW g \in Game, NEW rows, \A s \in {1, 2} : rows[s] \in ClanRow /\ Filed(rows[s])
  PROVE  \A s \in {1, 2} : Filed(RatedRows(g, rows)[s])
<1>1. \A s \in {1, 2} : RatedRows(g, rows)[s] = Rated(rows[s], g, s, rows[3 - s])
  BY DEF RatedRows
<1>2. QED
  BY <1>1, RatedFiled

\* Most steps carry the rows of clans along or drop them.
Carries(t) ==
  \/ job'[t].rows = job[t].rows /\ job'[t].page = job[t].page
  \/ job'[t].rows = NoJob.rows /\ job'[t].page = NoJob.page

LEMMA ClanRowsCarried ==
  ASSUME TypeOK, NEW t \in Thread,
         \/ Step(t) /\ ~ QueryClans(t) /\ ~ UpdateClan(t)
         \/ Failure(t) /\ ~ QueryClansFails(t)
  PROVE  Carries(t)
<1>1. job[t] \in Job /\ job \in [Thread -> Job]
  BY JobIs DEF TypeOK
<1>2. \A j : j \in Job => /\ NextLine(j).rows = j.rows /\ NextLine(j).page = j.page
                          /\ PageDone(j).rows = j.rows /\ PageDone(j).page = j.page
  BY DEF NextLine, PageDone, Job
<1>3. CASE UpdateGame(t)
  BY <1>1, <1>3 DEF UpdateGame, NoJob, Carries
<1>4. CASE QueryPlayer(t) \/ QueryPlayerFails(t)
  <2>1. \/ \E B : job' = [job EXCEPT ![t] = NextLine([job[t] EXCEPT !.barred = B])]
        \/ \E q : job' = [job EXCEPT ![t].row = q, ![t].next = "updatePlayerStats"]
    BY <1>4 DEF QueryPlayer, QueryPlayerFails
  <2>2. \A B : /\ NextLine([job[t] EXCEPT !.barred = B]).rows = job[t].rows
               /\ NextLine([job[t] EXCEPT !.barred = B]).page = job[t].page
    BY <1>1 DEF NextLine, Job
  <2>3. QED
    BY <1>1, <2>1, <2>2 DEF Carries, Job
<1>5. CASE WritePlayer(t) \/ WritePlayerFails(t)
  <2>1. \/ job' = [job EXCEPT ![t] = NextLine(job[t])]
        \/ \E A : job' = [job EXCEPT ![t] = NextLine([job[t] EXCEPT !.added = A])]
    BY <1>5 DEF WritePlayer, WritePlayerFails
  <2>2. \A A : /\ NextLine([job[t] EXCEPT !.added = A]).rows = job[t].rows
               /\ NextLine([job[t] EXCEPT !.added = A]).page = job[t].page
    BY <1>1 DEF NextLine, Job
  <2>3. CASE job' = [job EXCEPT ![t] = NextLine(job[t])]
    BY <1>1, <1>2, <2>3 DEF Carries
  <2>4. ASSUME NEW A, job' = [job EXCEPT ![t] = NextLine([job[t] EXCEPT !.added = A])]
        PROVE  Carries(t)
    <3>1. job'[t] = NextLine([job[t] EXCEPT !.added = A])
      BY <1>1, <2>4
    <3>2. QED
      BY <2>2, <3>1 DEF Carries
  <2>5. QED
    BY <2>1, <2>3, <2>4
<1>6. CASE InsertGame(t) \/ InsertGameFails(t)
  BY <1>1, <1>6 DEF InsertGame, InsertGameFails, Carries, Job
<1>7. CASE WriteClans(t) \/ WriteClansFails(t)
  BY <1>1, <1>7 DEF WriteClans, WriteClansFails, Go, Carries, Job
<1>8. CASE \/ CreateLeaderboards(t) \/ CreateLeaderboardsFails(t) \/ RecalcWrite(t)
           \/ RecalcWriteFails(t) \/ UpdateClanWrite(t) \/ UpdateClanWriteFails(t)
  <2>1. job' = [job EXCEPT ![t] = NoJob]
    BY <1>8 DEF CreateLeaderboards, CreateLeaderboardsFails, RecalcWrite, RecalcWriteFails,
                UpdateClanWrite, UpdateClanWriteFails, Finish
  <2>2. QED
    BY <1>1, <2>1 DEF Carries
<1>9. CASE Recalc(t)
  BY <1>1, <1>9 DEF Recalc, NoJob, Carries
<1>10. CASE RecalcCount(t) \/ RecalcCountFails(t)
  BY <1>1, <1>10 DEF RecalcCount, RecalcCountFails, Carries, Job
<1>11. CASE RecalcPage(t) \/ RecalcPageFails(t)
  <2>1. \/ job' = [job EXCEPT ![t] = PageDone(job[t])]
        \/ \E R : job' = [job EXCEPT ![t] = PageDone([job[t] EXCEPT !.read = R])]
        \/ \E R, r : job' = [job EXCEPT ![t] = PageDone([job[t] EXCEPT !.read = R, !.row = r])]
    BY <1>11 DEF RecalcPage, RecalcPageFails
  <2>2. CASE job' = [job EXCEPT ![t] = PageDone(job[t])]
    BY <1>1, <1>2, <2>2 DEF Carries
  <2>3. ASSUME NEW R, job' = [job EXCEPT ![t] = PageDone([job[t] EXCEPT !.read = R])]
        PROVE  Carries(t)
    <3>1. job'[t] = PageDone([job[t] EXCEPT !.read = R])
      BY <1>1, <2>3
    <3>2. QED
      BY <1>1, <3>1 DEF Carries, PageDone, Job
  <2>4. ASSUME NEW R, NEW r,
               job' = [job EXCEPT ![t] = PageDone([job[t] EXCEPT !.read = R, !.row = r])]
        PROVE  Carries(t)
    <3>1. job'[t] = PageDone([job[t] EXCEPT !.read = R, !.row = r])
      BY <1>1, <2>4
    <3>2. QED
      BY <1>1, <3>1 DEF Carries, PageDone, Job
  <2>5. QED
    BY <2>1, <2>2, <2>3, <2>4
<1>12. QED
  BY <1>3, <1>4, <1>5, <1>6, <1>7, <1>8, <1>9, <1>10, <1>11 DEF Step, Failure

\* Who writes a clan's row.
LEMMA WritersOfClans ==
  ASSUME NEW t \in Thread, Step(t) \/ Failure(t)
  PROVE  clans' = clans \/ WriteClans(t) \/ UpdateClanWrite(t)
<1>1. ASSUME Step(t), ~ WriteClans(t), ~ UpdateClanWrite(t) PROVE clans' = clans
  BY <1>1 DEF Step, UpdateGame, QueryPlayer, WritePlayer, InsertGame, QueryClans,
              CreateLeaderboards, Recalc, RecalcCount, RecalcPage, RecalcWrite, UpdateClan, tables
<1>2. ASSUME Failure(t) PROVE clans' = clans
  BY <1>2 DEF Failure, QueryPlayerFails, WritePlayerFails, InsertGameFails, QueryClansFails,
              WriteClansFails, CreateLeaderboardsFails, RecalcCountFails, RecalcPageFails,
              RecalcWriteFails, UpdateClanWriteFails, tables
<1>3. QED
  BY <1>1, <1>2

\* A step of t leaves the rows of clans filed, t's own among them.
LEMMA StepFiles ==
  ASSUME IInv, RowsFiled, NEW t \in Thread, Step(t) \/ Failure(t)
  PROVE  /\ \A c \in Clan : Filed(clans'[c])
         /\ Filed(job'[t].page) /\ \A s \in {1, 2} : Filed(job'[t].rows[s])
<1>1. /\ TypeOK /\ Prepared(t) /\ job[t] \in Job /\ job \in [Thread -> Job]
      /\ clans \in [Clan -> ClanRow]
  BY IInvParts, JobIs DEF TypeOK
<1>2. Filed(job[t].page) /\ Filed(job[t].rows[1]) /\ Filed(job[t].rows[2])
  BY DEF RowsFiled
<1>3. \A c \in Clan : Filed(clans'[c])
  <2>1. CASE clans' = clans
    BY <2>1 DEF RowsFiled
  <2>2. CASE WriteClans(t)
    <3>1. \A c \in Clan : clans'[c] \in {clans[c], job[t].rows[1], job[t].rows[2]}
      BY <2>2 DEF WriteClans, updateClans
    <3>2. QED
      BY <1>2, <3>1 DEF RowsFiled
  <2>3. CASE UpdateClanWrite(t)
    <3>1. \A c \in Clan : clans'[c] \in {clans[c], job[t].page}
      BY <1>1, <2>3 DEF UpdateClanWrite
    <3>2. QED
      BY <1>2, <3>1 DEF RowsFiled
  <2>4. QED
    BY <2>1, <2>2, <2>3, WritersOfClans
<1>4. Filed(NoJob.page) /\ \A s \in {1, 2} : Filed(NoJob.rows[s])
  BY NewClanFiled DEF NoJob
<1>5. CASE Carries(t)
  BY <1>2, <1>3, <1>4, <1>5 DEF Carries
<1>6. CASE UpdateClan(t)
  <2>1. PICK c \in Clan, i \in Info :
          /\ job[t] = NoJob
          /\ job' = [job EXCEPT ![t] = [NoJob EXCEPT !.op = "UpdateClan", !.next = "updateClan",
                                        !.clan = c, !.page = [clans[c] EXCEPT !.info = i]]]
          /\ UNCHANGED <<tables, sent, late>>
    BY <1>6, Zenon DEF UpdateClan
  <2>2. job'[t].page = [clans[c] EXCEPT !.info = i] /\ job'[t].rows = NoJob.rows
    BY <1>1, <2>1 DEF NoJob
  <2>3. Filed([clans[c] EXCEPT !.info = i])
    <3>1. clans[c] \in ClanRow /\ Filed(clans[c])
      BY <1>1 DEF RowsFiled
    <3>2. QED
      BY <3>1 DEF Filed, ClanRow
  <2>4. QED
    BY <1>3, <1>4, <2>2, <2>3
<1>7. ASSUME NEW rows, \A s \in {1, 2} : rows[s] \in ClanRow /\ Filed(rows[s]),
             job[t].next \in ClanCalls,
             job' = [job EXCEPT ![t].rows = RatedRows(job[t].game, rows), ![t].next = "updateClans"]
      PROVE  Filed(job'[t].page) /\ \A s \in {1, 2} : Filed(job'[t].rows[s])
  <2>1. job'[t].page = job[t].page /\ job'[t].rows = RatedRows(job[t].game, rows)
    BY <1>1, <1>7 DEF Job
  <2>2. job[t].game \in Game
    BY <1>1, <1>7, ClanTeams DEF Prepared
  <2>3. QED
    BY <1>2, <1>7, <2>1, <2>2, RatedRowsFiled
<1>8. CASE QueryClans(t)
  <2>1. job[t].next \in ClanCalls
    BY <1>8 DEF QueryClans, At, ClanCalls
  <2>2. team(job[t].game, 1) \in Clan /\ team(job[t].game, 2) \in Clan
    BY <1>1, <2>1, ClanTeams DEF Prepared
  <2>3. \A s \in {1, 2} : /\ queryClansByClanId(job[t].game)[s] \in ClanRow
                          /\ Filed(queryClansByClanId(job[t].game)[s])
    BY <1>1, <2>2, NewClanIs, NewClanFiled DEF queryClansByClanId, RowsFiled
  <2>4. QED
    BY <1>3, <1>7, <1>8, <2>1, <2>3 DEF QueryClans
<1>9. CASE QueryClansFails(t)
  <2>1. job[t].next \in ClanCalls
    BY <1>9 DEF QueryClansFails, At, ClanCalls
  <2>2. \A s \in {1, 2} : /\ [x \in {1, 2} |-> NewClan][s] \in ClanRow
                          /\ Filed([x \in {1, 2} |-> NewClan][s])
    BY NewClanIs, NewClanFiled
  <2>3. QED
    BY <1>3, <1>7, <1>9, <2>1, <2>2 DEF QueryClansFails
<1>10. QED
  BY <1>1, <1>5, <1>6, <1>8, <1>9, ClanRowsCarried

LEMMA NextFiles == IInv /\ RowsFiled /\ [Next]_vars => RowsFiled'
<1> SUFFICES ASSUME IInv, RowsFiled, [Next]_vars PROVE RowsFiled'
  OBVIOUS
<1>1. ASSUME NEW t \in Thread, Step(t) \/ Failure(t) PROVE RowsFiled'
  <2>1. \A u \in Thread \ {t} : job'[u] = job[u]
    BY <1>1, RowKept, RowCleared, RowUpdated DEF Step, Failure, Passes, IInv
  <2>2. QED
    BY <1>1, <2>1, StepFiles DEF RowsFiled
<1>2. CASE Crash
  BY <1>2, NewClanFiled DEF Crash, RowsFiled, NoJob, tables
<1>3. CASE RestrictPlayer \/ UNCHANGED vars
  BY <1>3 DEF RestrictPlayer, RowsFiled, vars, tables
<1>4. ASSUME NEW t \in Thread, UpdateClanReadFails(t) PROVE RowsFiled'
  <2>1. /\ clans' = clans /\ \A u \in Thread \ {t} : job'[u] = job[u]
        /\ job'[t].rows = NoJob.rows
        /\ job'[t].page.wins = {} /\ job'[t].page.losses = {} /\ job'[t].page.draws = {}
    BY <1>4, PageUnread DEF IInv
  <2>2. Filed(job'[t].page)
    BY <2>1 DEF Filed
  <2>3. \A s \in {1, 2} : Filed(job'[t].rows[s])
    BY <2>1, NewClanFiled DEF NoJob
  <2>4. QED
    BY <2>1, <2>2, <2>3 DEF RowsFiled
<1>5. QED
  BY <1>1, <1>2, <1>3, <1>4 DEF Next

LEMMA FiledInvariance == Spec => []RowsFiled
<1>1. Init => RowsFiled
  BY NewClanFiled DEF Init, RowsFiled, NoJob
<1>2. QED
  BY <1>1, NextFiles, Invariance, PTL DEF Spec

\* A filed row posts each result it holds in the one column of its victory.
LEMMA PostedIs ==
  ASSUME NEW row \in ClanRow, Filed(row)
  PROVE  Posted(row) = UNION {{x} \X Verdict(victory(x[1], x[2])) : x \in Held(row)}
<1>1. \A x \in Held(row) : victory(x[1], x[2]) \in {Lost, Major, Minor, Draw}
  BY DEF Held, Filed
<1>2. ASSUME NEW y \in Posted(row)
      PROVE  y \in UNION {{x} \X Verdict(victory(x[1], x[2])) : x \in Held(row)}
  <2>1. PICK x, v : /\ y = <<x, v>>
                    /\ \/ x \in row.wins /\ v = "wins"
                       \/ x \in row.losses /\ v = "losses"
                       \/ x \in row.draws /\ v = "draws"
    BY <1>2 DEF Posted
  <2>2. x \in Held(row) /\ v \in Verdict(victory(x[1], x[2]))
    BY <2>1 DEF Held, Filed, Verdict, Lost, Major, Minor, Draw
  <2>3. QED
    BY <2>1, <2>2
<1>3. /\ \A v \in {Major, Minor} : Verdict(v) = {"wins"}
      /\ Verdict(Lost) = {"losses"} /\ Verdict(Draw) = {"draws"}
  BY DEF Verdict, Lost, Major, Minor, Draw
<1>4. ASSUME NEW x \in Held(row), NEW v \in Verdict(victory(x[1], x[2]))
      PROVE  <<x, v>> \in Posted(row)
  <2>1. CASE x \in row.wins
    <3>1. Verdict(victory(x[1], x[2])) = {"wins"}
      BY <1>3, <2>1 DEF Filed
    <3>2. QED
      BY <1>4, <2>1, <3>1 DEF Posted
  <2>2. CASE x \in row.losses
    <3>1. Verdict(victory(x[1], x[2])) = {"losses"}
      BY <1>3, <2>2 DEF Filed
    <3>2. QED
      BY <1>4, <2>2, <3>1 DEF Posted
  <2>3. CASE x \in row.draws
    <3>1. Verdict(victory(x[1], x[2])) = {"draws"}
      BY <1>3, <2>3 DEF Filed
    <3>2. QED
      BY <1>4, <2>3, <3>1 DEF Posted
  <2>4. QED
    BY <2>1, <2>2, <2>3 DEF Held
<1>5. QED
  BY <1>2, <1>4

\* What the rating of a game adds.
Posting(g, s) == {<<g, s>>} \X Verdict(victory(g, s))

LEMMA PostedMore ==
  ASSUME NEW g \in Game, NEW s \in {1, 2}, NEW old \in ClanRow, NEW row \in ClanRow,
         Filed(old), Filed(row), Held(row) = Held(old) \union Results(g, s)
  PROVE  Posted(row) = Posted(old) \union Posting(g, s)
<1> DEFINE V(x) == {x} \X Verdict(victory(x[1], x[2]))
<1>1. Posted(row) = UNION {V(x) : x \in Held(row)} /\ Posted(old) = UNION {V(x) : x \in Held(old)}
  BY PostedIs
<1>2. V(<<g, s>>) = Posting(g, s)
  BY DEF Posting
<1>3. Results(g, s) = {<<g, s>>} \/ (Results(g, s) = {} /\ Posting(g, s) = {})
  <2>1. victory(g, s) \in Nat
    BY ReportIs
  <2>2. victory(g, s) \notin Lost .. Draw => Verdict(victory(g, s)) = {}
    BY <2>1 DEF Verdict, Lost, Major, Minor, Draw
  <2>3. QED
    BY <2>2 DEF Results, Posting
<1> HIDE DEF V
<1>4. QED
  BY <1>1, <1>2, <1>3

\* The same results are the same postings.
LEMMA PostedSame ==
  ASSUME NEW old \in ClanRow, NEW row \in ClanRow, Filed(old), Filed(row), Held(row) = Held(old)
  PROVE  Posted(row) = Posted(old)
BY PostedIs

\* What the step of a handler leaves alone, as the ledger sees it.
StatsStay == \A p \in Player : StaysClear(p) => stats'[p].games = stats[p].games

RecordsStay == \A c \in Clan : StaysPlain(c) => Posted(clans'[c]) = Posted(clans[c])

LEMMA LedgerStays ==
  /\ StatsStay => Ledger!TallyStays
  /\ RecordsStay => Ledger!RecordStays
  /\ disabled' = disabled => Ledger!Strike({})
  /\ boards' = boards =>
       UNCHANGED [b \in Board |->
                    [x \in DOMAIN boards[b] |->
                       IF b = "clan" THEN Posted(boards[b][x]) ELSE boards[b][x].games]]
<1>1. StatsStay => Ledger!TallyStays
  BY DEF StatsStay, Ledger!TallyStays, Ledger!Good, StaysClear
<1>2. RecordsStay => Ledger!RecordStays
  BY DEF RecordsStay, Ledger!RecordStays, Ledger!Good, StaysPlain
<1>3. disabled' = disabled => Ledger!Strike({})
  BY DEF Ledger!Strike
<1>4. QED
  BY <1>1, <1>2, <1>3

LEMMA Rests ==
  ASSUME StatsStay, RecordsStay, UNCHANGED <<games, disabled, boards>>
  PROVE  Ledger!Rest
BY LedgerStays DEF Ledger!Rest

\* The statistics are of the log before and after.
LEMMA StatsStayOfLog ==
  ASSUME IInv, IInv', Noting, UNCHANGED <<log, disabled>>,
         \A k \in Key : InFlight(k)' <=> InFlight(k)
  PROVE  StatsStay
<1>1. SUFFICES ASSUME NEW p \in Player, StaysClear(p) PROVE stats'[p].games = stats[p].games
  BY DEF StatsStay
<1>2. /\ stats[p].games \in [Key -> Nat] /\ stats'[p].games \in [Key -> Nat]
  BY DEF IInv, TypeOK, Row
<1>3. <<"player", p>> \notin noted /\ <<"player", p>> \notin noted'
  BY <1>1 DEF StaysClear, Noting
<1>4. \A k \in Key : stats'[p].games[k] = stats[p].games[k]
  BY <1>3 DEF IInv, StatsMatchLog
<1>5. QED
  BY <1>2, <1>4

\* A line is counted: it is not in a game that is booked, and was not counted.
LEMMA LineCounted ==
  ASSUME IInv, IInv', Noting, NEW t \in Thread, WritePlayer(t)
  PROVE  Ledger!Rest \/ \E k \in Key : Ledger!Count(k)
<1>1. /\ TypeOK /\ Prepared(t) /\ StatsMatchLog /\ Distinct
      /\ stats \in [Player -> Row] /\ \A u \in Thread : Prepared(u)
  BY IInvParts DEF TypeOK
<1>2. /\ At(t, "updatePlayerStats") /\ job[t].next \in Ahead /\ job[t].next \in ReportCalls
      /\ job[t].next = "updatePlayerStats"
      /\ stats' = [stats EXCEPT ![pid(Current(t))] = job[t].row]
      /\ UNCHANGED <<games, log, disabled, clans, boards>>
  BY DEF WritePlayer, At, Ahead, ReportCalls
<1>3. PICK k \in Key : k = Current(t)
  BY <1>1, <1>2, ReportingJob DEF Prepared
<1> DEFINE p == pid(k)
<1>4. /\ p \in Player /\ k[1] = job[t].game /\ k[2] = job[t].i
      /\ k \in KeysOf(job[t].game) /\ job[t].i \in Nat
  BY <1>1, <1>2, <1>3, ReportingJob DEF Prepared
<1>5. RecordsStay
  BY <1>2 DEF RecordsStay
<1>6. \A q \in Player \ {p} : stats'[q] = stats[q]
  BY <1>1, <1>2, <1>3
<1>7. CASE ~ StaysClear(p)
  <2>1. StatsStay
    BY <1>6, <1>7 DEF StatsStay
  <2>2. QED
    BY <1>2, <1>5, <2>1, Rests
<1>8. CASE StaysClear(p)
  <2>1. Clear(p)
    BY <1>8 DEF Clear, StaysClear, Noting
  <2>2. \A x \in Key : job[t].row.games[x] = IF x = k THEN 1 ELSE stats[p].games[x]
    BY <1>1, <1>2, <1>3, <2>1 DEF Prepared, Adding
  <2>3. job[t].row.games \in [Key -> Nat] /\ stats[p].games \in [Key -> Nat]
    BY <1>1, <1>3, <1>4, JobIs DEF Row
  <2>4. stats'[p].games = [stats[p].games EXCEPT ![k] = 1]
    <3>1. stats'[p] = job[t].row
      BY <1>1, <1>2, <1>3, <1>4
    <3>2. QED
      BY <1>3, <1>4, <2>2, <2>3, <3>1
  <2>5. stats[p].games[k] = 0
    <3>1. k \notin log
      BY <1>1, <1>2, <1>3, <1>4 DEF Prepared, Logging
    <3>2. ASSUME NEW u \in Thread, k \in job[u].added PROVE FALSE
      <4>1. job[u].next \in Ahead
        BY <1>1, <3>2 DEF Prepared, Locals
      <4>2. k \in KeysOf(job[u].game) /\ k[2] < job[u].i
        BY <1>1, <3>2, <4>1 DEF Prepared, Logging
      <4>3. job[u].game = job[t].game
        BY <1>3, <1>4, <4>2 DEF KeysOf
      <4>4. job[u].op = "UpdateGame" /\ job[t].op = "UpdateGame"
        BY <1>1, <1>2, <4>1 DEF Prepared, Locals, ReportCalls
      <4>5. u = t
        BY <1>1, <4>3, <4>4 DEF Distinct
      <4>6. QED
        BY <1>3, <1>4, <4>2, <4>5
    <3>3. ~ InFlight(k)
      BY <3>2 DEF InFlight
    <3>4. QED
      BY <1>1, <1>3, <1>4, <2>1, <3>1, <3>3 DEF StatsMatchLog, Clear
  <2>6. \A g \in games : k \notin [h \in Game |-> KeysOf(h)][g]
    <3>1. job[t].game \notin games
      BY <1>1, <1>2 DEF Prepared, Logging
    <3>2. games \subseteq Game
      BY <1>1 DEF TypeOK
    <3>3. QED
      BY <1>3, <1>4, <3>1, <3>2 DEF KeysOf
  <2>7. Ledger!Strike({}) /\ Ledger!RecordStays
    BY <1>2, <1>5, LedgerStays
  <2>8. ASSUME NEW q \in Player
        PROVE  [r \in Player |-> stats'[r].games][q] =
                 IF q = p THEN [stats[q].games EXCEPT ![k] = 1] ELSE stats[q].games
    BY <1>6, <2>4
  <2>9. [r \in Player |-> stats[r].games][p][k] = 0
    BY <1>3, <1>4, <2>5
  <2>10. Ledger!Count(k)
    BY <1>2, <1>3, <1>4, <2>6, <2>7, <2>8, <2>9 DEF Ledger!Count
  <2>11. QED
    BY <1>3, <1>4, <2>10
<1>9. QED
  BY <1>7, <1>8

\* A game is booked: what its report has not counted is struck.
LEMMA GameEntered ==
  ASSUME IInv, IInv', Noting, NEW t \in Thread, At(t, "insertGameStat"),
         NEW L \in SUBSET KeysOf(job[t].game),
         \A k \in KeysOf(job[t].game) : StaysClear(pid(k)) => k \in L,
         games' = games \union {job[t].game},
         log' = log \union L,
         disabled' = disabled \union {k \in L : pid(k) \in job[t].barred},
         job' = [job EXCEPT ![t].next = AfterInsert(job[t].game), ![t].added = {}],
         UNCHANGED <<stats, clans, boards>>
  PROVE  job[t].game \in Game /\ Ledger!Enter(job[t].game)
<1> DEFINE g == job[t].game
<1>1. /\ TypeOK /\ Prepared(t) /\ job[t] \in Job /\ job \in [Thread -> Job]
      /\ \A u \in Thread : Prepared(u)
      /\ Distinct /\ StatsMatchLog'
  BY IInvParts, JobIs DEF TypeOK, IInv
<1>2. job[t].next \in Ahead /\ job[t].next \in ReportCalls
  BY DEF At, Ahead, ReportCalls
<1>3. g \in Game /\ g \notin games /\ (\A k \in KeysOf(g) : k \notin log)
  BY <1>1, <1>2, ReportingJob DEF Prepared, Logging
<1>4. disabled \subseteq log
  BY <1>1 DEF TypeOK
<1>5. ASSUME NEW k \in KeysOf(g), StaysClear(pid(k))
      PROVE  k \in disabled' <=> stats[pid(k)].games[k] = 0
  <2>1. k \in Key /\ pid(k) \in Player /\ k[1] = g
    BY KeysOfIs, KeyIs
  <2>2. k \in log'
    BY <1>5
  <2>3. ASSUME NEW u \in Thread, k \in job'[u].added PROVE FALSE
    <3>1. u # t /\ k \in job[u].added
      BY <1>1, <2>3 DEF Job
    <3>2. job[u].next \in Ahead
      BY <1>1, <3>1 DEF Prepared, Locals
    <3>3. k \in KeysOf(job[u].game)
      BY <1>1, <3>1, <3>2 DEF Prepared, Logging
    <3>4. job[u].game = g /\ job[u].op = "UpdateGame" /\ job[t].op = "UpdateGame"
      BY <1>1, <1>2, <2>1, <3>2, <3>3 DEF KeysOf, Prepared, Locals, ReportCalls
    <3>5. QED
      BY <1>1, <3>1, <3>4 DEF Distinct
  <2>4. ~ InFlight(k)'
    BY <2>3 DEF InFlight
  <2>5. stats'[pid(k)].games[k] =
          IF pid(k) = pid(k) /\ (k \in log' \ disabled' \/ InFlight(k)') THEN 1 ELSE 0
    BY <1>1, <1>5, <2>1 DEF StatsMatchLog, StaysClear
  <2>6. QED
    BY <2>2, <2>4, <2>5
<1>6. ASSUME NEW k \in Key, StaysClear(pid(k))
      PROVE  k \in disabled' <=> k \in disabled \/ (k \in KeysOf(g) /\ stats[pid(k)].games[k] = 0)
  <2>1. CASE k \in KeysOf(g)
    BY <1>3, <1>4, <1>5, <1>6, <2>1
  <2>2. CASE k \notin KeysOf(g)
    BY <2>2
  <2>3. QED
    BY <2>1, <2>2
<1>7. \A k \in Key : [p \in Player |-> stats[p].games][[x \in Key |-> pid(x)][k]][k]
                       = stats[pid(k)].games[k]
  BY KeyIs
<1>8. [h \in Game |-> KeysOf(h)][g] = KeysOf(g) /\ KeysOf(g) \subseteq Key
  BY <1>3 DEF KeysOf
<1>9. \A k \in Key : Ledger!Good("player", [x \in Key |-> pid(x)][k]) <=> StaysClear(pid(k))
  BY DEF Ledger!Good, StaysClear
<1>10. Ledger!Strike({k \in [h \in Game |-> KeysOf(h)][g] :
                        [p \in Player |-> stats[p].games][[x \in Key |-> pid(x)][k]][k] = 0})
  BY <1>6, <1>7, <1>8, <1>9 DEF Ledger!Strike
<1>11. StatsStay /\ RecordsStay
  BY DEF StatsStay, RecordsStay
<1>12. QED
  BY <1>3, <1>10, <1>11, LedgerStays DEF Ledger!Enter

\* A game whose lines do not all get into the log is booked with the accounts
\* of its players spoiled, or not at all.
LEMMA GameEnteredInPart ==
  ASSUME IInv, IInv', Noting, NEW t \in Thread, InsertGameFails(t), Concerned(t) \subseteq noted'
  PROVE  Ledger!Rest \/ \E g \in Game : Ledger!Enter(g)
<1> DEFINE g == job[t].game
<1>1. /\ At(t, "insertGameStat")
      /\ job' = [job EXCEPT ![t].next = AfterInsert(g), ![t].added = {}]
      /\ UNCHANGED <<stats, clans, boards>>
  BY DEF InsertGameFails
<1>2. ASSUME NEW k \in KeysOf(g) PROVE ~ StaysClear(pid(k))
  <2>1. <<"player", pid(k)>> \in Concerned(t)
    BY <1>1, <1>2 DEF Concerned, At
  <2>2. QED
    BY <2>1 DEF StaysClear
<1>3. CASE UNCHANGED <<games, log, disabled>>
  <2>1. StatsStay /\ RecordsStay
    BY <1>1 DEF StatsStay, RecordsStay
  <2>2. QED
    BY <1>1, <1>3, <2>1, Rests
<1>4. ASSUME NEW L \in SUBSET KeysOf(g), games' = games \union {g}, log' = log \union L,
             disabled' = disabled \union {k \in L : pid(k) \in job[t].barred}
      PROVE  g \in Game /\ Ledger!Enter(g)
  BY <1>1, <1>2, <1>4, GameEntered
<1>5. QED
  BY <1>3, <1>4 DEF InsertGameFails

\* What a game brings a clan that plays on one side only.
LEMMA ResultsOfIs ==
  ASSUME NEW g \in Game, NEW c
  PROVE  /\ c \notin {team(g, 1), team(g, 2)} => ResultsOf(g, c) = {}
         /\ \A s \in {1, 2} : ClanGame(g) /\ c = team(g, s) /\ team(g, 1) # team(g, 2) =>
              ResultsOf(g, c) = Posting(g, s)
<1> DEFINE S == {x \in {1, 2} : ClanGame(g) /\ team(g, x) = c}
<1>1. ResultsOf(g, c) = UNION {Posting(g, s) : s \in S}
  BY DEF ResultsOf, Posting
<1>2. c \notin {team(g, 1), team(g, 2)} => S = {}
  OBVIOUS
<1>3. \A s \in {1, 2} : ClanGame(g) /\ c = team(g, s) /\ team(g, 1) # team(g, 2) => S = {s}
  OBVIOUS
<1> HIDE DEF S
<1>4. QED
  BY <1>1, <1>2, <1>3

\* The results of a booked game are posted to both clans.
LEMMA ResultsSettled ==
  ASSUME IInv, IInv', RowsFiled, RowsFiled', Noting, NEW t \in Thread, WriteClans(t)
  PROVE  Ledger!Rest \/ \E g \in Game : Ledger!Settle(g)
<1> DEFINE g == job[t].game
<1>1. /\ TypeOK /\ Prepared(t) /\ ClanRecordMatchesLog
      /\ clans \in [Clan -> ClanRow] /\ clans' \in [Clan -> ClanRow]
  BY IInvParts DEF TypeOK, IInv
<1>2. /\ At(t, "updateClans") /\ job[t].next \in ClanCalls
      /\ UNCHANGED <<stats, games, log, disabled, boards>>
  BY DEF WriteClans, At, ClanCalls
<1>3. g \in Game /\ ClanGame(g) /\ team(g, 1) \in Clan /\ team(g, 2) \in Clan
  BY <1>1, <1>2, ClanTeams DEF Prepared, Locals
<1>4. /\ \A c \in Clan : c \notin {team(g, 1), team(g, 2)} => clans'[c] = clans[c]
      /\ \A s \in {1, 2} : StaysPlain(team(g, s)) => clans'[team(g, s)] = job[t].rows[s]
  BY TwoRows
<1>5. StatsStay
  BY <1>2 DEF StatsStay
<1>6. CASE \A s \in {1, 2} : ~ StaysPlain(team(g, s))
  <2>1. RecordsStay
    BY <1>4, <1>6 DEF RecordsStay
  <2>2. QED
    BY <1>2, <1>5, <2>1, Rests
<1>7. ASSUME NEW s \in {1, 2}, StaysPlain(team(g, s))
      PROVE  /\ g \in games
             /\ team(g, 1) # team(g, 2)
             /\ Posted(clans'[team(g, s)]) = Posted(clans[team(g, s)]) \union Posting(g, s)
             /\ Posted(clans[team(g, s)]) \intersect Posting(g, s) = {}
  <2>1. Plain(team(g, s)) /\ team(g, s) \in Clan
    BY <1>3, <1>7 DEF Plain, StaysPlain, Noting
  <2>2. /\ g \in games
        /\ Held(clans'[team(g, s)]) = Held(clans[team(g, s)]) \union Results(g, s)
    BY <1>1, <1>2, <1>4, <1>7, <2>1 DEF Prepared, Rating
  <2>3. team(g, 1) = team(g, 2) => team(g, 1) \in ClanRaces
    BY <1>2, <1>3 DEF ClanRaces
  <2>4. team(g, 1) # team(g, 2)
    BY <1>7, <2>3, ClanRaceNoted
  <2>5. Posted(clans'[team(g, s)]) = Posted(clans[team(g, s)]) \union Posting(g, s)
    BY <1>1, <1>3, <2>1, <2>2, PostedMore DEF RowsFiled
  <2>6. ASSUME victory(g, s) \in Lost .. Draw PROVE <<g, s>> \notin Held(clans[team(g, s)])
    <3>1. ~ OnRecord(team(g, s), <<g, s>>)
      BY <1>1, <1>2, <1>3, <2>1, <2>6 DEF ClanRecordMatchesLog, Plain, ClanCalls
    <3>2. QED
      BY <3>1 DEF OnRecord, Held
  <2>7. victory(g, s) \notin Lost .. Draw => Verdict(victory(g, s)) = {}
    BY ReportIs DEF Verdict, Lost, Major, Minor, Draw
  <2>8. \A v : <<<<g, s>>, v>> \in Posted(clans[team(g, s)]) => <<g, s>> \in Held(clans[team(g, s)])
    BY DEF Posted, Held
  <2>9. Posted(clans[team(g, s)]) \intersect Posting(g, s) = {}
    BY <2>6, <2>7, <2>8 DEF Posting
  <2>10. QED
    BY <2>2, <2>4, <2>5, <2>9
<1>8. ASSUME NEW s \in {1, 2}, StaysPlain(team(g, s)) PROVE Ledger!Settle(g)
  <2>1. g \in games /\ team(g, 1) # team(g, 2)
    BY <1>7, <1>8
  <2>2. ASSUME NEW c \in Clan, StaysPlain(c)
        PROVE  /\ Posted(clans[c]) \intersect ResultsOf(g, c) = {}
               /\ Posted(clans'[c]) = Posted(clans[c]) \union ResultsOf(g, c)
    <3>1. CASE c \notin {team(g, 1), team(g, 2)}
      BY <1>3, <1>4, <3>1, ResultsOfIs
    <3>2. ASSUME NEW x \in {1, 2}, c = team(g, x)
          PROVE  /\ Posted(clans[c]) \intersect ResultsOf(g, c) = {}
                 /\ Posted(clans'[c]) = Posted(clans[c]) \union ResultsOf(g, c)
      <4>1. ResultsOf(g, c) = Posting(g, x)
        BY <1>3, <2>1, <3>2, ResultsOfIs
      <4>2. QED
        BY <1>7, <2>2, <3>2, <4>1
    <3>3. QED
      BY <3>1, <3>2
  <2>3. \A c \in Clan : [h \in Game |-> [d \in Clan |-> ResultsOf(h, d)]][g][c] = ResultsOf(g, c)
    BY <1>3
  <2>4. \A c \in Clan : Ledger!Good("clan", c) <=> StaysPlain(c)
    BY DEF Ledger!Good, StaysPlain
  <2>5. QED
    BY <1>2, <1>5, <2>1, <2>2, <2>3, <2>4, LedgerStays DEF Ledger!Settle
<1>9. QED
  BY <1>3, <1>6, <1>8

\* A clan's page is written with the results that are posted.
LEMMA PageRests ==
  ASSUME IInv, IInv', RowsFiled, RowsFiled', Noting, NEW t \in Thread, UpdateClanWrite(t)
  PROVE  Ledger!Rest
<1>1. /\ TypeOK /\ Prepared(t) /\ job[t].page \in ClanRow
      /\ clans \in [Clan -> ClanRow] /\ clans' \in [Clan -> ClanRow]
  BY IInvParts, JobIs DEF TypeOK, IInv
<1>2. /\ At(t, "updateClan") /\ clans' = [clans EXCEPT ![job[t].clan] = job[t].page]
      /\ UNCHANGED <<stats, games, log, disabled, boards>>
  BY DEF UpdateClanWrite
<1>3. ASSUME NEW c \in Clan, StaysPlain(c) PROVE Posted(clans'[c]) = Posted(clans[c])
  <2>1. Held(clans'[c]) = Held(clans[c])
    <3>1. CASE c = job[t].clan
      <4>1. Plain(job[t].clan)
        BY <1>3, <3>1 DEF Plain, StaysPlain, Noting
      <4>2. QED
        BY <1>1, <1>2, <3>1, <4>1 DEF Prepared, Editing
    <3>2. CASE c # job[t].clan
      BY <1>1, <1>2, <3>2
    <3>3. QED
      BY <3>1, <3>2
  <2>2. QED
    BY <1>1, <2>1, PostedSame DEF RowsFiled
<1>4. StatsStay /\ RecordsStay
  BY <1>2, <1>3 DEF StatsStay, RecordsStay
<1>5. QED
  BY <1>2, <1>4, Rests

\* A recalculated row is the one it replaces.
LEMMA RecalcRests ==
  ASSUME IInv, IInv', Noting, NEW t \in Thread, RecalcWrite(t)
  PROVE  Ledger!Rest
<1>1. /\ TypeOK /\ Prepared(t) /\ job \in [Thread -> Job]
  BY IInvParts DEF TypeOK
<1>2. /\ At(t, "updateRecalc") /\ Finish(t)
      /\ UNCHANGED <<games, log, disabled, clans, boards>>
  BY DEF RecalcWrite
<1>3. job[t].added = {}
  BY <1>1, <1>2 DEF Prepared, Locals, At, Ahead
<1>4. job'[t].added = {} /\ \A u \in Thread \ {t} : job'[u] = job[u]
  BY <1>1, <1>2, NoJobIs DEF Finish
<1>5. \A k \in Key : InFlight(k)' <=> InFlight(k)
  BY <1>3, <1>4 DEF InFlight
<1>6. StatsStay /\ RecordsStay
  BY <1>2, <1>5, StatsStayOfLog DEF RecordsStay
<1>7. QED
  BY <1>2, <1>6, Rests

\* The leaderboards that are made show all accounts of one moment.
LEMMA TablesPublished ==
  ASSUME TypeOK, NEW made \in SUBSET Board, NEW down \in SUBSET Board,
         boards' = [b \in Board |-> CASE b \in made -> TableOf(b)
                                      [] b \in down -> NoTable
                                      [] OTHER -> boards[b]],
         UNCHANGED <<stats, games, disabled, clans>>
  PROVE  Ledger!Publish(made, down)
<1> DEFINE Shows(b, T) == [x \in DOMAIN T |-> IF b = "clan" THEN Posted(T[x]) ELSE T[x].games]
           Kind(b) == IF b = "clan" THEN "clan" ELSE "player"
<1>1. StatsStay /\ RecordsStay
  BY DEF StatsStay, RecordsStay
<1>2. \A b \in Board : Shows(b, TableOf(b)) = Ledger!OfKind(Kind(b))
  <2>1. stats \in [Player -> Row] /\ clans \in [Clan -> ClanRow]
    BY DEF TypeOK
  <2>2. QED
    BY <2>1 DEF TableOf, Ledger!OfKind
<1>3. \A b \in Board : Shows(b, NoTable) = [x \in {} |-> 0]
  BY DEF NoTable
<1>4. ASSUME NEW b \in Board
      PROVE  Shows(b, boards'[b]) = CASE b \in made -> Ledger!OfKind(Kind(b))
                                      [] b \in down -> [x \in {} |-> 0]
                                      [] OTHER -> Shows(b, boards[b])
  <2>1. boards'[b] = CASE b \in made -> TableOf(b)
                       [] b \in down -> NoTable
                       [] OTHER -> boards[b]
    OBVIOUS
  <2> HIDE DEF Shows, Kind
  <2>2. QED
    BY <1>2, <1>3, <2>1
<1>5. [b \in Board |-> Shows(b, boards'[b])]
        = [b \in Board |-> CASE b \in made -> Ledger!OfKind(Kind(b))
                             [] b \in down -> [x \in {} |-> 0]
                             [] OTHER -> Shows(b, boards[b])]
  <2> HIDE DEF Shows, Kind
  <2>1. QED
    BY <1>4
<1>6. QED
  BY <1>1, <1>5, LedgerStays DEF Ledger!Publish

LEMMA AccountsPublished ==
  ASSUME TypeOK, NEW t \in Thread, CreateLeaderboards(t)
  PROVE  Ledger!Publish(Board, {})
<1>1. boards' = [b \in Board |-> TableOf(b)] /\ UNCHANGED <<stats, games, disabled, clans>>
  BY DEF CreateLeaderboards
<1>2. boards' = [b \in Board |-> CASE b \in Board -> TableOf(b)
                                   [] b \in {} -> NoTable
                                   [] OTHER -> boards[b]]
  BY <1>1
<1>3. QED
  BY <1>1, <1>2, TablesPublished

\* A procedure that stops leaves some as they were and may leave one dropped.
LEMMA PublishedInPart ==
  ASSUME TypeOK, NEW t \in Thread, CreateLeaderboardsFails(t)
  PROVE  \E made \in SUBSET Board :
           Ledger!Publish(made, {}) \/ \E b \in Board \ made : Ledger!Publish(made, {b})
<1>1. UNCHANGED <<stats, games, disabled, clans>>
  BY DEF CreateLeaderboardsFails
<1>2. /\ DOMAIN Boards = 1 .. 4 /\ \A i \in 1 .. 4 : Boards[i] \in Board
      /\ \A i, m \in 1 .. 4 : i # m => Boards[i] # Boards[m]
  BY DEF Boards, Board
<1>3. PICK n \in 1 .. 4 :
        \E gone \in {{}, {Boards[n]}} :
          boards' = [b \in Board |-> CASE b \in {Boards[i] : i \in 1 .. n - 1} -> TableOf(b)
                                       [] b \in gone -> NoTable
                                       [] OTHER -> boards[b]]
  BY <1>2 DEF CreateLeaderboardsFails
<1> DEFINE made == {Boards[i] : i \in 1 .. n - 1}
<1>4. made \in SUBSET Board /\ Boards[n] \in Board \ made
  BY <1>2
<1>5. PICK gone \in {{}, {Boards[n]}} :
        boards' = [b \in Board |-> CASE b \in made -> TableOf(b)
                                     [] b \in gone -> NoTable
                                     [] OTHER -> boards[b]]
  BY <1>3
<1>6. gone \in SUBSET Board
  BY <1>4, <1>5
<1> HIDE DEF made
<1>7. Ledger!Publish(made, gone)
  BY <1>1, <1>4, <1>5, <1>6, TablesPublished
<1>8. QED
  BY <1>4, <1>5, <1>7

\* All other steps write no table the ledger sees.
LEMMA OthersRest ==
  ASSUME \/ RestrictPlayer \/ Crash \/ UNCHANGED vars
         \/ \E t \in Thread : UpdateClanReadFails(t)
         \/ \E t \in Thread :
              \/ /\ Step(t)
                 /\ ~ WritePlayer(t) /\ ~ InsertGame(t) /\ ~ WriteClans(t)
                 /\ ~ CreateLeaderboards(t) /\ ~ RecalcWrite(t) /\ ~ UpdateClanWrite(t)
              \/ Failure(t) /\ ~ InsertGameFails(t) /\ ~ CreateLeaderboardsFails(t)
  PROVE  Ledger!Rest
<1>1. ASSUME NEW t \in Thread, Step(t), ~ WritePlayer(t), ~ InsertGame(t), ~ WriteClans(t),
             ~ CreateLeaderboards(t), ~ RecalcWrite(t), ~ UpdateClanWrite(t)
      PROVE  UNCHANGED <<stats, games, disabled, clans, boards>>
  BY <1>1 DEF Step, UpdateGame, QueryPlayer, QueryClans, Recalc, RecalcCount, RecalcPage,
              UpdateClan, tables
<1>2. ASSUME NEW t \in Thread, Failure(t), ~ InsertGameFails(t), ~ CreateLeaderboardsFails(t)
      PROVE  UNCHANGED <<stats, games, disabled, clans, boards>>
  BY <1>2 DEF Failure, QueryPlayerFails, WritePlayerFails, QueryClansFails, WriteClansFails,
              RecalcCountFails, RecalcPageFails, RecalcWriteFails, UpdateClanWriteFails, tables
<1>3. (\/ RestrictPlayer \/ Crash \/ UNCHANGED vars
       \/ \E t \in Thread : UpdateClanReadFails(t))
        => UNCHANGED <<stats, games, disabled, clans, boards>>
  BY DEF RestrictPlayer, Crash, UpdateClanReadFails, vars, tables
<1>4. UNCHANGED <<stats, games, disabled, clans, boards>>
  BY <1>1, <1>2, <1>3
<1>5. StatsStay /\ RecordsStay
  BY <1>4 DEF StatsStay, RecordsStay
<1>6. QED
  BY <1>4, <1>5, Rests

LEMMA NextIsOfLedger ==
  ASSUME IInv, IInv', RowsFiled, RowsFiled', [Next]_vars
  PROVE  Ledger!Next
<1>1. TypeOK
  BY DEF IInv
<1>2. noted \subseteq noted'
  BY DEF Next, vars
<1>3. ASSUME NEW t \in Thread, Step(t), Noting
      PROVE  \/ \E k \in Key : Ledger!Count(k)
             \/ \E g \in Game : Ledger!Enter(g) \/ Ledger!Settle(g)
             \/ Ledger!Publish(Board, {}) \/ Ledger!Rest
  <2>1. CASE WritePlayer(t)
    BY <1>3, <2>1, LineCounted
  <2>2. CASE InsertGame(t)
    <3>1. KeysOf(job[t].game) \in SUBSET KeysOf(job[t].game)
      OBVIOUS
    <3>2. job[t].game \in Game /\ Ledger!Enter(job[t].game)
      BY <1>3, <2>2, <3>1, GameEntered DEF InsertGame
    <3>3. QED
      BY <3>2
  <2>3. CASE WriteClans(t)
    BY <1>3, <2>3, ResultsSettled
  <2>4. CASE CreateLeaderboards(t)
    BY <1>1, <2>4, AccountsPublished
  <2>5. CASE RecalcWrite(t)
    BY <1>3, <2>5, RecalcRests
  <2>6. CASE UpdateClanWrite(t)
    BY <1>3, <2>6, PageRests
  <2>7. QED
    BY <1>3, <2>1, <2>2, <2>3, <2>4, <2>5, <2>6, OthersRest
<1>4. ASSUME NEW t \in Thread, Failure(t), Noting, Concerned(t) \subseteq noted'
      PROVE  \/ Ledger!Rest \/ \E g \in Game : Ledger!Enter(g)
             \/ \E made \in SUBSET Board :
                  Ledger!Publish(made, {}) \/ \E b \in Board \ made : Ledger!Publish(made, {b})
  BY <1>1, <1>4, GameEnteredInPart, PublishedInPart, OthersRest
<1>5. CASE \/ RestrictPlayer \/ Crash \/ UNCHANGED vars
           \/ \E t \in Thread : UpdateClanReadFails(t)
  BY <1>2, <1>5, OthersRest DEF Ledger!Next
<1>6. ASSUME NEW t \in Thread, Step(t), noted' = noted \union Races' PROVE Ledger!Next
  <2>1. Noting
    BY <1>1, <1>6, RacesTyped DEF Noting, TypeOK
  <2>2. Board \in SUBSET Board
    OBVIOUS
  <2>3. QED
    BY <1>2, <1>3, <1>6, <2>1, <2>2 DEF Ledger!Next
<1>7. ASSUME NEW t \in Thread, Failure(t), noted' = noted \union Races' \union Concerned(t)
      PROVE  Ledger!Next
  <2>1. Noting /\ Concerned(t) \subseteq noted'
    BY <1>1, <1>7, RacesTyped, ConcernedTyped DEF Noting, TypeOK
  <2>2. QED
    BY <1>2, <1>4, <1>7, <2>1 DEF Ledger!Next
<1>8. QED
  BY <1>5, <1>6, <1>7 DEF Next

\* GameStats implements Ledger: whatever reports, recalculations and updates of
\* pages come between the calls of each other, whichever calls fail and whenever
\* the process dies, a row that is not spoiled is an account of the ledger.
THEOREM LedgerIsKept == Spec => KeepsLedger
<1>1. Init => Ledger!Init
  <2>1. NewRow.games = [k \in Key |-> 0]
    BY DEF NewRow
  <2>2. Posted(NewClan) = {}
    BY DEF Posted, NewClan
  <2>3. ASSUME Init
        PROVE  [b \in Board |->
                  [x \in DOMAIN boards[b] |->
                     IF b = "clan" THEN Posted(boards[b][x]) ELSE boards[b][x].games]]
                 = [b \in Board |-> Ledger!OfKind(IF b = "clan" THEN "clan" ELSE "player")]
    <3>1. /\ stats = [p \in Player |-> NewRow] /\ clans = [c \in Clan |-> NewClan]
          /\ \A b \in Board : boards[b] = IF b = "clan" THEN clans ELSE stats
      BY <2>3 DEF Init, TableOf
    <3>2. ASSUME NEW b \in Board
          PROVE  [x \in DOMAIN boards[b] |->
                    IF b = "clan" THEN Posted(boards[b][x]) ELSE boards[b][x].games]
                   = Ledger!OfKind(IF b = "clan" THEN "clan" ELSE "player")
      BY <3>1 DEF Ledger!OfKind
    <3>3. QED
      BY <3>2
  <2>4. QED
    BY <2>1, <2>2, <2>3 DEF Init, Ledger!Init
<1>2. IInv /\ IInv' /\ RowsFiled /\ RowsFiled' /\ [Next]_vars => Ledger!Next
  BY NextIsOfLedger
<1>3. QED
  BY <1>1, <1>2, Invariance, FiledInvariance, PTL DEF Spec, KeepsLedger, Ledger!Spec

=============================================================================
