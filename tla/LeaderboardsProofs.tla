------------------------- MODULE LeaderboardsProofs -------------------------
(***************************************************************************)
(* Proofs about the pages of the leaderboards, for any players, clans and  *)
(* reports, boards of any length and any list of friends.                  *)
(*                                                                         *)
(* The argument about rankings.  A board may number equal rows in any      *)
(* order, and so may the friends' page: it has to be shown that whatever   *)
(* order the friends come in, there is a board that has them in that one   *)
(* (Extended).  This needs values that can be compared (Comparable) and    *)
(* that a finite set can be enumerated in any linear order (InOrder), each *)
(* member at the place that counts those up to it.  That living rows and   *)
(* copies are the same is BoardsFresh, from the invariant of               *)
(* GameStatsProofs.                                                        *)
(***************************************************************************)
EXTENDS Leaderboards, GameStatsProofs

(***************************************************************************)
(* Pages of a board.                                                       *)
(***************************************************************************)
\* The page around a row.
LEMMA AroundShows ==
  ASSUME NEW n \in Nat, NEW o \in 1 .. n
  PROVE  \E first \in 1 .. n :
           /\ DOMAIN Around(BoardOf(n), o) =
                first .. (IF first + 9 <= n THEN first + 9 ELSE n)
           /\ o \in first .. first + 4
<1> o \in Int /\ 1 <= o /\ o <= n
  OBVIOUS
<1>1. CASE o <= 4
  <2>1. Around(BoardOf(n), o) = Rows(BoardOf(n), 1, 10)
    BY <1>1 DEF Around
  <2>2. DOMAIN Rows(BoardOf(n), 1, 10) = (1 .. n) \intersect (1 .. 10)
    BY DEF Rows, BoardOf
  <2>3. (1 .. n) \intersect (1 .. 10) = 1 .. (IF 1 + 9 <= n THEN 1 + 9 ELSE n)
    OBVIOUS
  <2>4. 1 \in 1 .. n /\ o \in 1 .. 1 + 4
    BY <1>1
  <2>5. QED
    BY <2>1, <2>2, <2>3, <2>4
<1>2. CASE o > 4
  <2>1. Around(BoardOf(n), o) = Rows(BoardOf(n), o - 4, o + 5)
    BY <1>2 DEF Around
  <2>2. DOMAIN Rows(BoardOf(n), o - 4, o + 5) = (1 .. n) \intersect (o - 4 .. o + 5)
    BY DEF Rows, BoardOf
  <2>3. (1 .. n) \intersect (o - 4 .. o + 5) = o - 4 .. (IF o - 4 + 9 <= n THEN o - 4 + 9 ELSE n)
    BY <1>2
  <2>4. o - 4 \in 1 .. n /\ o \in o - 4 .. o - 4 + 4
    BY <1>2
  <2>5. QED
    BY <2>1, <2>2, <2>3, <2>4
<1>3. QED
  BY <1>1, <1>2

\* Pages of L rows, one after the other, show a row once.
LEMMA ShownOnce ==
  ASSUME NEW n \in Nat, NEW o \in 1 .. n, NEW L \in {7, 10, 25, 100}
  PROVE  Cardinality({i \in 0 .. n : o \in DOMAIN Page(BoardOf(n), L, i * L)}) = 1
<1> DEFINE i0 == (o - 1) \div L
<1>1. i0 \in 0 .. n /\ L * i0 <= o - 1 /\ o - 1 < L * i0 + L
  OBVIOUS
<1>2. \A i \in 0 .. n : o \in DOMAIN Page(BoardOf(n), L, i * L) <=> i * L + 1 <= o /\ o <= i * L + L
  <2>1. SUFFICES ASSUME NEW i \in 0 .. n
        PROVE  o \in DOMAIN Page(BoardOf(n), L, i * L) <=> i * L + 1 <= o /\ o <= i * L + L
    OBVIOUS
  <2>2. i * L \in Int /\ i * L + 1 \in Int /\ i * L + L \in Int
    OBVIOUS
  <2>3. DOMAIN Page(BoardOf(n), L, i * L) = (1 .. n) \intersect (i * L + 1 .. i * L + L)
    BY <2>2 DEF Page, Rows, BoardOf
  <2> HIDE DEF i0
  <2>4. QED
    BY <2>2, <2>3
<1>3. \A i \in 0 .. n : i * L + 1 <= o /\ o <= i * L + L <=> i = i0
  BY <1>1
<1> HIDE DEF i0
<1>4. {i \in 0 .. n : o \in DOMAIN Page(BoardOf(n), L, i * L)} = {i0}
  BY <1>1, <1>2, <1>3
<1>5. Cardinality({i0}) = 1
  BY FS_Singleton
<1>6. QED
  BY <1>4, <1>5

LEMMA BelowWord ==
  ASSUME NEW a \in Nat, a < Word
  PROVE  a % Word = a
<1>1. Word \in Nat /\ Word > 0
  BY PlayerStatsAssumption
<1>2. QED
  BY <1>1

LEMMA AllPages == PagesOfAnyBoard
<1>1. SUFFICES ASSUME NEW n \in 0 .. MaxBoard, NEW o \in 1 .. MaxBoard, o <= n
      PROVE  /\ \E first \in 1 .. n :
                  /\ DOMAIN Around(BoardOf(n), o) =
                       first .. (IF first + 9 <= n THEN first + 9 ELSE n)
                  /\ o \in first .. first + 4
             /\ \A text \in {7, 10, 25, 100} :
                  LET limit == limitOf([limit |-> text])
                  IN  Cardinality({i \in 0 .. n : o \in DOMAIN Page(BoardOf(n), limit, i * limit)}) = 1
             /\ LET Offset(i) == offsetOf([startrank |-> 7 * i + 1, endrank |-> 7 * i + 7])
                IN  Cardinality({i \in 0 .. n : o \in DOMAIN Page(BoardOf(n), 7, Offset(i))}) = 1
  BY DEF PagesOfAnyBoard
<1>2. /\ n \in Nat /\ o \in 1 .. n /\ MaxBoard \in Nat /\ 7 * MaxBoard < Word
      /\ Word \in Nat \ {0} /\ n <= MaxBoard
  <2>1. MaxBoard \in Nat /\ 7 * MaxBoard < Word
    BY LeaderboardsAssumption
  <2>2. Word \in Nat \ {0}
    BY PlayerStatsAssumption
  <2>3. n \in Nat /\ o \in Nat /\ 1 <= o /\ n <= MaxBoard
    BY <2>1
  <2>4. QED
    BY <1>1, <2>1, <2>2, <2>3
<1>3. \A text \in {7, 10, 25, 100} : limitOf([limit |-> text]) \in {10, 25, 100}
  BY DEF limitOf
<1>4. \A i \in 0 .. n : offsetOf([startrank |-> 7 * i + 1, endrank |-> 7 * i + 7]) = i * 7
  <2>1. \A i \in 0 .. n : offsetOf([startrank |-> 7 * i + 1, endrank |-> 7 * i + 7])
                            = (7 * i + 1 - 1) % Word
    BY DEF offsetOf
  <2>2. ASSUME NEW i \in 0 .. n PROVE (7 * i + 1 - 1) % Word = i * 7
    <3>1. 7 * i + 1 - 1 = i * 7 /\ i * 7 \in Nat /\ i * 7 < Word
      BY <1>2
    <3>2. QED
      BY <3>1, BelowWord
  <2>3. QED
    BY <2>1, <2>2
<1>5. {i \in 0 .. n : o \in DOMAIN Page(BoardOf(n), 7,
                        offsetOf([startrank |-> 7 * i + 1, endrank |-> 7 * i + 7]))}
        = {i \in 0 .. n : o \in DOMAIN Page(BoardOf(n), 7, i * 7)}
  BY <1>4
<1>6. \E first \in 1 .. n :
        /\ DOMAIN Around(BoardOf(n), o) = first .. (IF first + 9 <= n THEN first + 9 ELSE n)
        /\ o \in first .. first + 4
  BY <1>2, AroundShows
<1>7. ASSUME NEW text \in {7, 10, 25, 100}
      PROVE  LET limit == limitOf([limit |-> text])
             IN  Cardinality({i \in 0 .. n : o \in DOMAIN Page(BoardOf(n), limit, i * limit)}) = 1
  <2> DEFINE Once(L) == Cardinality({i \in 0 .. n : o \in DOMAIN Page(BoardOf(n), L, i * L)}) = 1
  <2>1. Once(10) /\ Once(25) /\ Once(100)
    BY <1>2, ShownOnce
  <2> HIDE DEF Once
  <2>2. Once(limitOf([limit |-> text]))
    BY <1>3, <2>1
  <2>3. QED
    BY <2>2 DEF Once
<1>8. Cardinality({i \in 0 .. n : o \in DOMAIN Page(BoardOf(n), 7, i * 7)}) = 1
  BY <1>2, ShownOnce
<1>9. QED
  BY <1>5, <1>6, <1>7, <1>8

-----------------------------------------------------------------------------
(***************************************************************************)
(* Boards.                                                                 *)
(***************************************************************************)
\* An enumeration of a finite set names each of its members at one place.
LEMMA Enumerated ==
  ASSUME NEW S, IsFiniteSet(S), NEW s \in SetToSeqs(S)
  PROVE  /\ Cardinality(S) \in Nat
         /\ s \in [1 .. Cardinality(S) -> S] /\ DOMAIN s = 1 .. Cardinality(S)
         /\ \A x \in S : \E i \in DOMAIN s : s[i] = x
         /\ \A i, j \in DOMAIN s : s[i] = s[j] => i = j
<1>1. Cardinality(S) \in Nat
  BY FS_CardinalityType
<1>2. /\ s \in [1 .. Cardinality(S) -> S]
      /\ \A i, j \in 1 .. Cardinality(S) : i # j => s[i] # s[j]
  BY DEF SetToSeqs
<1>3. s \in Injection(1 .. Cardinality(S), S)
  BY <1>2 DEF Injection, IsInjective
<1>4. IsFiniteSet(1 .. Cardinality(S)) /\ Cardinality(1 .. Cardinality(S)) = Cardinality(S)
  BY <1>1, FS_Interval
<1>5. s \in Surjection(1 .. Cardinality(S), S)
  BY <1>3, <1>4, FS_Injection
<1>6. QED
  BY <1>1, <1>2, <1>5 DEF Surjection


\* The rows of S with values v are numbered in the orders in which none comes
\* before a higher one.
LEMMA Numbered ==
  ASSUME NEW S, IsFiniteSet(S), NEW v, NEW b
  PROVE  b \in RowNumbers({<<x, v[x]>> : x \in S}) <=>
           b \in SetToSeqs(S) /\ \A i, j \in DOMAIN b : i < j => ~ Higher(v[b[j]], v[b[i]])
<1> DEFINE rows == {<<x, v[x]>> : x \in S}
           f == [x \in S |-> <<x, v[x]>>]
           N == Cardinality(S)
<1>1. f \in Bijection(S, rows)
  BY DEF Bijection, Injection, Surjection, IsInjective
<1>2. IsFiniteSet(rows) /\ Cardinality(rows) = N /\ N \in Nat
  BY <1>1, FS_Bijection, FS_CardinalityType DEF ExistsBijection
<1> HIDE DEF N
<1>3. ASSUME NEW s \in SetToSeqs(rows),
             \A i, j \in DOMAIN s : i < j => ~ Higher(s[j][2], s[i][2]),
             b = [i \in DOMAIN s |-> s[i][1]]
      PROVE  b \in SetToSeqs(S) /\ \A i, j \in DOMAIN b : i < j => ~ Higher(v[b[j]], v[b[i]])
  <2>1. s \in [1 .. N -> rows] /\ \A i, j \in 1 .. N : i # j => s[i] # s[j]
    BY <1>2, <1>3 DEF SetToSeqs
  <2>2. \A i \in 1 .. N : b[i] \in S /\ s[i] = <<b[i], v[b[i]]>>
    BY <1>3, <2>1
  <2>3. b \in [1 .. N -> S] /\ DOMAIN b = 1 .. N /\ DOMAIN s = 1 .. N
    BY <1>3, <2>1, <2>2
  <2>4. \A i, j \in 1 .. N : i # j => b[i] # b[j]
    BY <2>1, <2>2
  <2>5. b \in SetToSeqs(S)
    BY <2>3, <2>4 DEF SetToSeqs, N
  <2>6. QED
    BY <1>3, <2>2, <2>3, <2>5
<1>4. ASSUME b \in SetToSeqs(S), \A i, j \in DOMAIN b : i < j => ~ Higher(v[b[j]], v[b[i]])
      PROVE  \E s \in SetToSeqs(rows) :
               /\ \A i, j \in DOMAIN s : i < j => ~ Higher(s[j][2], s[i][2])
               /\ b = [i \in DOMAIN s |-> s[i][1]]
  <2> DEFINE s == [i \in 1 .. N |-> <<b[i], v[b[i]]>>]
  <2>1. b \in [1 .. N -> S] /\ \A i, j \in 1 .. N : i # j => b[i] # b[j]
    BY <1>4 DEF SetToSeqs, N
  <2>2. s \in [1 .. N -> rows] /\ \A i, j \in 1 .. N : i # j => s[i] # s[j]
    BY <2>1
  <2>3. s \in SetToSeqs(rows)
    BY <1>2, <2>2 DEF SetToSeqs
  <2>4. \A i, j \in DOMAIN s : i < j => ~ Higher(s[j][2], s[i][2])
    BY <1>4, <2>1
  <2>5. b = [i \in DOMAIN s |-> s[i][1]]
    BY <2>1
  <2>6. QED
    BY <2>3, <2>4, <2>5
<1>5. b \in RowNumbers(rows) <=>
        \E s \in SetToSeqs(rows) :
          /\ \A i, j \in DOMAIN s : i < j => ~ Higher(s[j][2], s[i][2])
          /\ b = [i \in DOMAIN s |-> s[i][1]]
  BY DEF RowNumbers
<1>6. QED
  BY <1>3, <1>4, <1>5

\* The page around a row holds the row.
LEMMA RowFound ==
  ASSUME NEW S, IsFiniteSet(S), NEW b \in SetToSeqs(S), NEW x
  PROVE  /\ ToSet(b) = S
         /\ x \in ToSet(AroundRow(b, x)) <=> x \in S
         /\ \A r \in DOMAIN AroundRow(b, x) : r \in DOMAIN b /\ AroundRow(b, x)[r] = b[r]
<1>1. /\ Cardinality(S) \in Nat
      /\ b \in [1 .. Cardinality(S) -> S] /\ DOMAIN b = 1 .. Cardinality(S)
      /\ \A y \in S : \E i \in DOMAIN b : b[i] = y
  BY Enumerated
<1>2. ToSet(b) = S
  BY <1>1 DEF ToSet
<1>3. CASE x \notin S
  <2>1. AroundRow(b, x) = <<>>
    BY <1>2, <1>3 DEF AroundRow
  <2>2. DOMAIN AroundRow(b, x) = {}
    BY <2>1
  <2>3. QED
    BY <1>2, <1>3, <2>2 DEF ToSet
<1>4. CASE x \in S
  <2> DEFINE o == CHOOSE i \in DOMAIN b : b[i] = x
  <2>1. o \in 1 .. Cardinality(S) /\ b[o] = x
    BY <1>1, <1>4
  <2>2. AroundRow(b, x) = Around(b, o)
    BY <1>2, <1>4 DEF AroundRow
  <2> HIDE DEF o
  <2>3. PICK first \in Int, last \in Int :
          Around(b, o) = Rows(b, first, last) /\ first <= o /\ o <= last
    <3>1. CASE o <= 4
      <4>1. Around(b, o) = Rows(b, 1, 10) /\ 1 <= o /\ o <= 10
        BY <1>1, <2>1, <3>1 DEF Around
      <4>2. QED
        BY <4>1
    <3>2. CASE o > 4
      <4>1. Around(b, o) = Rows(b, o - 4, o + 5) /\ o - 4 <= o /\ o <= o + 5
        BY <1>1, <2>1, <3>2 DEF Around
      <4>2. o - 4 \in Int /\ o + 5 \in Int
        BY <1>1, <2>1
      <4>3. QED
        BY <4>1, <4>2
    <3>3. QED
      BY <1>1, <2>1, <3>1, <3>2
  <2>4. /\ o \in DOMAIN Rows(b, first, last)
        /\ \A r \in DOMAIN Rows(b, first, last) : r \in DOMAIN b /\ Rows(b, first, last)[r] = b[r]
    BY <1>1, <2>1, <2>3 DEF Rows
  <2>5. x \in ToSet(Rows(b, first, last))
    BY <2>1, <2>4 DEF ToSet
  <2>6. QED
    BY <1>2, <1>4, <2>2, <2>3, <2>4, <2>5
<1>5. QED
  BY <1>3, <1>4

\* A clan is on the page around it, at its rank.
LEMMA ClansFind ==
  ASSUME TypeOK
  PROVE  ClansFindThemselves
<1> DEFINE C == DOMAIN boards["clan"]
           v == [c \in C |-> ClanValues(boards["clan"][c])]
<1>1. CreateLeaderboardClan = RowNumbers({<<c, v[c]>> : c \in C})
  BY DEF CreateLeaderboardClan
<1>2. IsFiniteSet(C)
  <2>1. C \in SUBSET Clan
    BY DEF TypeOK, NoTable
  <2>2. QED
    BY <2>1, LeaderboardsAssumption, FS_Subset
<1> HIDE DEF v
<1>3. SUFFICES ASSUME NEW c \in C, NEW page \in requestLeaderboard([clanid |-> c])
      PROVE  /\ c \in ToSet(page)
             /\ \E q \in requestAPILeaderboardClan([offset |-> 0]) :
                  \A r \in DOMAIN page \intersect DOMAIN q : page[r] = q[r]
  BY DEF ClansFindThemselves
<1>4. requestLeaderboard([clanid |-> c]) = queryLeaderboardClanByClanId(c)
  BY DEF requestLeaderboard
<1>5. PICK b \in CreateLeaderboardClan : page = AroundRow(b, c)
  BY <1>3, <1>4 DEF queryLeaderboardClanByClanId
<1> HIDE DEF C
<1>6. b \in SetToSeqs(C)
  BY <1>1, <1>2, <1>5, Numbered
<1> DEFINE limit == limitOf([offset |-> 0])
           offset == apiOffsetOf([offset |-> 0])
           q == Page(b, limit, offset)
<1>7. q \in requestAPILeaderboardClan([offset |-> 0])
  BY <1>5 DEF requestAPILeaderboardClan, queryLeaderboardClan
<1>8. \A r \in DOMAIN q : q[r] = b[r]
  BY DEF Page, Rows
<1>9. QED
  BY <1>2, <1>5, <1>6, <1>7, <1>8, RowFound

-----------------------------------------------------------------------------
(***************************************************************************)
(* Orders.                                                                 *)
(***************************************************************************)
\* A strict order of S, any two members of which are related.
Linear(L, S) ==
  /\ \A x \in S : <<x, x>> \notin L
  /\ \A x, y \in S : x # y => <<x, y>> \in L \/ <<y, x>> \in L
  /\ \A x, y, z \in S : <<x, y>> \in L /\ <<y, z>> \in L => <<x, z>> \in L

\* A finite set can be enumerated in any linear order: the place of a member is
\* the number of those up to it.
LEMMA InOrder ==
  ASSUME NEW S, IsFiniteSet(S), NEW L, Linear(L, S)
  PROVE  \E s \in SetToSeqs(S) : \A i, j \in DOMAIN s : i < j => <<s[i], s[j]>> \in L
<1> DEFINE N == Cardinality(S)
           Up(x) == {y \in S : y = x \/ <<y, x>> \in L}
           pos == [x \in S |-> Cardinality(Up(x))]
<1>1. N \in Nat
  BY FS_CardinalityType
<1> HIDE DEF N
<1>2. ASSUME NEW x \in S PROVE IsFiniteSet(Up(x)) /\ pos[x] = Cardinality(Up(x)) /\ pos[x] \in 1 .. N
  <2>1. Up(x) \in SUBSET S /\ x \in Up(x)
    OBVIOUS
  <2>2. IsFiniteSet(Up(x)) /\ Cardinality(Up(x)) <= N
    BY <2>1, FS_Subset DEF N
  <2>3. Cardinality(Up(x)) \in Nat /\ Cardinality(Up(x)) # 0
    BY <2>1, <2>2, FS_CardinalityType, FS_EmptySet
  <2>4. QED
    BY <1>1, <2>2, <2>3
<1>3. ASSUME NEW x \in S, NEW y \in S, <<x, y>> \in L PROVE pos[x] < pos[y]
  <2>1. Up(x) \union {y} \in SUBSET Up(y) /\ y \notin Up(x)
    BY <1>3 DEF Linear
  <2>2. Cardinality(Up(x) \union {y}) = Cardinality(Up(x)) + 1
    BY <1>2, <2>1, FS_AddElement
  <2>3. Cardinality(Up(x) \union {y}) <= Cardinality(Up(y))
    BY <1>2, <2>1, FS_Subset
  <2>4. QED
    BY <1>2, <2>2, <2>3
<1> HIDE DEF Up, pos
<1>4. pos \in [S -> 1 .. N]
  BY <1>2 DEF pos
<1>5. ASSUME NEW x \in S, NEW y \in S, pos[x] = pos[y] PROVE x = y
  <2>1. <<x, y>> \notin L /\ <<y, x>> \notin L
    BY <1>2, <1>3, <1>5
  <2>2. QED
    BY <2>1 DEF Linear
<1>6. pos \in Injection(S, 1 .. N)
  BY <1>4, <1>5 DEF Injection, IsInjective
<1>7. IsFiniteSet(1 .. N) /\ Cardinality(1 .. N) = N
  BY <1>1, FS_Interval
<1>8. pos \in Surjection(S, 1 .. N)
  BY <1>6, <1>7, FS_Injection DEF N
<1>9. \A i \in 1 .. N : \E x \in S : pos[x] = i
  BY <1>8 DEF Surjection
<1> DEFINE s == [i \in 1 .. N |-> CHOOSE x \in S : pos[x] = i]
<1>10. \A i \in 1 .. N : s[i] \in S /\ pos[s[i]] = i
  BY <1>9
<1>11. s \in [1 .. N -> S] /\ DOMAIN s = 1 .. N
  BY <1>10
<1> HIDE DEF s
<1>12. s \in SetToSeqs(S)
  BY <1>10, <1>11 DEF SetToSeqs, N
<1>13. ASSUME NEW i \in 1 .. N, NEW j \in 1 .. N, i < j PROVE <<s[i], s[j]>> \in L
  <2>1. s[i] # s[j] /\ s[i] \in S /\ s[j] \in S
    BY <1>10, <1>13
  <2>2. <<s[j], s[i]>> \notin L
    BY <1>3, <1>10, <1>13, <2>1
  <2>3. QED
    BY <2>1, <2>2 DEF Linear
<1>14. QED
  BY <1>11, <1>12, <1>13

\* A finite set has an enumeration that begins with the one given of a part.
LEMMA Places ==
  ASSUME NEW S, IsFiniteSet(S), NEW F \in SUBSET S, NEW s \in SetToSeqs(F)
  PROVE  \E at \in [S -> Nat] :
           /\ \A x, y \in S : at[x] = at[y] => x = y
           /\ \A i \in DOMAIN s : at[s[i]] = i
<1> DEFINE N == Cardinality(S)
           M == Cardinality(F)
<1>1. IsFiniteSet(F) /\ M \in Nat /\ N \in Nat
  BY FS_Subset, FS_CardinalityType
<1>2. PICK e \in [1 .. N -> S] : \A x \in S : \E i \in 1 .. N : e[i] = x
  BY FS_CardinalityType DEF ExistsBijection, Bijection, Surjection
<1>3. /\ s \in [1 .. M -> F] /\ DOMAIN s = 1 .. M
      /\ \A x \in F : \E i \in DOMAIN s : s[i] = x
      /\ \A i, j \in DOMAIN s : s[i] = s[j] => i = j
  BY <1>1, Enumerated
<1> HIDE DEF N, M
<1> DEFINE first(x) == CHOOSE i \in 1 .. M : s[i] = x
           later(x) == CHOOSE i \in 1 .. N : e[i] = x
           at == [x \in S |-> IF x \in F THEN first(x) ELSE M + later(x)]
<1>4. \A x \in F : first(x) \in 1 .. M /\ s[first(x)] = x
  BY <1>3
<1>5. \A x \in S : later(x) \in 1 .. N /\ e[later(x)] = x
  BY <1>2
<1> HIDE DEF first, later
<1>6. \A x \in F : at[x] = first(x)
  OBVIOUS
<1>7. \A x \in S \ F : at[x] = M + later(x)
  OBVIOUS
<1>8. at \in [S -> Nat]
  BY <1>1, <1>4, <1>5
<1> HIDE DEF at
<1>9. ASSUME NEW x \in S, NEW y \in S, at[x] = at[y] PROVE x = y
  <2>1. CASE x \in F /\ y \in F
    BY <1>4, <1>6, <1>9, <2>1
  <2>2. CASE x \notin F /\ y \notin F
    <3>1. later(x) = later(y)
      BY <1>1, <1>5, <1>7, <1>9, <2>2
    <3>2. QED
      BY <1>5, <3>1
  <2>3. CASE x \in F /\ y \notin F
    BY <1>1, <1>4, <1>5, <1>6, <1>7, <1>9, <2>3
  <2>4. CASE x \notin F /\ y \in F
    BY <1>1, <1>4, <1>5, <1>6, <1>7, <1>9, <2>4
  <2>5. QED
    BY <2>1, <2>2, <2>3, <2>4
<1>10. ASSUME NEW i \in DOMAIN s PROVE at[s[i]] = i
  <2>1. s[i] \in F /\ first(s[i]) \in DOMAIN s /\ s[first(s[i])] = s[i]
    BY <1>3, <1>4
  <2>2. QED
    BY <1>3, <1>6, <2>1
<1>11. QED
  BY <1>8, <1>9, <1>10

\* Of three values one cannot be higher than another and neither of them be
\* apart from the third.
Comparable(W) ==
  \A u, w, x \in W :
    /\ Higher(u, w) => ~ Higher(w, u)
    /\ Higher(u, x) => Higher(u, w) \/ Higher(w, x)

\* None comes before a higher one.
InRanks(b, v) == \A i, j \in DOMAIN b : i < j => ~ Higher(v[b[j]], v[b[i]])

\* Whatever order rows of a part are numbered in, all rows may be numbered so
\* that those of the part come in that order.
LEMMA Extended ==
  ASSUME NEW S, IsFiniteSet(S), NEW F \in SUBSET S, NEW W, NEW v \in [S -> W], Comparable(W),
         NEW s \in SetToSeqs(F), InRanks(s, v)
  PROVE  \E b \in SetToSeqs(S) :
           /\ InRanks(b, v)
           /\ \A i, j \in DOMAIN s, x, y \in DOMAIN b :
                i < j /\ b[x] = s[i] /\ b[y] = s[j] => x < y
<1>1. PICK at \in [S -> Nat] :
        /\ \A x, y \in S : at[x] = at[y] => x = y
        /\ \A i \in DOMAIN s : at[s[i]] = i
  BY Places
<1> DEFINE H(x, y) == Higher(v[x], v[y])
           Before(x, y) == H(x, y) \/ (~ H(y, x) /\ at[x] < at[y])
           L == {z \in S \X S : Before(z[1], z[2])}
<1>2. \A x, y \in S : <<x, y>> \in L <=> Before(x, y)
  OBVIOUS
<1>3. \A x, y, z \in S : (H(x, y) => ~ H(y, x)) /\ (H(x, z) => H(x, y) \/ H(y, z))
  BY DEF Comparable
<1>4. \A x \in S : at[x] \in Nat
  OBVIOUS
<1> HIDE DEF L, H
<1>5. \A x \in S : <<x, x>> \notin L
  BY <1>2, <1>3, <1>4
<1>6. \A x, y \in S : x # y => <<x, y>> \in L \/ <<y, x>> \in L
  BY <1>1, <1>2, <1>3, <1>4
<1>7. ASSUME NEW x \in S, NEW y \in S, NEW z \in S, Before(x, y), Before(y, z)
      PROVE  Before(x, z)
  <2>1. ~ H(z, x)
    BY <1>3, <1>7
  <2>2. CASE H(x, y)
    <3>1. H(x, z) \/ H(z, y)
      BY <1>3, <2>2
    <3>2. QED
      BY <1>3, <1>7, <3>1
  <2>3. CASE H(y, z)
    <3>1. H(x, z) \/ H(y, x)
      BY <1>3, <2>3
    <3>2. QED
      BY <1>3, <1>7, <3>1
  <2>4. CASE at[x] < at[y] /\ at[y] < at[z]
    <3>1. at[x] < at[z]
      BY <1>4, <2>4
    <3>2. QED
      BY <2>1, <3>1
  <2>5. QED
    BY <1>7, <2>2, <2>3, <2>4
<1> HIDE DEF Before
<1>8. Linear(L, S)
  BY <1>2, <1>5, <1>6, <1>7 DEF Linear
<1>9. PICK b \in SetToSeqs(S) : \A i, j \in DOMAIN b : i < j => <<b[i], b[j]>> \in L
  BY <1>8, InOrder
<1>10. /\ \A i \in DOMAIN b : b[i] \in S /\ i \in Nat
       /\ DOMAIN b = 1 .. Cardinality(S) /\ Cardinality(S) \in Nat
  BY Enumerated
<1>11. InRanks(b, v)
  <2>1. SUFFICES ASSUME NEW i \in DOMAIN b, NEW j \in DOMAIN b, i < j PROVE ~ H(b[j], b[i])
    BY DEF InRanks, H
  <2>2. b[i] \in S /\ b[j] \in S /\ Before(b[i], b[j])
    BY <1>2, <1>9, <1>10, <2>1
  <2>3. QED
    BY <1>3, <2>2 DEF Before
<1>12. ASSUME NEW i \in DOMAIN s, NEW j \in DOMAIN s, NEW x \in DOMAIN b, NEW y \in DOMAIN b,
              i < j, b[x] = s[i], b[y] = s[j]
       PROVE  x < y
  <2>1. at[b[x]] = i /\ at[b[y]] = j /\ ~ H(b[y], b[x])
    BY <1>1, <1>12 DEF InRanks, H
  <2>2. b[x] \in S /\ b[y] \in S /\ x \in Nat /\ y \in Nat /\ i \in Nat /\ j \in Nat
    BY <1>4, <1>10, <2>1
  <2>3. x # y
    BY <1>12, <2>1, <2>2
  <2>4. ~ Before(b[y], b[x])
    BY <1>12, <2>1, <2>2 DEF Before
  <2>5. ~ (y < x)
    BY <1>2, <1>9, <2>2, <2>4
  <2>6. QED
    BY <2>2, <2>3, <2>5
<1>13. QED
  BY <1>9, <1>11, <1>12

\* Values are compared as numbers, the first that differs.
LEMMA HigherOne ==
  ASSUME NEW a \in Int, NEW d \in Int
  PROVE  Higher(<<a>>, <<d>>) <=> a > d
<1> DEFINE u == <<a>>
           w == <<d>>
<1>1. DOMAIN u = {1} /\ u[1] = a /\ w[1] = d /\ \A j \in 1 .. 1 - 1 : u[j] = w[j]
  OBVIOUS
<1>2. Higher(u, w) <=> \E i \in DOMAIN u : u[i] > w[i] /\ \A j \in 1 .. i - 1 : u[j] = w[j]
  BY DEF Higher
<1> HIDE DEF u, w
<1>3. QED
  BY <1>1, <1>2 DEF u, w

LEMMA HigherThree ==
  ASSUME NEW a \in Int, NEW b \in Int, NEW c \in Int, NEW d \in Int, NEW e \in Int, NEW f \in Int
  PROVE  Higher(<<a, b, c>>, <<d, e, f>>) <=>
           a > d \/ (a = d /\ b > e) \/ (a = d /\ b = e /\ c > f)
<1> DEFINE u == <<a, b, c>>
           w == <<d, e, f>>
           First(i) == u[i] > w[i] /\ \A j \in 1 .. i - 1 : u[j] = w[j]
<1>1. DOMAIN u = {1, 2, 3}
  OBVIOUS
<1>2. First(1) <=> a > d
  OBVIOUS
<1>3. First(2) <=> b > e /\ a = d
  OBVIOUS
<1>4. First(3) <=> c > f /\ a = d /\ b = e
  OBVIOUS
<1>5. Higher(u, w) <=> \E i \in DOMAIN u : First(i)
  BY DEF Higher
<1> HIDE DEF First
<1>6. QED
  BY <1>1, <1>2, <1>3, <1>4, <1>5

Ones == {<<a>> : a \in Int}

Threes == Int \X Int \X Int

LEMMA OnesCompare == Comparable(Ones)
<1>1. SUFFICES ASSUME NEW u \in Ones, NEW w \in Ones, NEW x \in Ones
      PROVE  (Higher(u, w) => ~ Higher(w, u)) /\ (Higher(u, x) => Higher(u, w) \/ Higher(w, x))
  BY DEF Comparable
<1>2. PICK a \in Int, b \in Int, c \in Int : u = <<a>> /\ w = <<b>> /\ x = <<c>>
  BY DEF Ones
<1>3. /\ Higher(u, w) <=> a > b
      /\ Higher(w, u) <=> b > a
      /\ Higher(u, x) <=> a > c
      /\ Higher(w, x) <=> b > c
  BY <1>2, HigherOne
<1>4. QED
  BY <1>3

LEMMA ThreesCompare == Comparable(Threes)
<1>1. SUFFICES ASSUME NEW u \in Threes, NEW w \in Threes, NEW x \in Threes
      PROVE  (Higher(u, w) => ~ Higher(w, u)) /\ (Higher(u, x) => Higher(u, w) \/ Higher(w, x))
  BY DEF Comparable
<1> DEFINE More(y, z) == y[1] > z[1] \/ (y[1] = z[1] /\ y[2] > z[2])
                           \/ (y[1] = z[1] /\ y[2] = z[2] /\ y[3] > z[3])
<1>2. ASSUME NEW y \in Threes, NEW z \in Threes PROVE Higher(y, z) <=> More(y, z)
  <2>1. /\ y = <<y[1], y[2], y[3]>> /\ y[1] \in Int /\ y[2] \in Int /\ y[3] \in Int
        /\ z = <<z[1], z[2], z[3]>> /\ z[1] \in Int /\ z[2] \in Int /\ z[3] \in Int
    BY DEF Threes
  <2>2. Higher(<<y[1], y[2], y[3]>>, <<z[1], z[2], z[3]>>) <=> More(y, z)
    BY <2>1, HigherThree
  <2>3. QED
    BY <2>1, <2>2
<1>3. \A y \in Threes : y[1] \in Int /\ y[2] \in Int /\ y[3] \in Int
  BY DEF Threes
<1>4. (More(u, w) => ~ More(w, u)) /\ (More(u, x) => More(u, w) \/ More(w, x))
  BY <1>3
<1> HIDE DEF More
<1>5. QED
  BY <1>2, <1>4

-----------------------------------------------------------------------------
(***************************************************************************)
(* Rankings.                                                               *)
(***************************************************************************)
\* A sum over the lines of a row is a number: there are finitely many lines.
LEMMA SumIsNumber ==
  ASSUME NEW row \in Row, NEW counts \in [Key -> Nat]
  PROVE  Sum(row, counts) \in Nat
<1> DEFINE part(k) == {k} \X (1 .. row.games[k] * counts[k])
           f == [k \in Key |-> part(k)]
           parts == {part(k) : k \in Key}
<1>1. IsFiniteSet(Key)
  BY GameStatsAssumption
<1>2. ASSUME NEW k \in Key PROVE IsFiniteSet(part(k))
  <2>1. row.games[k] \in Nat /\ counts[k] \in Nat
    BY DEF Row
  <2> DEFINE m == row.games[k] * counts[k]
  <2>2. m \in Int
    BY <2>1
  <2> HIDE DEF m
  <2>3. IsFiniteSet(1 .. m)
    BY <2>2, FS_Interval
  <2>4. IsFiniteSet({k})
    BY FS_Singleton
  <2>5. QED
    BY <2>3, <2>4, FS_Product DEF m
<1> HIDE DEF part
<1>3. f \in Surjection(Key, parts)
  BY DEF Surjection
<1>4. IsFiniteSet(parts)
  BY <1>1, <1>3, FS_Surjection
<1>5. IsFiniteSet(UNION parts)
  BY <1>2, <1>4, FS_UNION
<1>6. Cardinality(UNION parts) \in Nat
  BY <1>5, FS_CardinalityType
<1>7. Sum(row, counts) = Cardinality(UNION parts)
  BY DEF Sum, part
<1>8. QED
  BY <1>6, <1>7

LEMMA ColumnIsNumber ==
  ASSUME NEW row \in Row
  PROVE  /\ Column(row, "score") \in Int
         /\ Column(row, "kills") \in Nat /\ Column(row, "deaths") \in Nat
<1>1. Kills \in [Key -> Nat] /\ Deaths \in [Key -> Nat]
  BY LeaderboardsAssumption
<1>2. /\ Column(row, "score") = row.score
      /\ Column(row, "kills") = Sum(row, Kills)
      /\ Column(row, "deaths") = Sum(row, Deaths)
  BY DEF Column
<1>3. row.score \in Int
  BY DEF Row
<1>4. QED
  BY <1>1, <1>2, <1>3, SumIsNumber

\* The players of F, with rows R, who are on a board, and what it compares.
OnBoardBy(sort, F, R) ==
  IF sort = "ratio" THEN {p \in F : HasRatio(R[p], "kills", "deaths")} ELSE F

ValueBy(sort, row) ==
  CASE sort = "rank"  -> RankValues(row)
    [] sort = "ratio" -> Ratio(row, "kills", "deaths")
    [] OTHER          -> <<Column(row, sort)>>

Ranking(sort, F, R) ==
  RowNumbers({<<p, ValueBy(sort, R[p])>> : p \in OnBoardBy(sort, F, R)})

\* The values of one board can be compared.
LEMMA ValuesCompare ==
  ASSUME NEW sort \in Sorts, NEW P, NEW R \in [P -> Row]
  PROVE  \E W : /\ Comparable(W)
                /\ \A p \in OnBoardBy(sort, P, R) : ValueBy(sort, R[p]) \in W
<1>1. CASE sort = "rank"
  <2>1. \A p \in P : R[p] \in Row
    OBVIOUS
  <2>2. \A r \in Row : RankValues(r) \in Threes
    BY DEF Row, RankValues, Threes
  <2>3. \A p \in P : ValueBy(sort, R[p]) \in Threes
    BY <1>1, <2>1, <2>2 DEF ValueBy
  <2>4. OnBoardBy(sort, P, R) = P
    BY <1>1 DEF OnBoardBy
  <2>5. QED
    BY <2>3, <2>4, ThreesCompare
<1>2. CASE sort = "score"
  <2>1. \A p \in P : ValueBy(sort, R[p]) = <<Column(R[p], "score")>>
    BY <1>2 DEF ValueBy
  <2>2. \A p \in P : ValueBy(sort, R[p]) \in Ones
    BY <2>1, ColumnIsNumber DEF Ones
  <2>3. OnBoardBy(sort, P, R) = P
    BY <1>2 DEF OnBoardBy
  <2>4. QED
    BY <2>2, <2>3, OnesCompare
<1>3. CASE sort = "ratio"
  <2>1. ASSUME NEW p \in P, HasRatio(R[p], "kills", "deaths")
        PROVE  Ratio(R[p], "kills", "deaths") \in Ones
    <3> DEFINE k == Column(R[p], "kills")
               d == Column(R[p], "deaths")
    <3>1. k \in Nat /\ d \in Nat /\ d # 0
      BY <2>1, ColumnIsNumber DEF HasRatio
    <3>2. Ratio(R[p], "kills", "deaths") = <<(20000 * k + d) \div (2 * d)>>
      BY DEF Ratio, Quotient4
    <3> HIDE DEF k, d
    <3>3. 2 * d \in Nat /\ 2 * d > 0 /\ 20000 * k + d \in Nat
      BY <3>1
    <3>4. (20000 * k + d) \div (2 * d) \in Int
      BY <3>3
    <3>5. QED
      BY <3>2, <3>4 DEF Ones
  <2>2. OnBoardBy(sort, P, R) = {p \in P : HasRatio(R[p], "kills", "deaths")}
    BY <1>3 DEF OnBoardBy
  <2>3. \A p : ValueBy(sort, R[p]) = Ratio(R[p], "kills", "deaths")
    BY <1>3 DEF ValueBy
  <2>4. \A p \in OnBoardBy(sort, P, R) : ValueBy(sort, R[p]) \in Ones
    BY <2>1, <2>2, <2>3
  <2>5. QED
    BY <2>4, OnesCompare
<1>4. QED
  BY <1>1, <1>2, <1>3 DEF Sorts

\* What the tables and queries of one board are.
LEMMA BoardsRank ==
  ASSUME NEW sort \in Sorts
  PROVE  BoardsBy(sort) = Ranking(sort, DOMAIN boards[sort], boards[sort])
<1>1. CASE sort = "rank"
  BY <1>1 DEF BoardsBy, CreateLeaderboardRank, Ranking, OnBoardBy, ValueBy
<1>2. CASE sort = "score"
  BY <1>2 DEF BoardsBy, CreateLeaderboardType, Ranking, OnBoardBy, ValueBy
<1>3. CASE sort = "ratio"
  BY <1>3 DEF BoardsBy, CreateLeaderboardRatio, Ranking, OnBoardBy, ValueBy
<1>4. QED
  BY <1>1, <1>2, <1>3 DEF Sorts

\* Its table is one of all players, or dropped.
LEMMA TableTyped ==
  ASSUME TypeOK, NEW sort \in Sorts
  PROVE  /\ DOMAIN boards[sort] \in SUBSET Player
         /\ boards[sort] \in [DOMAIN boards[sort] -> Row]
<1>1. sort \in Board \ {"clan"}
  BY DEF Sorts, Board
<1>2. CASE boards[sort] \in [Player -> Row]
  BY <1>2
<1>3. CASE boards[sort] = NoTable
  <2>1. DOMAIN NoTable = {} /\ NoTable \in [{} -> Row]
    BY DEF NoTable
  <2>2. QED
    BY <1>3, <2>1
<1>4. QED
  BY <1>1, <1>2, <1>3 DEF TypeOK

LEMMA APIPages ==
  ASSUME NEW sort \in Sorts, NEW v
  PROVE  requestAPILeaderboard(sort, v) =
           {Page(b, limitOf(v), apiOffsetOf(v)) : b \in BoardsBy(sort)}
<1>1. CASE sort = "rank"
  BY <1>1 DEF requestAPILeaderboard, queryLeaderboardRank, BoardsBy
<1>2. CASE sort = "score"
  BY <1>2 DEF requestAPILeaderboard, queryLeaderboardType, BoardsBy
<1>3. CASE sort = "ratio"
  BY <1>3 DEF requestAPILeaderboard, queryLeaderboardRatio, BoardsBy
<1>4. QED
  BY <1>1, <1>2, <1>3 DEF Sorts

LEMMA TopPage ==
  ASSUME NEW sort \in Sorts
  PROVE  requestStats(sort, <<>>) = {Page(b, 10, 0) : b \in BoardsBy(sort)}
<1>1. CASE sort = "rank"
  BY <1>1 DEF requestStats, queryLeaderboardRank, BoardsBy
<1>2. CASE sort = "score"
  BY <1>2 DEF requestStats, queryLeaderboardType, BoardsBy
<1>3. CASE sort = "ratio"
  BY <1>3 DEF requestStats, queryLeaderboardRatio, BoardsBy
<1>4. QED
  BY <1>1, <1>2, <1>3 DEF Sorts

LEMMA OwnPage ==
  ASSUME NEW sort \in Sorts, NEW pids, pids # <<>>, Len(pids) = 1
  PROVE  requestStats(sort, pids) = {AroundRow(b, pids[1]) : b \in BoardsBy(sort)}
<1>1. CASE sort = "rank"
  BY <1>1 DEF requestStats, queryLeaderboardRankByProfileId, BoardsBy
<1>2. CASE sort = "score"
  BY <1>2 DEF requestStats, queryLeaderboardTypeByProfileid, BoardsBy
<1>3. CASE sort = "ratio"
  BY <1>3 DEF requestStats, queryLeaderboardRatioByProfileid, BoardsBy
<1>4. QED
  BY <1>1, <1>2, <1>3 DEF Sorts

LEMMA FriendsPage ==
  ASSUME NEW sort \in Sorts, NEW pids, pids # <<>>, Len(pids) \in Nat, Len(pids) > 1
  PROVE  requestStats(sort, pids) =
           {Page(b, 10, 0) : b \in Ranking(sort, ToSet(pids) \intersect Player, stats)}
<1>1. CASE sort = "rank"
  BY <1>1 DEF requestStats, queryLeaderboardRankByFriends, Ranking, OnBoardBy, ValueBy
<1>2. CASE sort = "score"
  BY <1>2 DEF requestStats, queryLeaderboardTypeByFriends, Ranking, OnBoardBy, ValueBy
<1>3. CASE sort = "ratio"
  BY <1>3 DEF requestStats, queryLeaderboardRatioByFriends, Ranking, OnBoardBy, ValueBy
<1>4. QED
  BY <1>1, <1>2, <1>3 DEF Sorts

\* The API shows every board, a hundred rows at a time.
LEMMA AllShown ==
  ASSUME NEW sort \in Sorts, NEW b \in BoardsBy(sort)
  PROVE  b \in ShownByAPI(sort)
<1>1. Cardinality(Player) \in Nat /\ Cardinality(Player) < Word
  BY LeaderboardsAssumption, FS_CardinalityType
<1>2. SUFFICES ASSUME NEW i \in 0 .. Cardinality(Player) \div 100
      PROVE  Page(b, 100, 100 * i) \in
               requestAPILeaderboard(sort, [limit |-> 100, offset |-> 100 * i])
  BY DEF ShownByAPI
<1> DEFINE v == [limit |-> 100, offset |-> 100 * i]
           N == Cardinality(Player)
<1>3. i \in Nat /\ 100 * i \in Nat /\ 100 * i < Word
  <2>1. N \in Nat /\ i \in 0 .. N \div 100 /\ N < Word /\ Word \in Nat
    BY <1>1, PlayerStatsAssumption
  <2> HIDE DEF N
  <2>2. i \in Nat /\ 100 * i <= N
    BY <2>1
  <2>3. QED
    BY <2>1, <2>2
<1>4. limitOf(v) = 100
  BY DEF limitOf
<1>5. apiOffsetOf(v) = (100 * i) % Word
  BY DEF apiOffsetOf
<1>6. apiOffsetOf(v) = 100 * i
  BY <1>3, <1>5, BelowWord
<1> HIDE DEF v
<1>7. Page(b, 100, 100 * i) \in requestAPILeaderboard(sort, v)
  BY <1>4, <1>6, APIPages
<1>8. QED
  BY <1>7 DEF v

\* Rows of friends that are on the boards as they are in the table.
LEMMA FriendsRank ==
  ASSUME TypeOK, NEW sort \in Sorts, NEW F \in SUBSET Player,
         F \subseteq DOMAIN boards[sort], \A p \in F : boards[sort][p] = stats[p],
         NEW s \in Ranking(sort, F, stats)
  PROVE  \E b \in BoardsBy(sort) : s \in OnBoard(b, F)
<1> DEFINE R == boards[sort]
           P == DOMAIN R
           All == OnBoardBy(sort, P, R)
           Some == OnBoardBy(sort, F, stats)
           v == [p \in All |-> ValueBy(sort, R[p])]
           u == [p \in Some |-> ValueBy(sort, stats[p])]
<1>1. R \in [P -> Row] /\ P \in SUBSET Player
  BY TableTyped
<1>2. IsFiniteSet(Player)
  BY LeaderboardsAssumption
<1>3. All \in SUBSET Player /\ Some = F \intersect All
  BY <1>1 DEF OnBoardBy
<1>4. IsFiniteSet(All) /\ IsFiniteSet(Some) /\ Some \in SUBSET All
  BY <1>2, <1>3, FS_Subset
<1>5. PICK W : Comparable(W) /\ \A p \in All : ValueBy(sort, R[p]) \in W
  BY <1>1, ValuesCompare
<1>6. v \in [All -> W]
  BY <1>5
<1>7. {<<p, ValueBy(sort, R[p])>> : p \in All} = {<<p, v[p]>> : p \in All}
  OBVIOUS
<1>8. {<<p, ValueBy(sort, stats[p])>> : p \in Some} = {<<p, u[p]>> : p \in Some}
  OBVIOUS
<1>9. \A p \in Some : u[p] = v[p]
  BY <1>3
<1>10. Ranking(sort, F, stats) = RowNumbers({<<p, u[p]>> : p \in Some})
  BY <1>8 DEF Ranking
<1>11. Ranking(sort, P, R) = RowNumbers({<<p, v[p]>> : p \in All})
  BY <1>7 DEF Ranking
<1> HIDE DEF All, Some, v, u
<1>12. s \in SetToSeqs(Some) /\ \A i, j \in DOMAIN s : i < j => ~ Higher(u[s[j]], u[s[i]])
  BY <1>4, <1>10, Numbered
<1>13. \A i \in DOMAIN s : s[i] \in Some
  BY <1>4, <1>12, Enumerated
<1>14. InRanks(s, v)
  BY <1>9, <1>12, <1>13 DEF InRanks
<1>15. PICK b \in SetToSeqs(All) :
         /\ InRanks(b, v)
         /\ \A i, j \in DOMAIN s, x, y \in DOMAIN b :
              i < j /\ b[x] = s[i] /\ b[y] = s[j] => x < y
  BY <1>4, <1>5, <1>6, <1>12, <1>14, Extended
<1>16. b \in RowNumbers({<<p, v[p]>> : p \in All})
  BY <1>4, <1>15, Numbered DEF InRanks
<1>17. b \in BoardsBy(sort)
  BY <1>11, <1>16, BoardsRank
<1>18. ToSet(b) = All
  BY <1>4, <1>15, RowFound
<1>19. s \in OnBoard(b, F)
  BY <1>3, <1>12, <1>15, <1>18 DEF OnBoard
<1>20. QED
  BY <1>17, <1>19

LEMMA Agree ==
  ASSUME TypeOK, BoardsFresh, NEW sort \in Sorts
  PROVE  PagesAgree(sort)
<1>1. SUFFICES ASSUME NEW F \in SUBSET Player,
                      \A p \in F : <<"player", p>> \notin Unshown(sort),
                      NEW pids \in SetToSeqs(F), NEW page \in requestStats(sort, pids)
      PROVE  \E b \in ShownByAPI(sort) :
               IF Len(pids) > 1
               THEN \E friends \in OnBoard(b, F) : page = Page(friends, 10, 0)
               ELSE /\ \A r \in DOMAIN page : page[r] = b[r]
                    /\ \A p \in F : p \in ToSet(b) <=> p \in ToSet(page)
  <2> DEFINE Told(F, pids, page, bs) ==
               \E b \in bs :
                 IF Len(pids) > 1
                 THEN \E friends \in OnBoard(b, F) : page = Page(friends, 10, 0)
                 ELSE /\ \A r \in DOMAIN page : page[r] = b[r]
                      /\ \A p \in F : p \in ToSet(b) <=> p \in ToSet(page)
  <2>1. PagesAgree(sort) <=>
          \A F \in SUBSET Player :
            (\A p \in F : <<"player", p>> \notin Unshown(sort)) =>
              \A pids \in SetToSeqs(F) : \A page \in requestStats(sort, pids) :
                Told(F, pids, page, ShownByAPI(sort))
    BY DEF PagesAgree
  <2> HIDE DEF Told
  <2>2. \A F \in SUBSET Player :
          (\A p \in F : <<"player", p>> \notin Unshown(sort)) =>
            \A pids \in SetToSeqs(F) : \A page \in requestStats(sort, pids) :
              Told(F, pids, page, ShownByAPI(sort))
    BY <1>1 DEF Told
  <2>3. QED
    BY <2>1, <2>2
<1>2. IsFiniteSet(Player) /\ IsFiniteSet(F)
  BY LeaderboardsAssumption, FS_Subset
<1>3. /\ Cardinality(F) \in Nat
      /\ pids \in [1 .. Cardinality(F) -> F] /\ DOMAIN pids = 1 .. Cardinality(F)
      /\ \A x \in F : \E i \in DOMAIN pids : pids[i] = x
  BY <1>2, Enumerated
<1>4. pids \in Seq(F) /\ Len(pids) = Cardinality(F)
  BY <1>3
<1>5. Len(pids) > 0 => pids # <<>>
  BY <1>4
<1>6. ToSet(pids) = F /\ ToSet(pids) \intersect Player = F
  BY <1>3 DEF ToSet
<1>7. CASE Len(pids) > 1
  <2>1. requestStats(sort, pids) = {Page(b, 10, 0) : b \in Ranking(sort, F, stats)}
    <3>1. pids # <<>> /\ Len(pids) \in Nat
      BY <1>3, <1>4, <1>5, <1>7
    <3>2. requestStats(sort, pids) =
            {Page(b, 10, 0) : b \in Ranking(sort, ToSet(pids) \intersect Player, stats)}
      BY <1>7, <3>1, FriendsPage
    <3>3. QED
      BY <1>6, <3>2
  <2>2. PICK s \in Ranking(sort, F, stats) : page = Page(s, 10, 0)
    BY <2>1
  <2>3. \A p \in F : p \in DOMAIN boards[sort] /\ boards[sort][p] = stats[p]
    <3>1. sort \in Board \ {"clan"}
      BY DEF Sorts, Board
    <3>2. QED
      BY <1>1, <3>1 DEF BoardsFresh
  <2>4. PICK b \in BoardsBy(sort) : s \in OnBoard(b, F)
    BY <2>3, FriendsRank
  <2>5. b \in ShownByAPI(sort)
    BY AllShown
  <2>6. QED
    BY <1>7, <2>2, <2>4, <2>5
<1>8. CASE Len(pids) = 1
  <2>1. Len(pids) = 1 /\ Cardinality(F) = 1
    BY <1>4, <1>8
  <2>2. requestStats(sort, pids) = {AroundRow(b, pids[1]) : b \in BoardsBy(sort)}
    BY <1>5, <2>1, OwnPage
  <2>3. PICK b \in BoardsBy(sort) : page = AroundRow(b, pids[1])
    BY <2>2
  <2>4. \A p \in F : p = pids[1]
    BY <1>3, <2>1
  <2> DEFINE All == OnBoardBy(sort, DOMAIN boards[sort], boards[sort])
             v == [p \in All |-> ValueBy(sort, boards[sort][p])]
  <2>5. {<<p, ValueBy(sort, boards[sort][p])>> : p \in All} = {<<p, v[p]>> : p \in All}
    OBVIOUS
  <2>6. b \in RowNumbers({<<p, v[p]>> : p \in All})
    BY <2>3, <2>5, BoardsRank DEF Ranking
  <2>7. IsFiniteSet(All)
    <3>1. All \in SUBSET Player
      BY TableTyped DEF OnBoardBy
    <3>2. QED
      BY <1>2, <3>1, FS_Subset
  <2> HIDE DEF All, v
  <2>8. b \in SetToSeqs(All)
    BY <2>6, <2>7, Numbered
  <2>9. /\ ToSet(b) = All
        /\ pids[1] \in ToSet(page) <=> pids[1] \in All
        /\ \A r \in DOMAIN page : page[r] = b[r]
    BY <2>3, <2>7, <2>8, RowFound
  <2>10. b \in ShownByAPI(sort)
    BY AllShown
  <2>11. QED
    BY <1>8, <2>4, <2>9, <2>10
<1>9. CASE Len(pids) = 0
  <2>1. pids = <<>>
    BY <1>4, <1>9
  <2>2. PICK b \in BoardsBy(sort) : page = Page(b, 10, 0)
    BY <2>1, TopPage
  <2>3. F = {}
    BY <1>3, <1>4, <1>9
  <2>4. \A r \in DOMAIN page : page[r] = b[r]
    BY <2>2 DEF Page, Rows
  <2>5. b \in ShownByAPI(sort)
    BY AllShown
  <2>6. QED
    BY <1>9, <2>3, <2>4, <2>5
<1>10. QED
  BY <1>3, <1>4, <1>7, <1>8, <1>9

-----------------------------------------------------------------------------
(***************************************************************************)
(* Theorems.                                                               *)
(***************************************************************************)
\* All pages of one ranking tell the same order, the friends' page, read from
\* the living rows, and those of the boards; for any number of players and any
\* list of friends.
THEOREM PagesTellOneRanking == Spec => OneRanking
<1>1. IInv => \A sort \in Sorts : PagesAgree(sort)
  BY Agree DEF IInv
<1>2. Spec => [](\A sort \in Sorts : PagesAgree(sort))
  BY <1>1, Invariance, PTL
<1>3. (\A sort \in Sorts : PagesAgree(sort))'
        => \A sort \in Sorts : boards'[sort] # boards[sort] => PagesAgree(sort)'
  OBVIOUS
<1>4. [](\A sort \in Sorts : PagesAgree(sort))
        => [][\A sort \in Sorts : boards'[sort] # boards[sort] => PagesAgree(sort)']_vars
  BY <1>3, PTL
<1>5. QED
  BY <1>2, <1>4, PTL DEF OneRanking

\* Pages asked for one after the other show a board of any length, every row
\* once; the page around a row, ten ranks with that row among the first five;
\* and a clan that is on its board is on the page around it.
THEOREM PagesAreOfBoards == Spec => PagesShowTheBoard
<1>1. PagesOfAnyBoard
  BY AllPages
<1>2. IInv => ClansFindThemselves
  BY ClansFind DEF IInv
<1>3. Spec => []ClansFindThemselves
  BY <1>2, Invariance, PTL
<1>4. []ClansFindThemselves
        => [][boards' # boards => PagesOfAnyBoard /\ ClansFindThemselves']_vars
  BY <1>1, PTL
<1>5. QED
  BY <1>3, <1>4 DEF PagesShowTheBoard

=============================================================================
