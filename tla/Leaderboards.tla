---------------------------- MODULE Leaderboards ----------------------------
(***************************************************************************)
(* The pages of the leaderboards (database/leaderboard_*.cpp, the requests *)
(* of webserver/request/status.cpp, clan.cpp and api.cpp that ask for      *)
(* them): some rows from an offset, the rows around a player or a clan,    *)
(* and the best of a player's friends.  The first two read the copies in   *)
(* `boards', the third the living rows in `stats'.                         *)
(*                                                                         *)
(* A board is a sequence: its first element has rank 1.  A page is a       *)
(* function from ranks, as the std::map it is gathered in.  Rows that      *)
(* compare equal are numbered in any order, so a query has a set of        *)
(* possible pages.  A query that fails leaves the page empty; on a board   *)
(* whose table is dropped every query fails.                               *)
(*                                                                         *)
(* Of the boards, by rank, by a column and by a ratio of two, one of each  *)
(* kind is kept; the other columns are sums like `kills'.                  *)
(***************************************************************************)
EXTENDS GameStats, SequencesExt

CONSTANTS
  Kills, Deaths,  \* of a line of a report
  MaxBoard        \* pages are checked on boards of up to so many rows

ASSUME LeaderboardsAssumption ==
  /\ Kills \in [Key -> Nat] /\ Deaths \in [Key -> Nat]
  /\ IsFiniteSet(Player) /\ IsFiniteSet(Clan)
  \* numbers of rows, and a first rank in the URL, fit into a word
  /\ MaxBoard \in Nat /\ 7 * MaxBoard < Word /\ Cardinality(Player) < Word

(***************************************************************************)
(* The tables CreateLeaderboards fills.                                    *)
(***************************************************************************)
\* A column that is a sum over the lines a row has taken in.
Sum(row, counts) ==
  Cardinality(UNION {{k} \X (1 .. row.games[k] * counts[k]) : k \in Key})

Column(row, col) ==
  CASE col = "score"  -> row.score
    [] col = "kills"  -> Sum(row, Kills)
    [] col = "deaths" -> Sum(row, Deaths)

\* A quotient of integers has four decimals.
Quotient4(k, s) == (20000 * k + s) \div (2 * s)

Ratio(row, k, s) == <<Quotient4(Column(row, k), Column(row, s))>>

\* Compared column by column, the largest first.
Higher(u, v) ==
  \E i \in DOMAIN u : u[i] > v[i] /\ \A j \in 1 .. i - 1 : u[j] = v[j]

\* ROW_NUMBER over rows <<id, values>>.
RowNumbers(rows) ==
  {[i \in DOMAIN b |-> b[i][1]] :
     b \in {s \in SetToSeqs(rows) :
              \A i, j \in DOMAIN s : i < j => ~ Higher(s[j][2], s[i][2])}}

RankValues(r) == <<r.ran, r.score, r.pph>>

CreateLeaderboardRank ==
  RowNumbers({<<p, RankValues(boards["rank"][p])>> : p \in DOMAIN boards["rank"]})

CreateLeaderboardType(col) ==
  RowNumbers({<<p, <<Column(boards["score"][p], col)>>>> : p \in DOMAIN boards["score"]})

HasRatio(r, k, s) == Column(r, k) # 0 /\ Column(r, s) # 0

CreateLeaderboardRatio(k, s) ==
  RowNumbers({<<p, Ratio(boards["ratio"][p], k, s)>> :
                p \in {x \in DOMAIN boards["ratio"] : HasRatio(boards["ratio"][x], k, s)}})

ClanValues(r) ==
  <<r.score, Cardinality(r.wins), Cardinality(r.losses), Cardinality(r.draws)>>

CreateLeaderboardClan ==
  RowNumbers({<<c, ClanValues(boards["clan"][c])>> : c \in DOMAIN boards["clan"]})

(***************************************************************************)
(* The queries.                                                            *)
(***************************************************************************)
Rows(b, first, last) == [r \in DOMAIN b \intersect first .. last |-> b[r]]

Page(b, limit, offset) == Rows(b, offset + 1, offset + limit)

\* Rows around rank o, without the change of the last rank at the top.
AroundUncorrected(b, o) == Rows(b, o - 4, o + 5)

\* Ten rows, own rank among them: the fifth below the top of the board.
Around(b, o) ==
  Rows(b, IF o <= 4 THEN 1 ELSE o - 4, IF o <= 4 THEN 10 ELSE o + 5)

\* Joined with the own row: no row, no page.
AroundRow(b, x) ==
  IF x \in ToSet(b) THEN Around(b, CHOOSE o \in DOMAIN b : b[o] = x) ELSE <<>>

queryLeaderboardRank(limit, offset) ==
  {Page(b, limit, offset) : b \in CreateLeaderboardRank}

queryLeaderboardRankByProfileId(p) == {AroundRow(b, p) : b \in CreateLeaderboardRank}

\* Friends are numbered among themselves, from the rows as they are.
queryLeaderboardRankByFriends(F) ==
  {Page(b, 10, 0) : b \in RowNumbers({<<p, RankValues(stats[p])>> : p \in F})}

queryLeaderboardType(col, limit, offset) ==
  {Page(b, limit, offset) : b \in CreateLeaderboardType(col)}

queryLeaderboardTypeByProfileid(col, p) == {AroundRow(b, p) : b \in CreateLeaderboardType(col)}

queryLeaderboardTypeByFriends(col, F) ==
  {Page(b, 10, 0) : b \in RowNumbers({<<p, <<Column(stats[p], col)>>>> : p \in F})}

queryLeaderboardRatio(k, s, limit, offset) ==
  {Page(b, limit, offset) : b \in CreateLeaderboardRatio(k, s)}

queryLeaderboardRatioByProfileid(p, k, s) == {AroundRow(b, p) : b \in CreateLeaderboardRatio(k, s)}

\* Friends without a kill included.
RatioOfAllWhoDied(F, k, s) ==
  {Page(b, 10, 0) : b \in RowNumbers({<<p, Ratio(stats[p], k, s)>> :
                                       p \in {x \in F : Column(stats[x], s) # 0}})}

queryLeaderboardRatioByFriends(F, k, s) ==
  {Page(b, 10, 0) : b \in RowNumbers({<<p, Ratio(stats[p], k, s)>> :
                                       p \in {x \in F : HasRatio(stats[x], k, s)}})}

queryLeaderboardClan(limit, offset) ==
  {Page(b, limit, offset) : b \in CreateLeaderboardClan}

queryLeaderboardClanByClanId(c) == {AroundRow(b, c) : b \in CreateLeaderboardClan}

(***************************************************************************)
(* The requests.  The first profile id is the player's own.                *)
(***************************************************************************)
Sorts == {"rank", "score", "ratio"}

requestStats(sort, pids) ==
  LET F == ToSet(pids) \intersect Player
  IN  CASE pids = <<>> ->
             (CASE sort = "rank"  -> queryLeaderboardRank(10, 0)
                [] sort = "ratio" -> queryLeaderboardRatio("kills", "deaths", 10, 0)
                [] OTHER          -> queryLeaderboardType(sort, 10, 0))
        [] Len(pids) = 1 ->
             (CASE sort = "rank"  -> queryLeaderboardRankByProfileId(pids[1])
                [] sort = "ratio" -> queryLeaderboardRatioByProfileid(pids[1], "kills", "deaths")
                [] OTHER          -> queryLeaderboardTypeByProfileid(sort, pids[1]))
        [] Len(pids) > 1 ->
             (CASE sort = "rank"  -> queryLeaderboardRankByFriends(F)
                [] sort = "ratio" -> queryLeaderboardRatioByFriends(F, "kills", "deaths")
                [] OTHER          -> queryLeaderboardTypeByFriends(sort, F))

\* The first rank is looked at only when a last one is named; 0 becomes the
\* largest word.
offsetOf(v) ==
  IF {"startrank", "endrank"} \subseteq DOMAIN v THEN (v.startrank - 1) % Word ELSE 0

\* v: the variables of the URL.
requestLeaderboard(v) ==
  IF "clanid" \in DOMAIN v
  THEN queryLeaderboardClanByClanId(v.clanid)
  ELSE queryLeaderboardClan(7, offsetOf(v))

limitOf(v) == IF "limit" \in DOMAIN v /\ v.limit \in {25, 50, 75, 100} THEN v.limit ELSE 10

apiOffsetOf(v) == IF "offset" \in DOMAIN v THEN v.offset % Word ELSE 0

requestAPILeaderboard(sort, v) ==
  CASE sort = "rank"  -> queryLeaderboardRank(limitOf(v), apiOffsetOf(v))
    [] sort = "ratio" -> queryLeaderboardRatio("kills", "deaths", limitOf(v), apiOffsetOf(v))
    [] OTHER          -> queryLeaderboardType(sort, limitOf(v), apiOffsetOf(v))

requestAPILeaderboardClan(v) == queryLeaderboardClan(limitOf(v), apiOffsetOf(v))

-----------------------------------------------------------------------------
BoardsBy(sort) ==
  CASE sort = "rank"  -> CreateLeaderboardRank
    [] sort = "ratio" -> CreateLeaderboardRatio("kills", "deaths")
    [] OTHER          -> CreateLeaderboardType(sort)

\* The boards the API shows, page by page of a hundred.
ShownByAPI(sort) ==
  {b \in BoardsBy(sort) : \A i \in 0 .. Cardinality(Player) \div 100 :
     Page(b, 100, 100 * i) \in
       requestAPILeaderboard(sort, [limit |-> 100, offset |-> 100 * i])}

\* The members of F who are on the board b, in its order.
OnBoard(b, F) ==
  {s \in SetToSeqs(F \intersect ToSet(b)) :
     \A i, j \in DOMAIN s, x, y \in DOMAIN b :
       i < j /\ b[x] = s[i] /\ b[y] = s[j] => x < y}

\* F: the players a game asks for; nobody, the player alone, or with friends.
PagesAgree(sort) ==
  LET bs == ShownByAPI(sort)
  IN  \A F \in SUBSET Player :
        (\A p \in F : <<"player", p>> \notin Unshown(sort)) =>
          \A pids \in SetToSeqs(F) : \A page \in requestStats(sort, pids) : \E b \in bs :
            IF Len(pids) > 1
            THEN \E friends \in OnBoard(b, F) : page = Page(friends, 10, 0)
            ELSE /\ \A r \in DOMAIN page : page[r] = b[r]
                 /\ \A p \in F : p \in ToSet(b) <=> p \in ToSet(page)

\* Whenever a board changes, all pages of its ranking tell the same order: the
\* friends' page, which is computed from the living rows, holds the friends who
\* are on the board the API shows, in its order, the best ten of them, unless
\* that board need not show one of their rows as it is; and a player who is on
\* that board finds itself on the page around it, at the same rank.
OneRanking == [][\A sort \in Sorts : boards'[sort] # boards[sort] => PagesAgree(sort)']_vars

BoardOf(n) == [r \in 1 .. n |-> r]

ClansFindThemselves ==
  \A c \in DOMAIN boards["clan"] : \A page \in requestLeaderboard([clanid |-> c]) :
    /\ c \in ToSet(page)
    /\ \E q \in requestAPILeaderboardClan([offset |-> 0]) :
         \A r \in DOMAIN page \intersect DOMAIN q : page[r] = q[r]

PagesOfAnyBoard ==
  \A n \in 0 .. MaxBoard, o \in 1 .. MaxBoard :
    o <= n =>
      /\ LET shown == DOMAIN Around(BoardOf(n), o)
         IN  \E first \in 1 .. n :
               /\ shown = first .. (IF first + 9 <= n THEN first + 9 ELSE n)
               /\ o \in first .. first + 4
      /\ \A text \in {7, 10, 25, 100} :
           LET limit == limitOf([limit |-> text])
           IN  Cardinality({i \in 0 .. n : o \in DOMAIN Page(BoardOf(n), limit, i * limit)}) = 1
      /\ LET Offset(i) == offsetOf([startrank |-> 7 * i + 1, endrank |-> 7 * i + 7])
         IN  Cardinality({i \in 0 .. n : o \in DOMAIN Page(BoardOf(n), 7, Offset(i))}) = 1

\* Whenever boards change, a clan on the clans' board finds itself on the page
\* around it, at the rank the API shows.  On a board of any length, the page
\* around a row is ten ranks that follow each other with that row among the first
\* five, fewer than ten only where the board ends; and pages asked for one after
\* the other, by offset or by the rank they start at, show every row once.
PagesShowTheBoard == [][boards' # boards => PagesOfAnyBoard /\ ClansFindThemselves']_vars

=============================================================================
