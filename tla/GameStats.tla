----------------------------- MODULE GameStats -----------------------------
(***************************************************************************)
(* The game statistics server (gamestats/client.cpp,                       *)
(* battlefield/gamestat.cpp): what a game server reports at the end of a   *)
(* game becomes rows of GameStats and GameStatPlayers, and is added to     *)
(* PlayerStats and to the records of two clans; then the leaderboards are  *)
(* made anew.  Two other writers meet it in those tables: the admin's      *)
(* recalculation of a player (webserver/request/api_admin.cpp) and a       *)
(* clan's update of its page (webserver/request/clan.cpp), which writes    *)
(* the whole row of Clans.                                                 *)
(*                                                                         *)
(* Every connection has a thread; a method of Database is one step, and it *)
(* may fail: its result is ignored everywhere.  job[t] is the stack frame  *)
(* of thread t, its field `next' the database call it makes next.          *)
(*                                                                         *)
(* Left out: the authentication of a game server (its answers are          *)
(* constants), the columns of a game nobody computes with, lines of        *)
(* unknown players and of unknown clans (they change no row), and          *)
(* eventGameEnded (tables of queries nobody here reads).                   *)
(***************************************************************************)
EXTENDS PlayerStats

CONSTANTS
  Player,      \* profile ids with rows in Players and PlayerStats
  Clan,        \* clan ids with a row in Clans
  NoClan,      \* the clan id 0
  Game,        \* finished games
  Report,      \* Report[g]: what the game server sends about g
  Verified,    \* games of addresses that have a verified row in GameServers
  Info,        \* contents of a clan's page
  Blank,       \* the page of a default-constructed Clan
  Thread,      \* threads of GameStats and of the Webserver
  Nobody,
  MayFail      \* whether calls of the database may fail

(***************************************************************************)
(* A report.  A line carries the profile id next to the fields.            *)
(***************************************************************************)
Line == [pid : Player, score : Int, time : Nat, medals : SUBSET Medal]

Lost == 0
Major == 1
Minor == 2
Draw == 3

ReportOf == [lines : Seq(Line), team : [{1, 2} -> Clan \union {NoClan}],
             victory : [{1, 2} -> 0 .. 255]]

ASSUME GameStatsAssumption ==
  /\ Report \in [Game -> ReportOf]
  /\ Key = UNION {{g} \X DOMAIN Report[g].lines : g \in Game}
  /\ IsFiniteSet(Key)
  /\ Verified \subseteq Game
  /\ NoClan \notin Clan
  /\ Nobody \notin Player \union Clan \union Game
  /\ Blank \notin Info
  /\ MayFail \in BOOLEAN

lineAt(k) == Report[k[1]].lines[k[2]]
pid(k)    == lineAt(k).pid
team(g, s) == Report[g].team[s]
victory(g, s) == Report[g].victory[s]

ClanGame(g) == team(g, 1) # NoClan /\ team(g, 2) # NoClan

(***************************************************************************)
(* The tables.  A counter of a clan is the set of the sides it has         *)
(* counted.                                                                *)
(***************************************************************************)
Side == Game \X {1, 2}

ClanRow == [info : Info \union {Blank}, score : Nat, wins : SUBSET Side,
            losses : SUBSET Side, draws : SUBSET Side]

NewClan == [info |-> Blank, score |-> 0, wins |-> {}, losses |-> {}, draws |-> {}]

VARIABLES
  restricted,  \* players whose statistics are frozen (set by hand)
  stats,       \* table PlayerStats
  games,       \* table GameStats
  log,         \* table GameStatPlayers
  disabled,    \* the rows of GameStatPlayers that do not count
  clans,       \* table Clans
  boards,      \* the tables of the leaderboards, as copies of PlayerStats and Clans
  sent,        \* games reported so far
  job,         \* the handler each thread runs
  noted,       \* history: rows that overlaps, failures or a crash have spoiled
  late         \* history: <<b, x>>: the row x has been left out of the board b

tables == <<restricted, stats, games, log, disabled, clans, boards>>
vars   == <<tables, sent, job, noted, late>>

Subject == ({"player"} \X Player) \union ({"clan"} \X Clan)

\* The leaderboards in the order they are made; "score" stands for all that go
\* by one column, "ratio" for all that go by a ratio of two.
Boards == <<"rank", "score", "ratio", "clan">>
Board  == {"rank", "score", "ratio", "clan"}

\* The table a leaderboard is made of.
TableOf(b) == IF b = "clan" THEN clans ELSE stats

\* What is left of a leaderboard whose table is dropped.
NoTable == [x \in {} |-> 0]

-----------------------------------------------------------------------------
(***************************************************************************)
(* GameStat::UpdateClanStats.                                              *)
(***************************************************************************)
Factor(v) == CASE v = Minor -> 2 [] v = Major -> 4 [] OTHER -> 1

eloWeightOfSide(g, s) == 25 * Factor(victory(g, s))

\* ELO_WEIGHT; both switches multiply the one K.
eloWeight(g, s) == 25 * Factor(victory(g, 1)) * Factor(victory(g, 2))

\* A draw counts as a full success for both, as does a number that is no VictoryState.
success(v) == IF v = Lost THEN 0 ELSE 1000

\* 1 / (1 + 10^(d / ELO_MAX_RANGE)) in thousandths.  The curve is replaced by
\* the line through its middle, within 30 thousandths of it; both give two
\* opponents one success together.
Expected(d) ==
  CASE d > 820 -> 90 [] d < -820 -> 910 [] OTHER -> 500 - Quotient(d, 2)

eloScore(g, s, mine, theirs) ==
  Clamped(((eloWeight(g, s) * (success(victory(g, s)) - Expected(theirs - mine))) \div 1000)
            + mine)

\* A switch that falls through from Lost to Draw.
CountedFallingThrough(row, g, s) ==
  LET v == victory(g, s)
  IN  [row EXCEPT
        !.wins   = IF v \in {Major, Minor} THEN @ \union {<<g, s>>} ELSE @,
        !.losses = IF v = Lost THEN @ \union {<<g, s>>} ELSE @,
        !.draws  = IF v \in {Lost, Draw} THEN @ \union {<<g, s>>} ELSE @]

Counted(row, g, s) ==
  LET v == victory(g, s)
  IN  [row EXCEPT
        !.wins   = IF v \in {Major, Minor} THEN @ \union {<<g, s>>} ELSE @,
        !.losses = IF v = Lost THEN @ \union {<<g, s>>} ELSE @,
        !.draws  = IF v = Draw THEN @ \union {<<g, s>>} ELSE @]

Rated(row, g, s, other) ==
  [Counted(row, g, s) EXCEPT !.score = eloScore(g, s, row.score, other.score)]

\* The rows come back in the order of their ids, not in the order asked for.
queryClansUnordered(g) == [s \in {1, 2} |-> clans[team(g, 3 - s)]]

\* queryClansByClanId: a clan that plays itself is found once, as the first.
queryClansByClanId(g) ==
  [s \in {1, 2} |-> IF s = 2 /\ team(g, 1) = team(g, 2) THEN NewClan ELSE clans[team(g, s)]]

updateClansSwapped(g, rows) ==
  [c \in Clan |-> CASE c = team(g, 1) -> rows[2]
                    [] c # team(g, 1) /\ c = team(g, 2) -> rows[1]
                    [] OTHER -> clans[c]]

\* The columns of both clans are written by one statement; of two values for
\* one clan the first is taken.
updateClans(g, rows) ==
  [c \in Clan |-> CASE c = team(g, 1) -> rows[1]
                    [] c # team(g, 1) /\ c = team(g, 2) -> rows[2]
                    [] OTHER -> clans[c]]

-----------------------------------------------------------------------------
(***************************************************************************)
(* Threads.                                                                *)
(***************************************************************************)
Op == {"none", "UpdateGame", "Recalc", "UpdateClan"}

Call == {"none", "queryPlayer", "updatePlayerStats", "insertGameStat", "queryClans",
         "updateClans", "createLeaderboards", "count", "page", "updateRecalc",
         "updateClan"}

Job == [op : Op, next : Call, game : Game \union {Nobody}, i : Nat,
        barred : SUBSET Player, added : SUBSET Key, row : Row,
        rows : [{1, 2} -> ClanRow], player : Player \union {Nobody},
        read : SUBSET Key, offset : Nat, total : Nat,
        clan : Clan \union {Nobody}, page : ClanRow]

NoJob == [op |-> "none", next |-> "none", game |-> Nobody, i |-> 0, barred |-> {},
          added |-> {}, row |-> NewRow, rows |-> [s \in {1, 2} |-> NewClan],
          player |-> Nobody, read |-> {}, offset |-> 0, total |-> 0,
          clan |-> Nobody, page |-> NewClan]

At(t, next) == job[t].next = next

Finish(t) == job' = [job EXCEPT ![t] = NoJob]

Go(t, next) == job' = [job EXCEPT ![t].next = next]

lines(g) == Report[g].lines

\* The line a report's loop is at.
Current(t) == <<job[t].game, job[t].i>>

\* The loop over the players goes on with line i, or ends.
CallAt(g, i) == IF i \in DOMAIN lines(g) THEN "queryPlayer" ELSE "insertGameStat"

NextLine(j) == [j EXCEPT !.i = @ + 1, !.next = CallAt(j.game, j.i + 1), !.row = NewRow]

AfterInsert(g) == IF ClanGame(g) THEN "queryClans" ELSE "createLeaderboards"

(***************************************************************************)
(* requestUpdateGame.                                                      *)
(***************************************************************************)
UpdateGame(t) ==
  \E g \in Game \ sent :
    /\ job[t] = NoJob
    /\ sent' = sent \union {g}
    /\ job' = IF g \in Verified
              THEN [job EXCEPT ![t] = [NoJob EXCEPT !.op = "UpdateGame", !.game = g,
                                                   !.i = 1, !.next = CallAt(g, 1)]]
              ELSE job
    /\ UNCHANGED <<tables, late>>

\* GameStatPlayer::UpdatePlayerStats: the row is read.  A restricted player's
\* lines are marked, all of this report's.
QueryPlayer(t) ==
  /\ At(t, "queryPlayer")
  /\ LET p == pid(Current(t)) IN
     IF p \in restricted
     THEN job' = [job EXCEPT ![t] = NextLine([job[t] EXCEPT !.barred = @ \union {p}])]
     ELSE \E r \in Update(Load(stats[p]), Current(t), lineAt(Current(t))) :
            job' = [job EXCEPT ![t].row = r, ![t].next = "updatePlayerStats"]
  /\ UNCHANGED <<tables, sent, late>>

\* The player stays default-constructed: not restricted, all columns zero.
QueryPlayerFails(t) ==
  /\ At(t, "queryPlayer")
  /\ \E r \in Update(NewRow, Current(t), lineAt(Current(t))) :
       job' = [job EXCEPT ![t].row = r, ![t].next = "updatePlayerStats"]
  /\ UNCHANGED <<tables, sent, late>>

WritePlayer(t) ==
  /\ At(t, "updatePlayerStats")
  /\ stats' = [stats EXCEPT ![pid(Current(t))] = job[t].row]
  /\ job' = [job EXCEPT ![t] = NextLine([job[t] EXCEPT !.added = @ \union {Current(t)}])]
  /\ UNCHANGED <<restricted, games, log, disabled, clans, boards, sent, late>>

WritePlayerFails(t) ==
  /\ At(t, "updatePlayerStats")
  /\ job' = [job EXCEPT ![t] = NextLine(job[t])]
  /\ UNCHANGED <<tables, sent, late>>

KeysOf(g) == {k \in Key : k[1] = g}

\* insertGameStat: the game and its lines, with the marks.
InsertGame(t) ==
  /\ At(t, "insertGameStat")
  /\ LET g == job[t].game IN
     /\ games' = games \union {g}
     /\ log' = log \union KeysOf(g)
     /\ disabled' = disabled \union {k \in KeysOf(g) : pid(k) \in job[t].barred}
     /\ job' = [job EXCEPT ![t].next = AfterInsert(g), ![t].added = {}]
  /\ UNCHANGED <<restricted, stats, clans, boards, sent, late>>

\* The game's row, or the rows of some lines, do not get into the tables.
InsertGameFails(t) ==
  /\ At(t, "insertGameStat")
  /\ LET g == job[t].game IN
     /\ \/ UNCHANGED <<games, log, disabled>>
        \/ \E L \in SUBSET KeysOf(g) :
             /\ L # KeysOf(g)
             /\ games' = games \union {g}
             /\ log' = log \union L
             /\ disabled' = disabled \union {k \in L : pid(k) \in job[t].barred}
     /\ job' = [job EXCEPT ![t].next = AfterInsert(g), ![t].added = {}]
  /\ UNCHANGED <<restricted, stats, clans, boards, sent, late>>

RatedRows(g, rows) == [s \in {1, 2} |-> Rated(rows[s], g, s, rows[3 - s])]

QueryClans(t) ==
  /\ At(t, "queryClans")
  /\ job' = [job EXCEPT ![t].rows = RatedRows(job[t].game, queryClansByClanId(job[t].game)),
                        ![t].next = "updateClans"]
  /\ UNCHANGED <<tables, sent, late>>

QueryClansFails(t) ==
  /\ At(t, "queryClans")
  /\ job' = [job EXCEPT ![t].rows = RatedRows(job[t].game, [s \in {1, 2} |-> NewClan]),
                        ![t].next = "updateClans"]
  /\ UNCHANGED <<tables, sent, late>>

WriteClans(t) ==
  /\ At(t, "updateClans")
  /\ clans' = updateClans(job[t].game, job[t].rows)
  /\ Go(t, "createLeaderboards")
  /\ UNCHANGED <<restricted, stats, games, log, disabled, boards, sent, late>>

WriteClansFails(t) ==
  /\ At(t, "updateClans")
  /\ Go(t, "createLeaderboards")
  /\ UNCHANGED <<tables, sent, late>>

\* The clans' leaderboard is left as it was.
CreatePlayerLeaderboards(t) ==
  /\ At(t, "createLeaderboards")
  /\ boards' = [b \in Board |-> IF b = "clan" THEN boards[b] ELSE TableOf(b)]
  /\ late' = {}
  /\ Finish(t)
  /\ UNCHANGED <<restricted, stats, games, log, disabled, clans, sent>>

\* One procedure drops the table of each leaderboard and makes it anew.
CreateLeaderboards(t) ==
  /\ At(t, "createLeaderboards")
  /\ boards' = [b \in Board |-> TableOf(b)]
  /\ late' = {}
  /\ Finish(t)
  /\ UNCHANGED <<restricted, stats, games, log, disabled, clans, sent>>

\* What a running report has written and not yet put on the leaderboards.
Pending(t) ==
  IF job[t].op # "UpdateGame" THEN {}
  ELSE {<<"player", p>> : p \in {pid(k) : k \in {x \in KeysOf(job[t].game) : x[2] < job[t].i}}}
         \union {<<"clan", c>> : c \in {x \in Clan : At(t, "createLeaderboards")
                                                   /\ x \in {team(job[t].game, 1), team(job[t].game, 2)}}}

\* The procedure stops at the n-th table: those before are made for good, it may
\* be dropped already, those after are as they were.
CreateLeaderboardsFails(t) ==
  /\ At(t, "createLeaderboards")
  /\ \E n \in DOMAIN Boards :
       LET made == {Boards[i] : i \in 1 .. n - 1}
       IN  \E gone \in {{}, {Boards[n]}} :
             /\ boards' = [b \in Board |-> CASE b \in made -> TableOf(b)
                                             [] b \in gone -> NoTable
                                             [] OTHER -> boards[b]]
             /\ late' = (late \ (made \X Subject)) \union ((Board \ made) \X Pending(t))
                           \union (gone \X Subject)
  /\ Finish(t)
  /\ UNCHANGED <<restricted, stats, games, log, disabled, clans, sent>>

(***************************************************************************)
(* requestAPIAdminPlayerStatsRecalc.  Pages are of one row, the smallest,  *)
(* instead of 250; the rows come in any order.  The leaderboards are not   *)
(* made anew.                                                              *)
(***************************************************************************)
RowsOf(p) == {k \in log : pid(k) = p}

\* The sums start from the row as it is.
RecalcOnTop(t) ==
  \E p \in Player :
    /\ job[t] = NoJob
    /\ job' = [job EXCEPT ![t] = [NoJob EXCEPT !.op = "Recalc", !.next = "count",
                                  !.player = p, !.row = stats[p]]]
    /\ UNCHANGED <<tables, sent, late>>

Recalc(t) ==
  \E p \in Player :
    /\ job[t] = NoJob
    /\ job' = [job EXCEPT ![t] = [NoJob EXCEPT !.op = "Recalc", !.next = "count", !.player = p]]
    /\ UNCHANGED <<tables, sent, late>>

FirstPage(n) == IF n = 0 THEN "updateRecalc" ELSE "page"

RecalcCount(t) ==
  /\ At(t, "count")
  /\ LET n == Cardinality(RowsOf(job[t].player)) IN
     job' = [job EXCEPT ![t].total = n, ![t].next = FirstPage(n)]
  /\ UNCHANGED <<tables, sent, late>>

\* `total' has no initial value: it is whatever was on the stack.
RecalcCountFails(t) ==
  /\ At(t, "count")
  /\ \E n \in {0, Cardinality(Key)} :
       job' = [job EXCEPT ![t].total = n, ![t].next = FirstPage(n)]
  /\ UNCHANGED <<tables, sent, late>>

PageDone(j) ==
  [j EXCEPT !.offset = @ + 1,
            !.next = IF j.offset + 1 < j.total THEN "page" ELSE "updateRecalc"]

Unread(t) == RowsOf(job[t].player) \ job[t].read

RecalcPage(t) ==
  /\ At(t, "page")
  /\ \/ /\ Unread(t) = {}
        /\ job' = [job EXCEPT ![t] = PageDone(job[t])]
     \/ \E k \in Unread(t) :
          IF k \in disabled
          THEN job' = [job EXCEPT ![t] = PageDone([job[t] EXCEPT !.read = @ \union {k}])]
          ELSE \E r \in Update(job[t].row, k, lineAt(k)) :
                 job' = [job EXCEPT ![t] = PageDone([job[t] EXCEPT !.read = @ \union {k},
                                                              !.row = r])]
  /\ UNCHANGED <<tables, sent, late>>

RecalcPageFails(t) ==
  /\ At(t, "page")
  /\ job' = [job EXCEPT ![t] = PageDone(job[t])]
  /\ UNCHANGED <<tables, sent, late>>

RecalcWrite(t) ==
  /\ At(t, "updateRecalc")
  /\ stats' = [stats EXCEPT ![job[t].player] = job[t].row]
  /\ late' = late \union (Board \X {<<"player", job[t].player>>})
  /\ Finish(t)
  /\ UNCHANGED <<restricted, games, log, disabled, clans, boards, sent>>

RecalcWriteFails(t) ==
  /\ At(t, "updateRecalc")
  /\ Finish(t)
  /\ UNCHANGED <<tables, sent, late>>

(***************************************************************************)
(* requestUpdateClan, as far as these tables see it: the whole row is read *)
(* and later written, scores and counters included.                        *)
(***************************************************************************)
UpdateClan(t) ==
  \E c \in Clan, i \in Info :
    /\ job[t] = NoJob
    /\ job' = [job EXCEPT ![t] = [NoJob EXCEPT !.op = "UpdateClan", !.next = "updateClan",
                                  !.clan = c, !.page = [clans[c] EXCEPT !.info = i]]]
    /\ UNCHANGED <<tables, sent, late>>

\* The page is put on a default-constructed Clan, whose scores and counters are 0.
UpdateClanReadFails(t) ==
  \E c \in Clan, i \in Info :
    /\ job[t] = NoJob
    /\ job' = [job EXCEPT ![t] = [NoJob EXCEPT !.op = "UpdateClan", !.next = "updateClan",
                                  !.clan = c, !.page = [NewClan EXCEPT !.info = i]]]
    /\ UNCHANGED <<tables, sent, late>>

UpdateClanWrite(t) ==
  /\ At(t, "updateClan")
  /\ clans' = [clans EXCEPT ![job[t].clan] = job[t].page]
  /\ late' = late \union (Board \X {<<"clan", job[t].clan>>})
  /\ Finish(t)
  /\ UNCHANGED <<restricted, stats, games, log, disabled, boards, sent>>

UpdateClanWriteFails(t) ==
  /\ At(t, "updateClan")
  /\ Finish(t)
  /\ UNCHANGED <<tables, sent, late>>

\* The administrator sets the column by hand.
RestrictPlayer ==
  \E p \in Player \ restricted :
    /\ restricted' = restricted \union {p}
    /\ UNCHANGED <<stats, games, log, disabled, clans, boards, sent, job, late>>

Crash ==
  /\ \E t \in Thread : job[t] # NoJob
  /\ job' = [t \in Thread |-> NoJob]
  /\ late' = late \union (Board \X UNION {Pending(t) : t \in Thread})
  /\ UNCHANGED <<tables, sent>>

-----------------------------------------------------------------------------
(***************************************************************************)
(* History: how two threads get in each other's way, and in which row.     *)
(***************************************************************************)
\* t has read p's row and not yet written it.
Updating(t, p) == At(t, "updatePlayerStats") /\ pid(Current(t)) = p

\* t's report has handled a line of p and is not in the log yet.
Reporting(t, p) ==
  \/ Updating(t, p)
  \/ /\ job[t].next \in {"queryPlayer", "updatePlayerStats", "insertGameStat"}
     /\ \E k \in KeysOf(job[t].game) : k[2] < job[t].i /\ pid(k) = p

Recalculating(t, p) ==
  job[t].next \in {"page", "updateRecalc"} /\ job[t].player = p

\* t has read c's row and not yet written it.
Holding(t, c) ==
  \/ At(t, "updateClans") /\ c \in {team(job[t].game, 1), team(job[t].game, 2)}
  \/ At(t, "updateClan") /\ job[t].clan = c

PlayerRaces ==
  {p \in Player :
     \/ \E t, u \in Thread : t # u /\ Updating(t, p) /\ Updating(u, p)
     \/ \E t, u \in Thread : Recalculating(t, p) /\ Reporting(u, p)
     \* restricted in the middle of a report that has two lines of p
     \/ \E t \in Thread : p \in job[t].barred /\ \E k \in job[t].added : pid(k) = p}

ClanRaces ==
  {c \in Clan :
     \/ \E t, u \in Thread : t # u /\ Holding(t, c) /\ Holding(u, c)
     \* a clan that plays itself
     \/ \E t \in Thread : At(t, "updateClans") /\ {team(job[t].game, 1), team(job[t].game, 2)} = {c}}

Races == ({"player"} \X PlayerRaces) \union ({"clan"} \X ClanRaces)

\* The rows that are wrong when t's next call fails.
Concerned(t) ==
  CASE job[t].next \in {"queryPlayer", "updatePlayerStats"} -> {<<"player", pid(Current(t))>>}
    [] At(t, "insertGameStat") ->
         {<<"player", pid(k)>> : k \in KeysOf(job[t].game)}
           \union {<<"clan", c>> : c \in Clan \intersect {team(job[t].game, 1), team(job[t].game, 2)}}
    [] job[t].next \in {"queryClans", "updateClans"} ->
         {<<"clan", team(job[t].game, 1)>>, <<"clan", team(job[t].game, 2)>>}
    [] job[t].next \in {"count", "page"} -> {<<"player", job[t].player>>}
    [] OTHER -> {}

\* The rows that are half-way when t dies.
Interrupted(t) ==
  {<<"player", pid(k)>> : k \in job[t].added}
    \union (IF job[t].next \in {"queryClans", "updateClans"} THEN Concerned(t) ELSE {})

Step(t) ==
  \/ UpdateGame(t) \/ QueryPlayer(t) \/ WritePlayer(t) \/ InsertGame(t)
  \/ QueryClans(t) \/ WriteClans(t) \/ CreateLeaderboards(t)
  \/ Recalc(t) \/ RecalcCount(t) \/ RecalcPage(t) \/ RecalcWrite(t)
  \/ UpdateClan(t) \/ UpdateClanWrite(t)

Failure(t) ==
  \/ QueryPlayerFails(t) \/ WritePlayerFails(t) \/ InsertGameFails(t)
  \/ QueryClansFails(t) \/ WriteClansFails(t) \/ CreateLeaderboardsFails(t)
  \/ RecalcCountFails(t) \/ RecalcPageFails(t) \/ RecalcWriteFails(t)
  \/ UpdateClanWriteFails(t)

Init ==
  /\ restricted = {}
  /\ stats = [p \in Player |-> NewRow]
  /\ games = {}
  /\ log = {}
  /\ disabled = {}
  /\ clans = [c \in Clan |-> NewClan]
  /\ boards = [b \in Board |-> TableOf(b)]
  /\ sent = {}
  /\ job = [t \in Thread |-> NoJob]
  /\ noted = {}
  /\ late = {}

Next ==
  \/ /\ RestrictPlayer \/ \E t \in Thread : Step(t)
     /\ noted' = noted \union Races'
  \/ /\ MayFail
     /\ \E t \in Thread :
          \/ Failure(t) /\ noted' = noted \union Races' \union Concerned(t)
          \/ /\ UpdateClanReadFails(t)
             /\ noted' = noted \union Races' \union {<<"clan", job'[t].clan>>}
  \/ /\ Crash
     /\ noted' = noted \union UNION {Interrupted(t) : t \in Thread}

Spec == Init /\ [][Next]_vars

-----------------------------------------------------------------------------
(***************************************************************************)
(* Properties.                                                             *)
(***************************************************************************)
\* Types; a rank is one of the twenty, a log row belongs to a game that was sent.
TypeOK ==
  /\ restricted \subseteq Player
  /\ stats \in [Player -> Row]
  /\ games \subseteq sent /\ sent \subseteq Game
  /\ log \subseteq Key /\ disabled \subseteq log
  /\ clans \in [Clan -> ClanRow]
  /\ DOMAIN boards = Board
  /\ \A b \in Board \ {"clan"} : boards[b] \in [Player -> Row] \union {NoTable}
  /\ boards["clan"] \in [Clan -> ClanRow] \union {NoTable}
  /\ job \in [Thread -> Job]
  /\ noted \subseteq Subject /\ late \subseteq Board \X Subject

InFlight(k) == \E t \in Thread : k \in job[t].added

\* A player's statistics are the sum of the enabled lines of the log, each
\* once, plus the lines of a report that is still to be logged: whatever other
\* players' and clans' reports, restrictions and recalculations come in between.
StatsMatchLog ==
  \A p \in Player : <<"player", p>> \notin noted =>
    \A k \in Key :
      stats[p].games[k] =
        IF pid(k) = p /\ (k \in log \ disabled \/ InFlight(k)) THEN 1 ELSE 0

OnRecord(c, x) == x \in clans[c].wins \union clans[c].losses \union clans[c].draws

\* A clan's record holds the result of each logged clan game, unless its report
\* has not come to the clans yet; results survive updates of the clan's page.
ClanRecordMatchesLog ==
  \A g \in Game, s \in {1, 2} :
    (/\ team(g, s) \in Clan /\ victory(g, s) \in Lost .. Draw
     /\ <<"clan", team(g, s)>> \notin noted)
      => (OnRecord(team(g, s), <<g, s>>) <=>
            /\ g \in games /\ ClanGame(g)
            /\ ~ \E t \in Thread :
                   job[t].game = g /\ job[t].next \in {"queryClans", "updateClans"})

\* Rows b need not show as they are.
Unshown(b) == {x \in Subject : <<b, x>> \in late} \union UNION {Pending(t) : t \in Thread}

\* Each leaderboard shows every row as it is, except what a running report will
\* put there and what a recalculation, a page update, a crash or a procedure
\* that did not come to this leaderboard has left to the next report; a
\* leaderboard whose table the procedure dropped and did not make shows none.
BoardsFresh ==
  /\ \A b \in Board \ {"clan"}, p \in Player :
       <<"player", p>> \notin Unshown(b) =>
         p \in DOMAIN boards[b] /\ boards[b][p] = stats[p]
  /\ \A c \in Clan :
       <<"clan", c>> \notin Unshown("clan") =>
         c \in DOMAIN boards["clan"] /\ boards["clan"][c] = clans[c]

\* The rank of a row is the one its score, points per hour and medals earn,
\* although each setter ranks with what has been set so far.
RankMatches == \A p \in Player : stats[p].ran = calcRank(stats[p])

\* A game with a negative score, or one of more than five hours, is outside of
\* what the conversion to an unsigned word is defined for.
Sane(k) ==
  /\ lineAt(k).time \in 1 .. 5 * Hour
  /\ lineAt(k).score >= 0 \/ lineAt(k).score = NameChange

\* Points in an hour, rounded up.
Rate(k) == Quotient(lineAt(k).score * Hour, lineAt(k).time) + 1

\* An average is never above the best game: points per hour stay below the best
\* rate among the games of the row, as long as these are sane.
PointsPerHourBounded ==
  \A p \in Player :
    LET taken == {k \in Key : stats[p].games[k] > 0}
    IN  (\A k \in taken : Sane(k)) =>
          stats[p].pph = 0 \/ \E k \in taken : stats[p].pph <= 100 * Rate(k)

\* No report takes medals from a player; only a spoiled row has lost some.
MedalsNeverDrop ==
  [][\A p \in Player :
       Cardinality(stats'[p].medals) >= Cardinality(stats[p].medals)
         \/ <<"player", p>> \in noted']_vars

Settled(g) == OnRecord(team(g, 1), <<g, 1>>)

Decided(g) == {victory(g, 1), victory(g, 2)} \in {{Lost, Major}, {Lost, Minor}}

\* A decided clan game moves points from one clan to the other: together they
\* gain none, and lose at most one to rounding, unless the loser is left with
\* no points.
PointsChangeHands ==
  [][\A g \in Game :
       (/\ ClanGame(g) /\ Decided(g)
        /\ ~ Settled(g) /\ Settled(g)'
        /\ \A s \in {1, 2} : <<"clan", team(g, s)>> \notin noted')
         => LET before == clans[team(g, 1)].score + clans[team(g, 2)].score
                after  == clans'[team(g, 1)].score + clans'[team(g, 2)].score
            IN  after - before \in {-1, 0} \/ \E s \in {1, 2} : clans'[team(g, s)].score = 0]_vars

\* A clan's page changes only by the update of its own clan, to what the update
\* said: reports of games write the page back as they found it.
ReportsKeepThePage ==
  [][\A c \in Clan :
       clans'[c].info # clans[c].info =>
         \/ <<"clan", c>> \in noted'
         \/ \E t \in Thread :
              job[t].clan = c /\ At(t, "updateClan") /\ clans'[c].info = job[t].page.info]_vars

(***************************************************************************)
(* Ledger, implemented: players' rows by the lines they count, clans' rows *)
(* by their results, each with the column it is in.                        *)
(***************************************************************************)
Posted(row) ==
  (row.wins \X {"wins"}) \union (row.losses \X {"losses"}) \union (row.draws \X {"draws"})

Verdict(v) ==
  CASE v \in {Major, Minor} -> {"wins"}
    [] v = Lost -> {"losses"}
    [] v = Draw -> {"draws"}
    [] OTHER -> {}

ResultsOf(g, c) ==
  UNION {{<<g, s>>} \X Verdict(victory(g, s)) : s \in {x \in {1, 2} : ClanGame(g) /\ team(g, x) = c}}

Ledger == INSTANCE Ledger WITH
  Accounts <- [b \in Board |-> IF b = "clan" THEN "clan" ELSE "player"],
  Line    <- Key,
  Lines   <- [g \in Game |-> KeysOf(g)],
  Owner   <- [k \in Key |-> pid(k)],
  Results <- [g \in Game |-> [c \in Clan |-> ResultsOf(g, c)]],
  tally   <- [p \in Player |-> stats[p].games],
  record  <- [c \in Clan |-> Posted(clans[c])],
  book    <- games,
  struck  <- disabled,
  shown   <- [b \in Board |->
                [x \in DOMAIN boards[b] |->
                   IF b = "clan" THEN Posted(boards[b][x]) ELSE boards[b][x].games]],
  spoiled <- noted

\* Every call of every handler, failed or not, and a crash at any moment, is a
\* step of the ledger on the rows that are not spoiled: a report counts a line
\* before its game is logged or has it disabled, both clans get their results
\* in the columns the victory says and together, neither a recalculation nor an
\* update of a clan's page adds to a row or takes from it, and each leaderboard
\* shows the rows of one moment, or is dropped.
KeepsLedger == Ledger!Spec

=============================================================================
