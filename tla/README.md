# BF2MC-Matchmaker in TLA+

The matchmaker is one C++ process that stands in for the GameSpy services of
Battlefield 2: Modern Combat: it keeps accounts, the presence of players and
their friends, the list of game servers, the statistics of finished games and
the clans. This directory holds TLA+ models of it, the TLC configurations that
check them on small instances, and proofs of the main theorems for TLAPS. Paths
below are relative to the repository; `src/gpcm/client.cpp` is short for
`src/src/gpcm/client.cpp`.

`PROJECT.json` lists, in a form a program can read, the components, the runs,
the source lines every definition stands for, one mutant of the code per
property, the findings, the hazards and the theorems.

## 1. The system

### How it is put together

`main.cpp` connects to the database and starts one detached thread per server.
Every TCP connection gets a detached thread of its own that runs
`Client::Listen()` and handles one request after another. State is shared in
three ways:

* **The database.** One `Database` object, one mutex. Each method takes it for
  its whole body, so a method is atomic. A handler calls several methods, with no
  transaction around them, and mostly ignores what they return.
* **The list of clients** of a `Server`. Its mutex covers `GetClients` (a copy of
  the vector) and `onClientDisconnect` (one removal), nothing in between.
* **The session** inside each `GPCM::Client`. It is written by the client's own
  thread and by whoever disconnects the client, and read by every thread that
  looks a profile up; no lock protects it.

### Inventory

| Component | State it keeps | Operations | What is hard about it | What makes it correct |
|---|---|---|---|---|
| Clan service (`webserver/request/clan.cpp`, `database/clan*.cpp`, `battlefield/clan.cpp`) | tables `Clans`, `ClanRanks` | create, update, disband, change rank, add and delete member, and queries | look-up and write are separate calls; multi-call writes; crashes | one leader, one clan per player, no members of a closed clan, unique names and tags |
| Presence server GPCM (`gpcm/`) | sessions, `_sync_friends`, table `PlayerFriends` | login, status, friends, synchronization, messages, logout, heartbeat | several agents disconnect one client; logins overlap; silent peers | one session per profile, list and sockets agree, nobody sees ghosts, dead clients leave |
| `Server`, `Net::Socket` (`server.cpp`, `net/`) | list of clients, file descriptors | listen, accept, read, send, close, disconnect all | erase while others walk a copy; `send` blocks; `SIGPIPE` | every client on the list is reachable and every reachable client is on the list |
| Webserver (`webserver/client.cpp`) | none beyond a connection | HTTP parsing, dispatch, authtoken to player | one thread per connection | dispatches to the handlers above |
| Admin API (`webserver/request/api_admin.cpp`) | none of its own | list clients, kick, message, recalculate statistics | acts on other servers' clients from a thread of its own | a kicked player is gone |
| Accounts, GPSP (`gpsp/`, `database/player.cpp`) | table `Players` | nicks, check, new user, search | look-up and insert are four calls apart; `MAX(userid)+1` | a unique nick, one statistics row per player |
| Query and reporting, QR (`qr/`, `database/game_server.cpp`) | tables `GameServers`, `GameServerPlayers` | available, heartbeat, keep-alive | datagrams are lost, duplicated, reordered; read, merge, write | a server's row is what its last heartbeat said |
| Server browser (`browsing/`) | a connection's cipher | server list, server info | several requests in one read; filters | the servers that pass the filter, all of them; no request is lost |
| Game statistics (`gamestats/`, `battlefield/gamestat.cpp`, `playerstats.cpp`) | tables `GameStats`, `PlayerStats`, scores in `Clans` | authenticate, update game | read, add, write per player and per clan; arithmetic | no finished game is lost or counted twice |
| Leaderboards (`database/leaderboard_*.cpp`) | copies of the statistics, made by the database | make anew, queries | made by one writer of several; some pages read the copies, some the rows | they show the rows as they are, in one order on every page, and pages leave no row out |
| Process (`main.cpp`, `settings.h`) | the service, settings | start, signal handler, shutdown | the handler takes locks a thread may hold | shutdown ends |
| Logger, file cache, cipher, text protocol, DNS, websocket | buffers | - | I/O, or not started by `main.cpp` | - |

Interactions: the clan handlers and the game statistics write the same rows of
`Clans`; the clan handlers and the admin API send buddy messages through GPCM;
the admin API disconnects GPCM clients; GameStats ends games of servers QR
registered; the browser reads what QR wrote; every component authenticates
against `Players`.

The hazards this code is exposed to, each at its line, are in `PROJECT.json`
under `hazards`, with the property that covers each one or the reason why none
does.

## 2. What is modelled

### `Clans` - the clan service

* **State.** `clans` and `ranks` are the two tables. `job[w]` is the stack frame of
  the handler that web server thread `w` runs: which request, which database
  call comes next, and the local variables later calls use. `noted` is history.
* **Actions.** One per database call: `AddMember` is `requestAddMember` up to and
  including `_GetSessionPlayerAndClan`, `AddMemberRanks` its
  `queryClanRanksByClanId`, and so on to `AddMemberInsert`. Handlers of other
  threads, and `Crash`, come in between. A query whose answer depends on which
  row the database returns first is a nondeterministic choice among the rows.
* **Details kept.** The rank in a request is narrowed to eight bits before it is
  compared, so 256 spells Leader. `requestUpdateClan` looks the new tag up with a
  default-constructed `Clan`, whose name is the empty string.
  `requestAddMember` takes any row of the target away, a leader's too.
* **Calls that fail.** Every method of `Database` returns whether it worked and every handler
  ignores it. A query that fails leaves the local object default-constructed, a write
  leaves the table as it was, and the handler goes on: `CreateClanUnknown` and
  `CreateClanCheckFails`, `UpdateClanReadFails` and `UpdateClanCheckFails`, `DisbandClearFails`,
  `ChangeRankDemoteFails`, `AddMemberTargetFails` and `DeleteMemberRanksFails` are those after which
  something is still written, `LastCallFails` the others.
* **Left out.** Homepage, info, region, the score columns; requests that only
  read; answers and buddy messages (sent after the last database call).

`ClanRules` is the abstract specification: players have a place (clan and rank),
clans are opened, founded, joined, left, dissolved and closed, each in one step,
and the guards of the steps are the promises: a leader only where there is none,
a clan closes empty, nobody is in two clans. `Clans` maps its tables to it (`placeOf`
from a player's row, `open` and `closed` from `disable`) and states as `FollowsTheRules` that each
call is one of its steps or none, up to the first entry in `noted`.

Why a history variable: the handlers do not lock and do not look at results, so every one of
the safety properties can be broken by two requests that overlap in one specific way, or by a
single request one call of which fails. `noted` records which of these have happened and to
what:

| Entry | Two handlers that overlap (`Races`) | One call that fails |
|---|---|---|
| `"rank"`, a clan | two rank changes in the clan | the demotion of its leader (`clan.cpp:415`): the next call makes a second one |
| `"close"`, a clan | its disband and an admission to it | the removal of its members (`:329`): the clan is disabled around them |
| `"enrol"`, a player | two handlers that give the player a clan | the look-up of the player's clan, the requester's or the target's, or the removal of the old row (`:498`): a second row is inserted |
| `"name"`, a name or tag | two handlers that write it | the look-up for it (`:202`, `:269`): it passes as free |

The properties say that nothing *else* breaks the tables: no other overlap, no other call
that fails, no crash, no order of calls, no sequence of requests.

### `Gpcm` - the presence server

* **State.** `listed` is `_clients`; `fd` a client's `_socket`; `peer` the other end
  of the connection; `profile`, `status`, `sync` the session; `rows` the
  table `PlayerFriends` (the number of rows of a pair, in either orientation);
  `view[c][q]` what connection `c` was last told of profile `q`; `job[a]` the stack
  of agent `a`; `noted` is history.
* **Agents.** The thread of each connection, the heartbeat, and the web server
  thread that serves an admin's kick.
* **Actions.** One per access to shared state. `Client::Disconnect()` is the chain
  `Disconnect` (status becomes Offline), `SendNewStatus` (query the friends),
  `SendBuddyMessage` and `Send` for each friend that is found, `Close`,
  `onClientDisconnect` (erase from the list), and any agent may run it on
  any session at any time. `requestLogin` is `Login` (copy the list),
  `Match`/`Skip` for each entry, `LoginProfile`, `LoginStatus`, `LoginFriends`,
  then `_SyncFriends` as `SyncFind` and `SyncSend`.
* **A closed client goes on.** When another thread closes its socket, a thread may
  still be in the middle of a batch of requests, or inside `read()`, which returns
  data that has already arrived. The model lets it take further requests until it
  notices the end; nothing sent to it arrives any more. When it does notice, it
  runs `Disconnect()` once more.
* **The network.** `Lose` is a peer that goes silent without a word. Data sent to it
  stays unacknowledged (`owing`) and TCP gives up (`TimeOut`), after which
  `read()` fails. This part, and what a client does, is the environment.
* **Queries that fail.** Their results are ignored as well. `SendNewStatusFails` tells nobody
  the new status (`gpcm/client.cpp:741`), `AuthAddCheckFails` takes the target for a stranger
  (`:550`), `LoginFriendsFails` sends and synchronizes an empty list, `DeleteBuddyCheckFails` finds no
  friend to remove, and `FriendWriteFails` leaves the table as it was.
* **Left out.** Passwords and authtokens, the chat log, messages a handler only
  passes on, the wording of a status (Online, Resting and Playing are
  one), the tearing of a `std::string` that two threads use at once, and send
  buffers: `send()` never blocks and never raises `SIGPIPE`.

As in `Clans`, the history variable `noted` names the overlaps that can break a
property: two logins for one profile at once, two messages about one friend on
their way to one connection at once, two acceptances of one friendship at once; the
failures that can, a thread that ends its connection and does not find whom to tell
(`"untold"`) and a look-up that overlooks a friendship (`"insert"`, as the second acceptance
does); and two changes a property has to know of, a friendship that is newer than the
session and a login over another profile.

`Sessions` is the abstract specification of what the connections are promised, as if finding
a session, telling its friends, closing its socket and erasing it were nobody's business. A
socket is `Shut` only for a reason: its peer is gone, its thread has ended its input, or
somebody hunts the profile it holds. A hunt begins with `Seek`, which fixes the sessions that
are due, and is over (`GiveUp` of a kick, `Assume` of a login) only when each of them has left
the list or has taken another profile since. A login takes its profile only then, and only if nobody else on the
list has it, unless two logins have hunted it at once. Nothing else gives, moves or takes
a profile. `Gpcm` maps the profile a login or a kick compares with to the hunt (`Wanted`), the
matching entries still in its copy of the list and the client it is disconnecting to what is due
(`Due`), dead peers, threads at their end and unknown requests to `Ending`, `noted` to
`Raced`, and states the refinement as `KeepsSessions`. As with `Ledger`, it holds of every
behaviour, not only up to the first race.

### `Accounts` - registration and login

* **State.** `players` is table `Players` (a profile id is the place in the order of
  insertion), `stats` the profile ids with a row in `PlayerStats`, `job[t]` the
  handler of a connection's thread. `told` and `noted` are history: the answers
  sent, and what overlaps, failures and crashes have spoiled.
* **Actions.** `requestNewUser` of GPSP is four calls: `NewUser` (look for email and
  nick, refuse or choose), `NewUserID` (the greatest user id plus one),
  `InsertPlayer` and `InsertPlayerStats`, which answers. `requestLogin` of
  GPCM is, on this table, `Login` (look-up and password) and `LastLogin` (the stamp).
  `Bar` is the administrator's hand in the table. Each call may also fail;
  results are ignored, so the handler goes on with what its objects hold.
* **Texts** are abstract. What the code and the columns do to them are functions:
  `Strip` takes the tag of a clan off a nick, `Cut` shortens a nick to its column,
  `Filed` lower-cases and shortens an email, `Fold` is what a comparison in
  SQL sees of a nick.
* **Left out.** The nick next to the unique one, refusals of a short nick, the requests
  that only read.

### `PlayerStats`, `GameStats` - the end of a game

* **State.** The tables `stats`, `games`, `log` (a row per line of a game), `disabled`
  (lines that do not count), `clans`, `boards` (the leaderboards), the column
  `restricted`; `job[t]` is a stack frame. `noted` (rows that are spoiled) and
  `late` (rows somebody other than a report has written since the leaderboards were
  made, leaderboard by leaderboard) are history.
* **Actions.** A report of a game is `UpdateGame`, then for each line `QueryPlayer` and
  `WritePlayer`, then `InsertGame`, for two clans `QueryClans` and `WriteClans`, and
  `CreateLeaderboards`. The admin's recalculation is `Recalc`, `RecalcCount`,
  `RecalcPage` per page and `RecalcWrite`. `UpdateClan` and `UpdateClanWrite` are the
  clan handler of `Clans`, here as the writer of whole rows with score and
  counters. Every call has an action in which it fails; after `UpdateClanReadFails` the page
  is written with the scores and counters of a default-constructed `Clan`.
* **Leaderboards one by one.** `boards[b]` is what the table of leaderboard `b` shows. The stored
  procedure drops each and makes it anew, and each statement commits by itself, so
  `CreateLeaderboardsFails` stops at any of them: those before are new, those after as they
  were, and that one may be gone (`NoTable`). `late` says of each which rows are behind, all
  of them when its table is gone.
* **`PlayerStats`** holds the arithmetic: the setters that rank with what has been set so
  far, the rank, the points per hour with their clamp, integer division and
  conversion to an unsigned word, and medals.
* **One column for many.** `games[k]`, how often line `k` has been added to a row,
  stands for the twenty-odd columns that are plain sums over the lines; `wins`,
  `losses` and `draws` of a clan hold the sides they have counted. What the sums
  are is then a matter of which lines are in them, which is what can go wrong.
* **Abstractions of numbers.** The curve of the Elo step is replaced by the straight line
  through its middle, in thousandths; a page of the recalculation has one row
  instead of 250, so that the fewest games fill several pages.
* **Left out.** The authentication of a game server (its answers are constants),
  columns nobody computes with, lines of unknown players or clans (they
  change no row), `eventGameEnded`.

`Ledger` is the abstract specification: the row of a player is an account that tallies
lines, the row of a clan one that collects results. `Count` enters a line in its player's
account, at most once and only before its game is in the book; `Enter` books a game and
strikes, for good, the lines of it that have not been counted by then; `Settle` posts the
results of a booked game to both clans in one step, and none that is there already; `Publish` copies
the accounts to the leaderboards, to all of them or to some, and may take one of the others
down; nothing else changes an account. There are no threads,
no recalculation, no page of a clan, no failures and no crash in it. `GameStats` maps
`games` of a row to the tally, the three columns of a clan to its results, each with the
column it is in (`Posted`; `ResultsOf` says which column the victory of a side asks for),
`disabled` to what is struck and `boards` to what is published, and states the refinement
as `KeepsLedger`. Spoiled rows are mapped too, but of them `Ledger` promises nothing, so
the refinement holds of every behaviour, not only up to its first race.

### `Leaderboards` - the pages of the website

* **State.** None of its own: it extends `GameStats` and reads `boards` and `stats`.
* **Boards.** `RowNumbers` is the set of orders the database may number rows in (equal rows
  in any). `CreateLeaderboardRank`, `CreateLeaderboardType`, `CreateLeaderboardRatio` and
  `CreateLeaderboardClan` are the tables the stored procedures fill from the copies.
* **Queries.** One operator for each of the eleven: a page by limit and offset, the page
  around a player or clan, the page of a player's friends. `requestStats`,
  `requestLeaderboard`, `requestAPILeaderboard` and `requestAPILeaderboardClan` are the
  requests that choose among them, with their conversions of `startrank`, `offset`
  and `limit`.
* **One board of each kind.** There are twenty; all but that by rank are sorted by one column
  or by a ratio of two, and one of each is kept, with `Kills` and `Deaths` of the
  lines as constants. A failed query is an empty page and is left out; a query of a
  leaderboard whose table is gone fails.

### `Browsing`, `GameServers` - the servers of a list

* **State.** The tables `servers` and `players`; `qr`, the handler of the one thread that
  serves all datagrams; `web`, the handler of one request for the live page;
  the browser's connection (`asked`, `inbox`, `heard`, `listens`, `cut`). `stored`,
  `carried`, `noted` and `moved` are history: which heartbeat was written last,
  which one wrote which column, and what failures and later writes excuse.
* **Datagrams.** UDP may lose, repeat and reorder them. A server's heartbeats are
  numbered in `Say` and `Playing`, and any of them may come at any time, any
  number of times: no order and no number is assumed or known to the code.
* **Actions.** `Heartbeat` is the query and the merge, key by key, with what the datagram
  says; `InsertServer` or `UpdateServer` is the write. `Verify` is the
  administrator's. The live page reads the rows (`ServersLive`) and then each server's
  players (`ServerPlayers`), in calls of their own. `Ask` puts a request on the
  browser's connection and `ReadBuffer(n)` is one `read()` that returns `n` bytes.
  `TakesGames(i)` is what the game statistics read of these rows when a report comes
  from IP address `i`: the query puts verified rows first, and the report is refused
  if there is none or if the first is not verified.
* **Widths.** A number of a heartbeat is cut to the width of its column; one that cannot
  be read leaves the old value. A query puts the column of `fraglimit` into
  `teamfraglimit`, as the code does.
* **`Browsing`** holds the framing of requests, the filter, clause by clause, and the loop
  that leaves out unverified servers (`OnlyVerified`) as recursive functions.
* **Filters.** `IsFilter` says which ones are modelled: those made of the clauses the code has
  an expression for. The comment at `browsing/client.cpp:157-196` lists, as sent by the game's menus,
  more clauses than that (`numplayers!=maxplayers`, and those on `nr`, `xr`, `mc` and `gc`); no
  expression looks for these, they remove no server, and no filter here has them. The code
  cuts a number of a clause to a byte, and has one expression for `rc` and
  `teamplay` joined by "or"; a filter with that clause next to one of the two alone, or
  with a number above 255, asks for something else than it says, and is not one of them.
* **Left out.** The requests that are echoed, the answers, the time of a row's last update,
  the encoding and the cipher of an answer.

`Clans`, `Accounts`, `GameStats` and `GameServers` let the process crash between any two calls of the database: the tables
stay, every handler is gone.

## 3. What TLC checks

| Run | Instance | Question |
|---|---|---|
| `clans_overlap` | 2 players, 2 clans, 2 names, 2 tags, 2 threads, ranks 2, 3, 256 | Which overlaps, failing calls and crashes break the tables? `AtMostOneLeader`, `OneMembership`, `MembersOfEnabledClans`, `UniqueNamesAndTags`. Does every database call follow `ClanRules` until then? `FollowsTheRules` |
| `clans_leader` | the same, 1 thread | Violated: "Leader can only disband clan." |
| `clans_tags` | the same, 1 thread, empty names | Violated: a new tag is unused or the clan's own |
| `gpcm_sessions` | 3 connections, 2 profiles; logins, unknown requests, kicks | Take-over of sessions: `OneSession`. Is every step of the agents that disconnect and log in one of `Sessions`? `KeepsSessions` |
| `gpcm_presence` | 2 connections, 2 friends; logins, status, unknown requests, kicks, failing queries | Several agents disconnect one client, and what its friends see: `NoGhosts` |
| `gpcm_friends` | 2 connections, 2 strangers; all friend requests, failing queries | `OneRowPerFriend` |
| `gpcm_silence` | 2 connections, 1 profile; silence, heartbeat, time-outs | Who disconnects a silent client: `ListMatchesSockets`, and `SilentClientsLeave`, a liveness property |
| `gpcm_old_session` | 2 connections, 1 profile | Violated: "Disconnect old session" leaves one session |
| `gpcm_idle` | 1 connection, 1 profile; silence, heartbeat, time-outs | Violated: the heartbeat closes connections that send nothing. `IdleClientsLeave` |
| `accounts` | 2 threads, one nick in three spellings and one too long, 2 emails, a digest used as password | Registrations and logins that overlap, fail and die: `UniqueNicksDiffer`, `UserIdsDiffer`, `StatsForEveryPlayer`, `AnswersAreTrue`, `LastLoginIsOwn` |
| `game_stats` | 2 players, 2 clans, 3 games (two of clans, one without lines), 2 threads | What reports, recalculations, page updates, failing calls and crashes leave in the tables: `StatsMatchLog`, `ClanRecordMatchesLog`, `BoardsFresh`, `RankMatches`, `PointsPerHourBounded`, `MedalsNeverDrop`, `PointsChangeHands`, `ReportsKeepThePage`; that each call is a step of `Ledger`, `KeepsLedger`; and what the pages of the leaderboards show of it: `OneRanking`, `PagesShowTheBoard` |
| `game_servers` | 2 servers behind one IP address, 2 heartbeats each, 5 filters, 3 requests of a browser | Rows under lost, repeated and reordered heartbeats, and what is read of them meanwhile: `ClansOfLatest`, `ColumnsKeepTheLatest`, `PlayersOfLatest`, `VerifiedStays`, `GamesTakenByHand`, `LiveAnswerWhole`, `ListedAsAsked`, `NothingAskedIsLost` |

Every module's `TypeOK` is checked once, in one of its runs.

`KeepsSessions` and the properties of the last three runs, in words:

* *The sessions are kept*: each step of a login, a kick, the heartbeat and of `Disconnect()` is one
  step of `Sessions` or none. `OneSession` says of a state who may share a profile; this says how
  it came about: nobody is thrown out without a reason, and neither a login nor a kick counts
  a session as gone that still is on the list, whoever else disconnects it at the same time
  and however old the copy of the list is.
* *A nick has one player* unless two registrations of it overlapped, the look-up of one
  failed, or it is what a longer nick was cut to. *A user id is shared* only by
  players registered with the email or the nick of an earlier player and that player's
  stored digest, or after an overlap or a failed query. *Every
  player has statistics*, but those whose registration is under way, failed or died.
* *The statistics of a player are the sum of the enabled lines of the log*, each once,
  and of those a running report has added but not logged. This is the ledger the
  four-step report and the recalculation must agree on; a row is spoiled by two
  reports that hold it at once, a recalculation during a report, a restriction in the
  middle of a report with two lines of the player, a failure or a crash. *A clan's
  record* is likewise that of its logged games.
* *The ledger is kept*: each call is one step on the accounts or none. This joins what the
  two statements above say of a state to how it comes about: nothing that is counted is
  ever taken back, a line of a logged game is not counted later, and no state between two
  calls shows the results of a game in one clan only.
* *The leaderboards are fresh*, each of them, but for what a running report will refresh and
  for what a recalculation, a page update, a crash or a procedure that did not come to
  this leaderboard has left to the next report. One whose table was dropped and not made
  again shows nobody until then.
* *No medals are lost*, but from a row that is spoiled, by a failed call for instance.
* *Pages of one ranking agree* whenever boards are made: the friends' page, read from the
  living rows by a query with its own order and its own filter, is the board the API
  shows, page by page of a hundred, without the others, unless a report is about to bring one of their rows; a
  player on the board is on the page around it, at the same rank. On a board of any
  length up to 30 the page around a row is ten ranks in a row with that one among the
  first five, fewer only at the end of the board; and pages in sequence, by offset or
  by first rank, show every row once.
* *Points change hands*: in a decided game between two clans whose rows are not spoiled, the
  two together gain nothing and lose at most one point to rounding, unless one is left with
  none. Nothing is said of draws.
* *Points per hour* are never above the best game. This needs games of at most five hours
  and scores that are not negative: outside of that the code subtracts more time
  than there is, or converts a negative number to an unsigned one, and nothing is claimed.
* *A server's columns* hold what the last heartbeat that named them said, its clans what
  the last heartbeat said, its players those of that heartbeat; a heartbeat
  never undoes a verification, although it writes a row it has read before.
* *Games are taken by hand*: once reports from an IP address are accepted they go on being
  accepted, whatever servers appear behind that address and whatever heartbeats do; and
  nothing makes them accepted but a verification of a row of that address. This is about
  the order of the query, the default of a new row and the columns a heartbeat
  writes at once.
* *A browser is shown* exactly the verified servers for which each clause of its filter
  holds, stated clause by clause and position by position, without the code's loops (`Holds`,
  `IsSelection`); and *what it asks
  is heard*, once and in order, as long as no read ends inside of a request.

### Bounds, and why they are enough

* *Two threads* in the clan runs and *two or three connections* in the presence
  runs: every race the code has is between two agents. Three connections are
  needed where two agents act on a third (two logins that sweep one old
  session). In `gpcm_presence` the third agent is the admin, in `gpcm_silence` the
  heartbeat, and the theorems of section 4 are about any number of connections.
* *Two players, clans, names and tags*: a hand-over needs two players, a transfer
  two clans, a collision two clans and one text. *Rank texts* 2, 3 and 256 lie
  on either side of the enumeration and beyond eight bits.
* `FewNotes` (clans) and `Unraced` (presence) stop a behaviour at its first race:
  every property excuses what follows that very race, and states with the race
  recorded are still checked. `Unraced` does so too at the first look-up whose failure
  is noted. `FewNotes` follows the handler of which a call failed to its end when it is
  alone at work, so each line of the table in section 2 is reached without any overlap.
* `NoTagAlone` (clans): the empty tag, which only a failed read writes, is followed
  through handlers that run one after the other. `NothingFails` is the specification
  without `Failure`: `clans_leader` and `clans_tags` contradict comments of the code,
  and no call has to fail for that.
* `OneLogin`: a connection logs in at most once. For `NoGhosts` a second login over
  another profile is the excuse `switch`, so it adds no state in which the property
  says anything; for the other properties it would, and there the theorems of
  section 4 cover it, since they assume no bound.
* `ThreeLogIn` (gpcm_sessions): two connections race, are kicked and send unknown requests as
  they like, and races do not end these behaviours; once a third is there, they log in
  and the first race ends it. The heartbeat is absent there; `SessionsAreKept` (section 4)
  has it and no bound at all.
* `KickAlone` (gpcm_presence): a kick does not meet an unknown request. Both end in
  `Disconnect()`, as the end of a connection does, which a kick does meet.
* `NoSilence`, `NoHeartbeat`, `NoKick` switch an agent off in runs whose question it
  does not concern; every agent acts in some run.
* `Few` (accounts): two players and four entries of history. Every property relates two
  players, or a player and an answer; each excuse needs one entry.
* `Unspoiled` (game_stats) follows a behaviour up to its first spoiled row, as `Unraced`
  does, and `OneOfEach` gives the recalculation one player and the page one clan.
  `Hour` is 6 (the unit is ten minutes) and `Word` 65536: the games reach the three
  branches of the points per hour, and nothing the instance computes passes the
  word but negative numbers. `MaxBoard` is 30, past the ranks at which the queries change
  their rule and past three pages. One player has deaths before it has kills, so it joins
  the board of ratios late. `ThirdGame` lets the third game, whose report writes no row,
  meet one other report. `ReportsRepair` follows a procedure that stopped half-way (`HalfMade`)
  by reports, one at a time: they are what makes the leaderboards anew. `RecalcsFirst` lets no recalculation run once a page
  has been edited: the one writes the row of a player, the other that of a clan, and
  the opposite order is followed.
* `BrowserFirst` (game_servers) ends the browser's requests with the first row or request
  of the live page, because its connection and the tables share no variable and only
  answers read the rows; the lists of `ListedAsAsked` are those of every state of the
  tables. `MaxAsked` is three, so that one read can hold three requests, the last of them incomplete. `OneByOne` separates
  verification and failed rows of players from answers of the live page.
* `rows` counts to two: two rows are as wrong as many, and a removal removes all.
* `Request` restricts the kinds of requests in a run; together the runs use all.

### Fairness

`FairSpec` assumes, of the presence server, that threads run (the operating system
schedules them, and no call blocks for ever but `read()`), that TCP gives up on
data nobody acknowledges, and that the heartbeat wakes up again (it is a loop
around `sleep`). Nothing is assumed of clients: they need not send, leave or
answer. Under this, `SilentClientsLeave` holds only because of the heartbeat:
the mutant that restricts it to logged-in clients is caught. It speaks of peers that
are gone. A peer that is there and says nothing stays connected for good (`gpcm_idle`).

The other modules state no fairness. A handler there never waits for another and has no
loop that could fail to end: under the assumption that threads run, each would
finish, which says nothing about the code. A crash may end any of them.

### Findings

* **A leader is removed without a disband** (`clans_leader`). `requestAddMember`
  removes the target's row in its old clan whatever its rank. A comment of
  `requestDeleteMember` says that a leader can only disband.
* **A clan without a name lets a tag be used twice** (`clans_tags`).
  `requestUpdateClan` looks up "this tag or the empty name"; if the clan itself
  has the empty name, its own row may come first and the check passes. A
  create request without a name makes such a clan.
* **Two logins at once both stay** (`gpcm_old_session`). Each sweeps a copy of the list
  for the old session before the other has taken the profile.
* **An idle client is never closed** (`gpcm_idle`). The comment of `Heartbeat`
  (`gpcm/client.h:267-268`) says that it closes connections that have not sent any data in
  the last minute. The code (`gpcm/client.cpp:890-918`) sends a keep-alive every minute and
  disconnects only a client to whom it cannot be sent. What a client has sent is not
  looked at. The comment of the browser's menu clauses is a smaller divergence of this kind
  and is described under *Filters* in section 2: five of the clauses it lists have no
  effect on the list.

One more behaviour of the presence server is visible in the model and is not a
run, because nothing in the repository says otherwise: a session that was
replaced by a new login, or kicked, ends its thread later with a second
`Disconnect()`, which tells the friends Offline again after the new session
has told them Online. The friends see an online player as offline until the next
status request. `NoGhosts` is about the opposite, worse error and excuses nothing
of the kind.

Other behaviours of the code that stand in the models as they are, or were met beside
them, and that no line of the repository contradicts:

* A registration for a known email compares its password with the stored digest
  (`gpsp/client.cpp:367`), not with the digest of the password: only who sends the
  digest gets a second nick. `UserIdsDiffer` says what follows.
* A nick longer than its column is looked for as a whole and stored without its end: two
  of them can be stored alike (`Cropped`).
* A nick that begins like a clan's tag, two or three characters and a blank, loses them
  at registration and at login, once each: if what is left begins like one again, the
  player is found only under the nick as it was first typed.
* Queries put `fraglimit` into `teamfraglimit` (`database/game_server.cpp:281`, `:593`,
  `:899`): a heartbeat without the key writes the other limit back.
* A clan's page with `startrank=0` asks for the row after the last 32-bit number and is
  empty (`webserver/request/clan.cpp:151`). A friends' page shows the ten best, with or
  without the player who asks; the board of clans lists disbanded ones.
* When the count of a recalculation fails, its `total` has no value
  (`webserver/request/api_admin.cpp:354`); a recalculation does not refresh the
  leaderboards; a draw raises the points of both clans.

## 4. What is proved

`ClansProofs` proves, for any sets of players, clans, names, tags and threads
and any rank texts (assumption `ClansAssumption`: `None` is neither one of them nor one of
the empty texts, rank texts are integers):

| Theorem | States |
|---|---|
| `ClanTypes` | `Spec => []TypeOK` |
| `OneLeader` | `Spec => []AtMostOneLeader` |
| `AMemberOfOneClan` | `Spec => []OneMembership` |
| `NoMembersLeftBehind` | `Spec => []MembersOfEnabledClans` |
| `NamesAndTagsDiffer` | `Spec => []UniqueNamesAndTags` |

They are about every behaviour of `Spec`, with all its failures: each property names, as an
entry of `noted`, the overlap and the failing calls after which it claims nothing.

None of the four safety properties is inductive: each depends on what a handler
found out in an earlier call still being true at its write. The invariant `IInv`,
at the end of `Clans`, says what that is, for each handler:

* `HandOver`: between the leader check and the demotion nobody but the requester leads
  the clan, and between the demotion and the new leader's update nobody does.
* `Enrolling`: the player about to get a clan has none, or only the one it is being
  taken from.
* `Closing`: a clan somebody is being added to is open, a clan about to be
  disabled is empty.
* `Naming`: the name and tag about to be written are free.
* `FoundingInv`: a clan whose leader's row is still to come is known to its founder
  only. This is what keeps members from joining it, and it needs that an id is
  never handed out twice.
* `RacesNoted`: the overlaps of the current state are on record. It gives the
  argument its shape: a step of another handler that could spoil one of the facts
  above implies an overlap, and the overlap is already noted, so the fact is
  excused. A call that fails notes itself what the handler then wrongly relies on.
* `Filled`, `FrameInv`: the locals a call uses are set when it is made.

The proof has one lemma per action or group of actions that read only (they change one
job), and for the writes one lemma per conjunct that the write can disturb.

The second part of `ClansProofs` proves the refinement of `ClanRules`:

| Theorem | States |
|---|---|
| `CallsFollowTheRules` | `Spec => FollowsTheRules`: every call made before the first race or noted failure is a step of the rules or a stutter |
| `ClanRulesImplemented` | `Spec /\ [](noted = {}) => Rules!Spec`: without races and noted failures the tables implement `ClanRules` |

The first is the stronger one: it speaks of every behaviour, up to its first entry in `noted`.
Other calls may fail before that: a failed last write, for instance, is a stutter. While
`noted` is empty, `IInv` without its excuses says that a player has at most one row, so
`placeOf` reads the table without a choice, and what a handler relies on at its write is
the guard of the step of `ClanRules` it takes (`Enrolling` and `Closing` for `Join` and
`Close`, `HandOver` for a new leader). One lemma per writing call names that step; an
`UPDATE` or `DELETE` that finds no row is a stutter.

`GpcmProofs` proves, for any sets of connections and profiles, any kinds of request
and any friendships at the start (assumption `GpcmAssumption`: the agents and
`None` are distinct):

| Theorem | States |
|---|---|
| `GpcmTypes` | `Spec => []TypeOK` |
| `LoginReplacesSessions` | `Spec => []OneSession` |
| `ListIsAccurate` | `Spec => []ListMatchesSockets` |
| `FriendsOnce` | `Spec => []OneRowPerFriend` |
| `SessionsAreKept` | `Spec => KeepsSessions`: `Gpcm` implements `Sessions!Spec` |

The invariant `IInv` of `Gpcm` adds to the four properties:

* `AcceptedFirst`: what is on the list, has a profile or runs was accepted before.
* `Handling`: every client an agent works on, or still has in its copy of the list, was
  accepted; the one about to be erased is closed. Because a descriptor never
  opens again, no order of overlapping disconnects leaves an open socket
  outside the list.
* `Sweeps`: while a login looks for old sessions of a profile, every other session
  of that profile on the list is still ahead of it or is the one being disconnected.
  A session can only join behind its back by another login for the same profile,
  and that overlap is on record (`RacesNoted`).
* `Befriends`: a row about to be inserted is not there yet.

Most steps only change the job of one agent; `Quiet` says in what way, one
lemma per action shows that it is such a step, and `QuietStep` does the
argument about `IInv` once. The six steps that change the list, a socket, a
profile or a row have a lemma each. TLC checked `IInv` on the instances
of the runs before it was proved.

`SessionsAreKept` has no hypothesis: it is about every behaviour, with its races, silent
peers, failures and kicks. From `IInv` it takes that a client about to be erased is closed and that, unless
the login is raced, every other session of the profile is still ahead of it, so none is left
when it takes the profile. One more invariant, `Entitled`, says what a handler runs for
and why it may disconnect somebody: the heartbeat only a peer that is dead, an end of
input or an unknown request only the thread's own client; and a login or a kick always
wants a profile. TLC checked it on the instance of `gpcm_sessions`. `Resting` makes every
step that leaves the hunts as they are a stutter of `Sessions`; each of the other steps (an
accept, the begin and the end of a hunt, a skipped entry, a closed socket, an erased client)
has a lemma that names the step of `Sessions` it is.

`PresenceProofs` adds, under the same assumption:

| Theorem | States |
|---|---|
| `NobodySeesGhosts` | `Spec => []NoGhosts` |

`NoGhosts` speaks of two connections only, but what a client was told is the work of many
agents and many steps. The invariant `PInv` adds to `IInv`:

* `Settles`: while a client sees a friend online, or a message with that news is on its way
  (`Hot`), some connection of the friend is `Unsettled`: its thread still runs or
  has yet to tell this client Offline, and will before it ends. Two threads may disconnect
  one connection; each of them alone keeps the promise. A thread that ends and fails to
  find the friends breaks it, which is noted (`"untold"`).
* `Own`: what only a connection's own thread may do to its session. Others set a status to
  Offline, never online, so a thread that finds Offline knows it will stay.
* `Addressed`: messages are for connections that have logged in.

`Settling` describes the steps after which every agent has as much to tell as before; they
share one lemma. A login, a status, a sent message and the end of a thread have
lemmas of their own. TLC checked `PInv` on the instances of `gpcm_sessions` and
`gpcm_presence` first.

`AccountsProofs` proves, for any sets of nicks, emails, passwords, requests and threads
and any `Strip`, `Cut`, `Fold`, `Filed` and `Hash` (assumption `AccountsAssumption`:
their types):

| Theorem | States |
|---|---|
| `AccountTypes` | `Spec => []TypeOK` |
| `NicksDiffer` | `Spec => []UniqueNicksDiffer` |
| `IdsDiffer` | `Spec => []UserIdsDiffer`: an id is shared after an overlap or a failed query, or by a later player who came with the email or nick of an earlier one and the stored digest |
| `PlayersHaveStats` | `Spec => []StatsForEveryPlayer` |
| `RegistrationsAreTold` | `Spec => []AnswersAreTrue` |
| `LoginsStampTheirOwn` | `Spec => LastLoginIsOwn`, a property of steps |

`IInv` adds to the four invariants `Relies`, what a handler found out and counts on at its
next call (the nick is free, the user id is its own or that of the player whose digest
it came with, the inserted row is there, the row to stamp is the one whose password
was right), and `RacesNoted`. An insertion by another thread that would spoil
what a handler relies on meets it between look-up and insertion, which is on
record.

`GameServersProofs` proves, for any servers, keys, heartbeats, filters and requests
(assumption `GameServersAssumption`: a heartbeat's values are texts, bits or numbers
as its keys demand; a request is as long as its size says; and for filters
`FilterAssumption`, section 2):

| Theorem | States |
|---|---|
| `ServerTypes` | `Spec => []TypeOK` |
| `ClansAreOfLatest` | `Spec => []ClansOfLatest` |
| `ColumnsKeep` | `Spec => []ColumnsKeepTheLatest` |
| `PlayersAreOfLatest` | `Spec => []PlayersOfLatest` |
| `LiveAnswersAreWhole` | `Spec => []LiveAnswerWhole` |
| `VerificationStays` | `Spec => VerifiedStays`, a property of steps |
| `DuplicatesAreHarmless` | `Spec => DuplicateIsHarmless`, a property of steps: all but the limit of a team |
| `GamesAreTakenByHand` | `Spec => GamesTakenByHand`, a property of steps |
| `BrowsersSeeWhatTheyAsk` | `Spec => []ListedAsAsked`, for filters of the clauses the code knows |
| `AllAskedIsHeard` | `Spec => []NothingAskedIsLost` |

`IInv` adds `Beats` (the row about to be written is the merge of the row in the table with
the heartbeat; only its verification may have changed since, because one thread
writes rows) and `Histories` (the last heartbeat written has written all it carries).
The merge is treated key by key in lemmas of its own. `DuplicateIsHarmless`, that
a datagram which comes twice in a row changes nothing but the limit of a team, needs no run of
its own: it follows from the columns being those of the last heartbeats. `GamesTakenByHand`
needs no invariant but types: `FirstRows` says what a verified row does to the order of the
query, `RowWritten` that a write keeps the verification of a row and that a new one has none.

The last two theorems are about loops, for lists and requests of any length:

* *Recursion.* The loops are recursive functions on an interval of numbers. That such a
  function exists and satisfies its equation at every place is `RecursionExists`, proved
  from the well-foundedness of the numbers; what it computes is proved by looking for the
  least place at which the claim is wrong (`NoFirst`), which stands in for induction.
* *Selections.* `FilterSelects` and `VerifiedSelects` say that each loop keeps, in order, the
  members at certain positions; `FilterMeans`, that an expression removes a server exactly
  when its clause does not hold; `SelectedTwice`, that a selection of a selection is one.
* *Requests.* `HeardFirst` is the invariant behind `NothingAskedIsLost`: unless a read has ended
  inside a request, what is heard is the first of what was asked, and the bytes on the
  connection are those of the others. `WholeRequests` is the code's loop over one buffer:
  cut at the sizes in it, a buffer that holds whole requests gives those requests.
  TLC checked `HeardFirst` on the instance of the run.

`GameStatsProofs` proves, for any reports, players, clans, pages and threads
(assumptions `GameStatsAssumption` and `PlayerStatsAssumption`: the types of a
report, finitely many lines, `Hour` and `Word` positive):

| Theorem | States |
|---|---|
| `StatTypes` | `Spec => []TypeOK` |
| `StatsAreOfLog` | `Spec => []StatsMatchLog` |
| `RecordsAreOfLog` | `Spec => []ClanRecordMatchesLog` |
| `BoardsAreFresh` | `Spec => []BoardsFresh` |
| `RanksAreEarned` | `Spec => []RankMatches` |
| `PagesAreKept` | `Spec => ReportsKeepThePage`, a property of steps |

The tables alone say too little: a handler carries rows it read calls ago. `IInv` says of
each thread what its locals are worth.

* `Logging`: a report under way is not in the log, and each of its lines that is passed
  is in the statistics, or barred, or its row is spoiled.
* `Adding`: the row about to be written is the table's with one line more.
* `Summing`: a recalculation has read as many rows as it has counted pages, and its row is
  the sum of those that are enabled; at its write it has read them all.
* `Rating` and `Editing`: rows of clans about to be written hold the table's results, with
  or without one more.
* `Distinct`, `LogSent`, `Locals`: a game is reported once, the log holds only reported
  games, locals are set before they are used.
* `RacesNoted`: a row that two handlers hold at once is spoiled. Each of the facts above
  is demanded only of rows that are not, so a step that writes a row may
  assume that nobody else holds it.

`BoardsFresh` is kept leaderboard by leaderboard: what a procedure that stops half-way has not made
again was behind before, or is now, and `late` says so.

That a rank exists and is unique (`RankIs`, `SameRank`) is proved from the least rank whose
successor is not reached, without induction over ranks.

Steps that write no table are `Quiet` and share one lemma (`QuietStep`); every step that
writes has a lemma with one step per conjunct of `IInv`.

`StatsProofs` goes on from there to what is in the rows, under the same assumptions
(`PlayerStatsAssumption` also says that there are finitely many medals):

| Theorem | States |
|---|---|
| `PointsAreAverages` | `Spec => []PointsPerHourBounded`: of rows without negative scores and games of more than five hours |
| `MedalsAreKept` | `Spec => MedalsNeverDrop`, a property of steps: of rows that are not noted, as failures are |
| `PointsMoveBetweenClans` | `Spec => PointsChangeHands`, a property of steps: of decided games between rows that are not noted |
| `LedgerIsKept` | `Spec => KeepsLedger`: `GameStats` implements `Ledger!Spec` |

* `RowsEarned` is about every row in the table or in the hands of a handler, spoiled or
  not: its medals are those of its best line (`Decorated`),
  its score and points per hour are within the rate of the best line (`Averaged`). Every
  row a step makes is an `Offspring`: new, or `Update` of a row that is there, so it is
  enough that `Load` and `Update` keep a row earned. Integer division and the conversion to a
  word are not linear; the lemmas of the first section take the products apart.
* `MedalsNeverDrop` joins this with `StatsMatchLog`: a row that is not spoiled holds, after a
  write, all the lines it held before, the recalculation's row too; and its medals are
  those of its best line.
* `PointsChangeHands` needs `Weighs`: a report writes clans rated with the points that
  are still in the table, again unless a row is spoiled. The rest is rounding.
* `LedgerIsKept` has no hypothesis: it is about every behaviour, with its failures, crashes and
  overlaps. `RowsFiled` (each result is in the column of its victory, in the table and in the hands
  of handlers) makes the columns of a row a function of the results in it. Then a report's
  writes are steps of the ledger because of `Adding` and `Logging` (the line is not in the
  row, its game not in the log; what is not counted at the insertion is disabled by it) and
  `Rating` (the row holds the table's results, without this game's); a page's because of
  `Editing`; and a recalculation is a stutter because the row before and the row after are
  both the sum of the same lines, by `StatsMatchLog` in the two states. One lemma per
  writing call names its step, `OthersRest` has all the others.

`LeaderboardsProofs` is about what the pages show of those rows, for any number of players and
clans, and boards of any length (`LeaderboardsAssumption`: finite tables, whose numbers
of rows fit into a word):

| Theorem | States |
|---|---|
| `PagesTellOneRanking` | `Spec => OneRanking`, a property of steps |
| `PagesAreOfBoards` | `Spec => PagesShowTheBoard`, a property of steps |

For the first, the friends' page must be shown to be the excerpt of a board. Both are numbered
by the database, equal rows in any order, each on its own. `Extended` says that whatever
order the friends are in, there is an order of all rows, also one the database may
choose, in which the friends come like that: values of one board can be compared
(`Comparable`), and a finite set can be enumerated in any linear order (`InOrder`), each
member at the place that counts the members up to it. That the friends' living rows are
the copies on the board is `BoardsFresh`. The second needs no invariant, only arithmetic of
offsets and that an enumeration reaches every row.

### Only model-checked

* `SilentClientsLeave`, liveness under fairness, which is out of the prover's reach.

The provers cannot instantiate the library's theorems of induction. Where a theorem needed
induction, over positions of a list, it is proved from the least counterexample.

## 5. What is left

### Plan

No abstract specification is left that would say more about the tables and the sessions
than `ClanRules`, `Ledger` and `Sessions` do, and every safety property of the runs that
pass is proved. Four hazards have no property: three are undefined behaviour or depend on
buffers outside this code (below), the fourth, a second Offline from a replaced session, is
described in section 3.

### Not modelled

* **The end of the process.** The signal handler walks the lists of clients without their
  mutex while each disconnect erases from them, which is undefined behaviour from
  the first client on; and then it calls a websocket server that is never
  created (`main.cpp:172`), before it closes any service. A model of a shutdown that
  works would be a model of other code. What the end leaves behind is in `Crash`
  of the modules that have tables.
* **Full send buffers and `SIGPIPE`.** Whether `send()` blocks depends on the sizes of
  buffers in two kernels, not on this code.
* **A torn `std::string`** (`GetSession` without a lock): undefined behaviour with no set
  of outcomes to choose from.
* **Other requests that only read** one query and format an answer, of every server; messages the
  presence server passes on unchanged; the chat log.
* **The text protocol, HTTP and JSON** are formatting; **the cipher** is vendored; **the
  logger and the file cache** are input and output.
* **DNS and websocket**: their threads are commented out in `main.cpp`.
* **Sums beyond 32 bits**: scores and times are integers without width, but for the
  conversion to points per hour. Only a game that reports millions of points would reach them.
