---------------------------- MODULE GameServers ----------------------------
(***************************************************************************)
(* The table of game servers.  Game servers report themselves in datagrams *)
(* (qr/client.cpp); the server browser lists them (browsing/client.cpp),   *)
(* the web shows them with their players (webserver/request/api.cpp) and   *)
(* the statistics server asks whether the sender of a game is verified     *)
(* (gamestats/client.cpp).  Verification is a column set by hand.          *)
(*                                                                         *)
(* One thread handles all datagrams, each to its end: a heartbeat is a     *)
(* read of the server's row, a merge with what the datagram says, and a    *)
(* write.  A datagram is delivered never, once or more often, and after    *)
(* any others, so that every datagram may come at any time.  The numbers   *)
(* they have here are not part of what they say.                           *)
(*                                                                         *)
(* Left out: the requests that are only echoed (challenge, available,      *)
(* keepalive), the answer to a heartbeat, and the time of a row's last     *)
(* update, which only the web shows.                                       *)
(***************************************************************************)
EXTENDS Browsing, SequencesExt

CONSTANTS
  Address,   \* IP addresses with a port
  Ip, IpOf,  \* IpOf[a]: the address without the port
  Key,       \* the keys of a heartbeat, as columns of GameServers
  Text,      \* values that are not numbers
  Bit,       \* bits of a region
  Default,   \* Default[k]: the value of a default-constructed GameServer
  Name,      \* players
  Say,       \* Say[a][n]: the keys and values in the n-th heartbeat of a
  Playing,   \* Playing[a][n]: the players in it
  Filter,    \* the filters of lists of servers
  Request,   \* what a browser may send
  MaxAsked,  \* bound: requests of a browser
  MayFail    \* whether calls of the database may fail

ByteKeys == {"natneg", "mc", "mapname", "gc", "numplayers", "maxplayers", "numteams",
             "teamplay", "fraglimit", "teamfraglimit", "password", "nr", "xr", "ff",
             "sr", "rc", "qm", "c0c", "c1c"}

ShortKeys == {"localport", "hostport", "timelimit", "timeelapsed"}

IntegerKeys == {"c0", "c1", "ni", "xi"}

NumberKeys == ByteKeys \union ShortKeys \union IntegerKeys \union {"region"}

ClanKeys == {"c0", "c1", "n0", "n1", "c0c", "c1c"}

\* Values of two bytes.
Short == 65536

\* All others hold texts; "teams" stands for the block of names and scores.
Column(k) ==
  CASE k \in ByteKeys -> 0 .. 255
    [] k \in ShortKeys -> 0 .. Short - 1
    [] k \in IntegerKeys -> Int
    [] k = "region" -> SUBSET Bit
    [] OTHER -> Text

IsKeys(f) == f = [k \in Key |-> f[k]] /\ \A k \in Key : f[k] \in Column(k)

IsRow(r) == r = [keys |-> r.keys, verified |-> r.verified] /\ IsKeys(r.keys)
              /\ r.verified \in BOOLEAN

\* What a datagram may say under a key.
Said(k) == IF k = "region" THEN (SUBSET Bit) \union Text
           ELSE IF k \in NumberKeys THEN Int \union Text
           ELSE Text

ASSUME GameServersAssumption ==
  /\ IpOf \in [Address -> Ip]
  /\ IsKeys(Default)
  /\ DOMAIN Say = Address /\ DOMAIN Playing = Address
  /\ \A a \in Address :
       /\ Playing[a] \in Seq(SUBSET Name)
       /\ DOMAIN Say[a] = DOMAIN Playing[a]
       /\ \A n \in DOMAIN Say[a] :
            /\ DOMAIN Say[a][n] \subseteq Key
            /\ \A k \in DOMAIN Say[a][n] : Say[a][n][k] \in Said(k)
  /\ \A r \in Request : r \in Seq(0 .. 255) /\ Len(r) >= 3 /\ Size(r, 0) = Len(r)
  /\ MaxAsked \in Nat
  /\ MayFail \in BOOLEAN

\* Columns that filters look at.
FilterKeys == {"gamever", "region", "numplayers", "gametype", "mapname", "sr", "rc",
               "teamplay", "c0", "c1"}

ByteClauses == {"numplayers>=", "numplayers<=", "mapname=", "sr=", "rc=", "teamplay=",
                "teamplay!="}

\* Filters of the clauses that some expression looks for, with numbers of a byte
\* and the choice between rc and teamplay in the place of a clause on either.
\* The menus also send clauses on numplayers # maxplayers, nr, xr, mc and gc:
\* no expression looks for them, so that they take out no server.
IsFilter(f) ==
  /\ DOMAIN f \subseteq Clauses
  /\ \A clause \in ByteClauses \intersect DOMAIN f : f[clause] \in 0 .. 255
  /\ Asks(f, "rc or teamplay!=") =>
       /\ f["rc or teamplay!="].rc \in 0 .. 255 /\ f["rc or teamplay!="].teamplay \in 0 .. 255
       /\ DOMAIN f \intersect {"rc=", "teamplay=", "teamplay!="} = {}

ASSUME FilterAssumption ==
  /\ FilterKeys \subseteq Key
  /\ \A f \in Filter : IsFilter(f)

Datagram(a) == DOMAIN Playing[a]

VARIABLES
  servers,  \* table GameServers, by (ip, port), which is a unique key
  players,  \* table GameServerPlayers, by the server
  qr,       \* the handler the thread of the QR server runs
  web,      \* the handler of one request for the servers and their players
  stored,   \* history: the number of the last heartbeat written
  carried,  \* history: the last one of these that said something under a key
  noted,    \* history: servers whose players a failure has spoiled
  moved,    \* history: servers written since the web's query
  asked,    \* what the browser has sent
  inbox,    \* the bytes of it that have not been read
  heard,    \* the requests handled
  listens,  \* whether the browser's thread still reads
  cut       \* history: a read has ended inside a request

tables  == <<servers, players>>
history == <<stored, carried, noted>>
browser == <<asked, inbox, heard, listens, cut>>
vars    == <<tables, qr, web, history, moved, browser>>

\* Addresses with a row.
Listed == DOMAIN servers

-----------------------------------------------------------------------------
(***************************************************************************)
(* Battlefield::GameServer.                                                *)
(***************************************************************************)
Readable(k, v) == k \in NumberKeys => v \notin Text

Unnarrowed(k, v) == v

\* Numbers are cut to the width of their column.
Narrow(k, v) ==
  CASE k \in ByteKeys -> v % 256
    [] k \in ShortKeys -> v % Short
    [] OTHER -> v

\* The setters of SetterMap: a number that cannot be read leaves the old value.
SetKey(k, old, v) == IF Readable(k, v) THEN Narrow(k, v) ELSE old

MergeOntoAll(keys, say) ==
  [k \in Key |-> IF k \in DOMAIN say THEN SetKey(k, keys[k], say[k]) ELSE keys[k]]

\* The clans of the row are forgotten first; every other key a heartbeat does
\* not carry keeps the value of the row.
Merge(keys, say) ==
  LET old == [k \in Key |-> IF k \in ClanKeys THEN Default[k] ELSE keys[k]]
  IN  [k \in Key |-> IF k \in DOMAIN say THEN SetKey(k, old[k], say[k]) ELSE old[k]]

\* A query sets the limit of a team from the column of the other limit.
Load(keys) ==
  [k \in Key |-> IF k = "teamfraglimit" /\ "fraglimit" \in Key THEN keys["fraglimit"] ELSE keys[k]]

(***************************************************************************)
(* Database.                                                               *)
(***************************************************************************)
RowsOfIp(i) == {servers[a] : a \in {b \in Listed : IpOf[b] = i}}

\* The rows may come in any order.
queryGameServerByIpUnordered(i) == RowsOfIp(i)

\* Rows that may come first: verified ones before the others.
queryGameServerByIp(i) ==
  {r \in RowsOfIp(i) : r.verified \/ \A q \in RowsOfIp(i) : ~ q.verified}

\* requestUpdateGame goes on after the query, whichever of these comes first.
TakesGames(i) ==
  /\ queryGameServerByIp(i) # {}
  /\ \A r \in queryGameServerByIp(i) : r.verified

NewRow(keys) == [keys |-> keys, verified |-> FALSE]

replaceGameServer(a, keys) ==
  [b \in Listed \union {a} |-> IF b = a THEN NewRow(keys) ELSE servers[b]]

\* A second row for an address is refused by the unique key.
insertGameServer(a, keys) ==
  [b \in Listed \union {a} |->
     IF b = a /\ a \notin Listed THEN NewRow(keys) ELSE servers[b]]

updateWholeGameServer(a, row) == [servers EXCEPT ![a] = row]

\* Every column but `verified'.
updateGameServer(a, row) == [servers EXCEPT ![a].keys = row.keys]

addPlayers(a, S) == [players EXCEPT ![a] = @ \union S]

\* The old players are removed, the new ones inserted.
replacePlayers(a, S) == [players EXCEPT ![a] = S]

-----------------------------------------------------------------------------
(***************************************************************************)
(* Heartbeats.                                                             *)
(***************************************************************************)
Idle == [next |-> "none"]

Beating(next, a, n, row) == [next |-> next, addr |-> a, n |-> n, row |-> row]

\* requestHeartbeat up to the write, with the row of the sender's address.
Heartbeat(a, n) ==
  /\ qr = Idle
  /\ qr' = IF a \in Listed
           THEN Beating("update", a, n,
                        [keys |-> Merge(Load(servers[a].keys), Say[a][n]),
                         verified |-> servers[a].verified])
           ELSE Beating("insert", a, n, NewRow(Merge(Default, Say[a][n])))
  /\ UNCHANGED <<tables, web, history, moved, browser>>

\* After a failed query the server has no id, as if it had no row.
HeartbeatUnknown(a, n) ==
  /\ qr = Idle
  /\ qr' = Beating("insert", a, n, NewRow(Merge(Default, Say[a][n])))
  /\ UNCHANGED <<tables, web, history, moved, browser>>

Remembered(a, n) ==
  /\ stored' = [stored EXCEPT ![a] = n]
  /\ carried' = [carried EXCEPT ![a] =
       [k \in Key |-> IF k \in DOMAIN Say[a][n] /\ Readable(k, Say[a][n][k]) THEN n ELSE @[k]]]
  /\ moved' = IF web = Idle THEN moved ELSE moved \union {a}

\* insertGameServer, refused when the address has a row.
InsertServer ==
  /\ qr.next = "insert"
  /\ LET a == qr.addr IN
     /\ servers' = insertGameServer(a, qr.row.keys)
     /\ IF a \in Listed
        THEN UNCHANGED <<players, stored, carried, moved>>
        ELSE players' = replacePlayers(a, Playing[a][qr.n]) /\ Remembered(a, qr.n)
  /\ qr' = Idle
  /\ UNCHANGED <<web, noted, browser>>

UpdateServer ==
  /\ qr.next = "update"
  /\ servers' = updateGameServer(qr.addr, qr.row)
  /\ players' = replacePlayers(qr.addr, Playing[qr.addr][qr.n])
  /\ Remembered(qr.addr, qr.n)
  /\ noted' = noted \ {qr.addr}
  /\ qr' = Idle
  /\ UNCHANGED <<web, browser>>

\* The row is not written, and the players are left alone.
WriteServerFails ==
  /\ qr # Idle
  /\ qr' = Idle
  /\ UNCHANGED <<tables, web, history, moved, browser>>

\* The row is written, but then the old players are not removed, or not all of
\* the new ones get in.
WritePlayersFails ==
  /\ qr # Idle /\ (qr.next = "insert" => qr.addr \notin Listed)
  /\ LET a == qr.addr IN
     /\ servers' = IF qr.next = "insert" THEN insertGameServer(a, qr.row.keys)
                   ELSE updateGameServer(a, qr.row)
     /\ \E kept \in {{}, players[a]}, S \in SUBSET Playing[a][qr.n] :
          players' = [players EXCEPT ![a] = kept \union S]
     /\ Remembered(a, qr.n)
     /\ noted' = noted \union {a}
  /\ qr' = Idle
  /\ UNCHANGED <<web, browser>>

\* The administrator verifies a server in the database.
Verify ==
  \E a \in Listed :
    /\ ~ servers[a].verified
    /\ servers' = [servers EXCEPT ![a].verified = TRUE]
    /\ UNCHANGED <<players, qr, web, history, moved, browser>>

-----------------------------------------------------------------------------
(***************************************************************************)
(* requestAPIServersLive: the rows in one call, each server's players in   *)
(* another.                                                                *)
(***************************************************************************)
Showing(rows, left, shown) ==
  [next |-> "players", rows |-> rows, left |-> left, shown |-> shown]

ServersLive ==
  /\ web = Idle
  /\ web' = Showing(servers, Listed, [a \in Address |-> {}])
  /\ UNCHANGED <<tables, qr, history, moved, browser>>

\* The players gather in one object for all servers.
ServerPlayersGathered(a) ==
  /\ web # Idle /\ a \in web.left
  /\ LET shown == players[a] \union UNION {web.shown[b] : b \in Address} IN
     web' = Showing(web.rows, web.left \ {a}, [web.shown EXCEPT ![a] = shown])
  /\ UNCHANGED <<tables, qr, history, moved, browser>>

ServerPlayers(a) ==
  /\ web # Idle /\ a \in web.left
  /\ web' = Showing(web.rows, web.left \ {a}, [web.shown EXCEPT ![a] = players[a]])
  /\ UNCHANGED <<tables, qr, history, moved, browser>>

ServersLiveSend ==
  /\ web # Idle /\ web.left = {}
  /\ web' = Idle
  /\ moved' = {}
  /\ UNCHANGED <<tables, qr, history, browser>>

\* A query that fails shows a server without players.
ServerPlayersFails(a) ==
  /\ web # Idle /\ a \in web.left
  /\ web' = Showing(web.rows, web.left \ {a}, web.shown)
  /\ moved' = moved \union {a}
  /\ UNCHANGED <<tables, qr, history, browser>>

-----------------------------------------------------------------------------
(***************************************************************************)
(* A browser's connection.  TCP keeps the bytes in order and says nothing  *)
(* of where a request ends: a read returns as many of them as have come.   *)
(***************************************************************************)
Ask(r) ==
  /\ Len(asked) < MaxAsked /\ listens
  /\ asked' = Append(asked, r)
  /\ inbox' = inbox \o r
  /\ UNCHANGED <<tables, qr, web, history, moved, heard, listens, cut>>

\* onRequest knows two actions, and disconnects upon another.
Known(r) == r[3] \in {0, 1}

Whole(n) ==
  \E i \in 0 .. Len(asked) :
    Len(FlattenSeq(SubSeq(asked, 1, i))) = Len(FlattenSeq(asked)) - Len(inbox) + n

\* Listen: one read of n bytes, and all requests in them, also those after one
\* that has made the server disconnect.
ReadBuffer(n) ==
  /\ listens /\ n \in 1 .. Len(inbox)
  /\ LET requests == BufferToRequests(SubSeq(inbox, 1, n)) IN
     /\ heard' = heard \o requests
     /\ listens' = \A i \in DOMAIN requests : Len(requests[i]) >= 3 => Known(requests[i])
  /\ inbox' = SubSeq(inbox, n + 1, Len(inbox))
  /\ cut' = (cut \/ ~ Whole(n))
  /\ UNCHANGED <<tables, qr, web, history, moved, asked>>

\* read() gives up after ten seconds without a byte.
ReadTimeOut ==
  /\ listens /\ inbox = <<>>
  /\ listens' = FALSE
  /\ UNCHANGED <<tables, qr, web, history, moved, asked, inbox, heard, cut>>

\* The process dies and is started again.
Crash ==
  /\ qr # Idle \/ web # Idle \/ asked # <<>>
  /\ qr' = Idle /\ web' = Idle
  /\ asked' = <<>> /\ inbox' = <<>> /\ heard' = <<>>
  /\ listens' = TRUE /\ cut' = FALSE
  /\ moved' = {}
  /\ UNCHANGED <<tables, history>>

Step ==
  \/ \E a \in Address :
       \/ \E n \in Datagram(a) : Heartbeat(a, n)
       \/ ServerPlayers(a)
  \/ InsertServer \/ UpdateServer \/ Verify
  \/ ServersLive \/ ServersLiveSend
  \/ \E r \in Request : Ask(r)
  \/ \E n \in 1 .. Len(inbox) : ReadBuffer(n)
  \/ ReadTimeOut
  \/ Crash

Failure ==
  \/ \E a \in Address :
       \/ \E n \in Datagram(a) : HeartbeatUnknown(a, n)
       \/ ServerPlayersFails(a)
  \/ WriteServerFails \/ WritePlayersFails

Init ==
  /\ servers = <<>>
  /\ players = [a \in Address |-> {}]
  /\ qr = Idle /\ web = Idle
  /\ stored = [a \in Address |-> 0]
  /\ carried = [a \in Address |-> [k \in Key |-> 0]]
  /\ noted = {} /\ moved = {}
  /\ asked = <<>> /\ inbox = <<>> /\ heard = <<>>
  /\ listens = TRUE /\ cut = FALSE

Next == Step \/ (MayFail /\ Failure)

Spec == Init /\ [][Next]_vars

-----------------------------------------------------------------------------
(***************************************************************************)
(* Properties.                                                             *)
(***************************************************************************)
IsBeat(j) ==
  /\ j = Beating(j.next, j.addr, j.n, j.row)
  /\ j.next \in {"insert", "update"} /\ j.addr \in Address
  /\ j.n \in Datagram(j.addr) /\ IsRow(j.row)

IsShow(j) ==
  /\ j = Showing(j.rows, j.left, j.shown)
  /\ DOMAIN j.rows \subseteq Listed /\ \A a \in DOMAIN j.rows : IsRow(j.rows[a])
  /\ j.left \subseteq DOMAIN j.rows /\ j.shown \in [Address -> SUBSET Name]

\* Types; every column holds a value of its width.
TypeOK ==
  /\ Listed \subseteq Address /\ \A a \in Listed : IsRow(servers[a])
  /\ players \in [Address -> SUBSET Name]
  /\ qr = Idle \/ IsBeat(qr)
  /\ web = Idle \/ IsShow(web)
  /\ stored \in [Address -> Nat] /\ carried \in [Address -> [Key -> Nat]]
  /\ noted \subseteq Listed /\ moved \subseteq Address
  /\ asked \in Seq(Request)
  /\ inbox \in Seq(0 .. 255)
  /\ listens \in BOOLEAN /\ cut \in BOOLEAN

\* What a heartbeat puts into a column.
Reported(a, n, k) == Narrow(k, Say[a][n][k])

\* A row never shows a clan of an older game: its clans are those of the last
\* heartbeat written, and none where that one names none.
ClansOfLatest ==
  \A a \in Listed, k \in ClanKeys \intersect Key :
    servers[a].keys[k] =
      IF k \in DOMAIN Say[a][stored[a]] /\ Readable(k, Say[a][stored[a]][k])
      THEN Reported(a, stored[a], k) ELSE Default[k]

\* Every other column holds what was last written under its key, whatever
\* heartbeats without the key, failed queries and failed writes have come since.
\* The limit of a team is left out: a query takes it from another column.
ColumnsKeepTheLatest ==
  \A a \in Listed, k \in Key \ (ClanKeys \union {"teamfraglimit"}) :
    servers[a].keys[k] =
      IF carried[a][k] > 0 THEN Reported(a, carried[a][k], k) ELSE Default[k]

\* The players of a server are those of the last heartbeat written, unless
\* their own rows failed.
PlayersOfLatest ==
  \A a \in Address \ noted :
    players[a] = IF a \in Listed THEN Playing[a][stored[a]] ELSE {}

\* A verification is not undone by a heartbeat that has read the row before it.
VerifiedStays ==
  [][\A a \in Listed :
       a \in Listed' /\ (servers[a].verified => servers'[a].verified)]_vars

\* Once games are taken from an IP address they go on being taken, whatever
\* servers appear behind it and whatever heartbeats are lost, repeated, refused or
\* fail; and no heartbeat makes them taken, but a verification by hand.
GamesTakenByHand ==
  [][\A i \in Ip :
       /\ TakesGames(i) => TakesGames(i)'
       /\ TakesGames(i)' /\ ~ TakesGames(i) =>
            /\ \E a \in Listed : IpOf[a] = i /\ servers' = [servers EXCEPT ![a].verified = TRUE]
            /\ UNCHANGED <<players, qr>>]_vars

\* What the web shows of a server belongs together and is up to date, unless a
\* heartbeat of that server has been written since the rows were read.
LiveAnswerWhole ==
  web # Idle =>
    \A a \in DOMAIN web.rows \ moved :
      /\ web.rows[a].keys = servers[a].keys
      /\ a \notin web.left => web.shown[a] = players[a]

\* What a clause of a filter says.
Holds(f, clause, k) ==
  LET v == f[clause] IN
  CASE clause = "gamever="     -> k["gamever"] = v
    [] clause = "region!=0"    -> \E b \in v : b \in k["region"]
    [] clause = "region=0"     -> \A b \in v : b \notin k["region"]
    [] clause = "numplayers>=" -> k["numplayers"] >= v
    [] clause = "numplayers<=" -> k["numplayers"] <= v
    [] clause = "gametype="    -> k["gametype"] = v
    [] clause = "mapname="     -> k["mapname"] = v
    [] clause = "sr="          -> k["sr"] = v
    [] clause = "rc="          -> k["rc"] = v
    [] clause = "teamplay="    -> k["teamplay"] = v
    [] clause = "teamplay!="   -> k["teamplay"] # v
    [] clause = "rc or teamplay!=" -> k["rc"] = v.rc \/ k["teamplay"] # v.teamplay
    [] clause = "c0 or c1"     -> k["c0"] = v.c0 \/ k["c1"] = v.c1
    [] clause = "free or c0 or c1" -> -1 \in {k["c0"], k["c1"]} \/ k["c0"] = v.c0 \/ k["c1"] = v.c1

Server(a) == [addr |-> a, keys |-> servers[a].keys, verified |-> servers[a].verified]

\* The members of list at the positions in S, in their order.
IsSelection(shown, list, S) ==
  \E at \in [DOMAIN shown -> S] :
    /\ \A i \in S : \E j \in DOMAIN shown : at[j] = i
    /\ \A i, j \in DOMAIN shown : i < j => at[i] < at[j]
    /\ \A j \in DOMAIN shown : shown[j] = list[at[j]]

\* A browser is shown the verified servers for which every clause of its filter
\* holds: no other, and all of them, each once, whichever rows the filter has
\* taken out before and in whatever order the rows come.
ListedAsAsked ==
  \A rows \in SetToSeqs({Server(a) : a \in Listed}), f \in Filter :
    IsSelection(ServerList(f, rows), rows,
      {i \in DOMAIN rows : rows[i].verified
                             /\ \A clause \in DOMAIN f : Holds(f, clause, rows[i].keys)})

\* While every read ends where a request ends, all that a browser asks is heard
\* once and in order, however many requests a read returns.
NothingAskedIsLost ==
  /\ heard \in Seq(Seq(0 .. 255))
  /\ ~ cut => FlattenSeq(heard) \o inbox = FlattenSeq(asked) /\ IsPrefix(heard, asked)

=============================================================================
