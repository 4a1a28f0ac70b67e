------------------------------ MODULE Accounts ------------------------------
(***************************************************************************)
(* Accounts: the registration of players (gpsp/client.cpp) and the login   *)
(* as far as it touches table Players (gpcm/client.cpp).  A registration   *)
(* looks for its nick and its email, takes a user id, inserts the player   *)
(* and inserts the player's statistics: four calls of Database, each one   *)
(* step, with the threads of other connections in between.  No key of      *)
(* Players but the profile id is unique, and results are ignored.          *)
(*                                                                         *)
(* Texts are abstract; what the code and the columns make of them are      *)
(* functions: Strip takes two or three characters and a blank off a nick   *)
(* (the tag of a clan), Cut shortens it to its column, Filed lower-cases   *)
(* and shortens an email, Fold is what a comparison in SQL sees of a nick. *)
(*                                                                         *)
(* Left out: the nick next to the unique one, requests refused for a       *)
(* short nick, and the requests that only read (nicks, valid, search,      *)
(* check).                                                                 *)
(***************************************************************************)
EXTENDS Integers, Sequences, FiniteSets

CONSTANTS
  Nick, Strip, Cut, Fold,
  Email, Filed,
  Password, Digest, Hash,   \* Hash[p]: MD5hash; a digest may be sent as a password
  NewUserRequest,           \* registrations a client may ask for
  LoginRequest,             \* logins a client may ask for
  Ip, Nowhere,
  Stack,                    \* what an uninitialised user id may be
  Thread,
  MayFail                   \* whether calls of the database may fail

ASSUME AccountsAssumption ==
  /\ Strip \in [Nick -> Nick] /\ Cut \in [Nick -> Nick] /\ Fold \in [Nick -> Nick]
  /\ Filed \in [Email -> Email]
  /\ Hash \in [Password -> Digest]
  /\ NewUserRequest \subseteq [nick : Nick, email : Email, password : Password]
  /\ LoginRequest \subseteq [nick : Nick, password : Password, ip : Ip]
  /\ Stack \subseteq Nat
  /\ MayFail \in BOOLEAN

Player == [userid : Int, uniquenick : Nick, email : Email, password : Digest,
           verified : BOOLEAN, last_login_ip : Ip \union {Nowhere}]

VARIABLES
  players,  \* table Players: a profile id is a place in the order of insertion
  stats,    \* profile ids with a row in PlayerStats
  job,      \* the handler each thread runs
  told,     \* history: successful answers to registrations
  noted     \* history: what overlaps, failures and crashes have spoiled

vars == <<players, stats, job, told, noted>>

NoJob == [next |-> "none"]

\* A registration under way: the names as they will be stored.
Registering(next, n, e, h, id, pid) ==
  [next |-> next, nick |-> n, email |-> e, password |-> h, userid |-> id, pid |-> pid]

LoggingIn(i, r) ==
  [next |-> "updatePlayerLastLogin", pid |-> i, nick |-> r.nick, password |-> r.password,
   ip |-> r.ip]

At(t, next) == job[t].next = next

ProfileId == DOMAIN players

-----------------------------------------------------------------------------
(***************************************************************************)
(* Database.  Comparisons ignore the case; emails are stored without it.   *)
(***************************************************************************)
queryPlayersByEmail(e, n) == {i \in ProfileId : players[i].email = e}

queryPlayersByEmailOrUniquenick(e, n) ==
  {i \in ProfileId : players[i].email = e \/ Fold[players[i].uniquenick] = Fold[n]}

\* Rows that may come first.
queryPlayerByUniquenick(n) == {i \in ProfileId : Fold[players[i].uniquenick] = Fold[n]}

UserIds == {players[i].userid : i \in ProfileId}

\* MAX(userid)
Highest == {m \in UserIds : \A n \in UserIds : n <= m}

\* The greatest id itself.
queryPlayerMaxUserID == IF players = <<>> THEN Stack \union {-1} ELSE Highest

\* MAX(userid) + 1 is NULL in an empty table, and the id is then whatever was
\* on the stack; a negative one is refused by SetUserId.
queryPlayerNewUserID == IF players = <<>> THEN Stack \union {-1} ELSE {m + 1 : m \in Highest}

NewPlayer(j) ==
  [userid |-> j.userid, uniquenick |-> j.nick, email |-> j.email, password |-> j.password,
   verified |-> TRUE, last_login_ip |-> Nowhere]

\* Without the foreign key.
insertPlayerStatsOfAnyone(i) == stats \union {i}

\* A foreign key keeps out the row of a player without an id.
insertPlayerStats(i) == stats \union ({i} \intersect ProfileId)

\* The id is taken from the number of rows before the insertion.
insertedBefore == Len(players)

\* The id of the row just inserted.
mysql_stmt_insert_id == Len(players) + 1

updateLastLoginOfUser(i, ip) ==
  [k \in ProfileId |->
     IF players[k].userid = players[i].userid THEN [players[k] EXCEPT !.last_login_ip = ip]
     ELSE players[k]]

updatePlayerLastLogin(i, ip) == [players EXCEPT ![i].last_login_ip = ip]

-----------------------------------------------------------------------------
(***************************************************************************)
(* requestNewUser.                                                         *)
(***************************************************************************)
\* The look-up, and the choice it leads to: a nick in use is refused, as it is
\* typed; next to any other row found, the password must be that row's digest;
\* an email and a nick nobody has get a new user id.
NewUser(t) ==
  \E r \in NewUserRequest :
    LET n == Strip[r.nick]
        e == Filed[r.email]
        found == queryPlayersByEmailOrUniquenick(e, n)
        Going(next, id) == job' = [job EXCEPT ![t] =
                             Registering(next, Cut[n], e, Hash[r.password], id, -1)]
    IN  /\ job[t] = NoJob
        /\ \A i \in found : players[i].uniquenick # n
        /\ \/ found = {} /\ Going("queryPlayerNewUserID", -1)
           \/ \E i \in found :
                players[i].password = r.password /\ Going("insertPlayer", players[i].userid)
        /\ UNCHANGED <<players, stats, told>>

\* A look-up that fails finds nobody.
NewUserBlindly(t) ==
  \E r \in NewUserRequest :
    /\ job[t] = NoJob
    /\ job' = [job EXCEPT ![t] = Registering("queryPlayerNewUserID", Cut[Strip[r.nick]],
                                             Filed[r.email], Hash[r.password], -1, -1)]
    /\ UNCHANGED <<players, stats, told>>

NewUserID(t) ==
  /\ At(t, "queryPlayerNewUserID")
  /\ \E id \in queryPlayerNewUserID :
       job' = [job EXCEPT ![t].userid = id, ![t].next = "insertPlayer"]
  /\ UNCHANGED <<players, stats, told>>

NewUserIDFails(t) ==
  /\ At(t, "queryPlayerNewUserID")
  /\ job' = [job EXCEPT ![t].next = "insertPlayer"]
  /\ UNCHANGED <<players, stats, told>>

InsertPlayer(t) ==
  /\ At(t, "insertPlayer")
  /\ players' = Append(players, NewPlayer(job[t]))
  /\ job' = [job EXCEPT ![t].pid = mysql_stmt_insert_id, ![t].next = "insertPlayerStats"]
  /\ UNCHANGED <<stats, told>>

InsertPlayerFails(t) ==
  /\ At(t, "insertPlayer")
  /\ job' = [job EXCEPT ![t].next = "insertPlayerStats"]
  /\ UNCHANGED <<players, stats, told>>

Answer(t) ==
  /\ told' = told \union {[pid |-> job[t].pid, nick |-> job[t].nick, email |-> job[t].email]}
  /\ job' = [job EXCEPT ![t] = NoJob]

InsertPlayerStats(t) ==
  /\ At(t, "insertPlayerStats")
  /\ stats' = insertPlayerStats(job[t].pid)
  /\ Answer(t)
  /\ UNCHANGED players

InsertPlayerStatsFails(t) ==
  /\ At(t, "insertPlayerStats")
  /\ Answer(t)
  /\ UNCHANGED <<players, stats>>

(***************************************************************************)
(* GPCM::Client::requestLogin.                                             *)
(***************************************************************************)
Login(t) ==
  \E r \in LoginRequest : \E i \in queryPlayerByUniquenick(Strip[r.nick]) :
    /\ job[t] = NoJob
    /\ players[i].verified /\ players[i].password = Hash[r.password]
    /\ job' = [job EXCEPT ![t] = LoggingIn(i, r)]
    /\ UNCHANGED <<players, stats, told>>

LastLogin(t) ==
  /\ At(t, "updatePlayerLastLogin")
  /\ players' = updatePlayerLastLogin(job[t].pid, job[t].ip)
  /\ job' = [job EXCEPT ![t] = NoJob]
  /\ UNCHANGED <<stats, told>>

LastLoginFails(t) ==
  /\ At(t, "updatePlayerLastLogin")
  /\ job' = [job EXCEPT ![t] = NoJob]
  /\ UNCHANGED <<players, stats, told>>

\* The administrator bars a player in the database.
Bar ==
  \E i \in ProfileId :
    /\ players[i].verified
    /\ players' = [players EXCEPT ![i].verified = FALSE]
    /\ UNCHANGED <<stats, job, told>>

Crash ==
  /\ \E t \in Thread : job[t] # NoJob
  /\ job' = [t \in Thread |-> NoJob]
  /\ UNCHANGED <<players, stats, told>>

-----------------------------------------------------------------------------
(***************************************************************************)
(* History.                                                                *)
(***************************************************************************)
\* t has looked for its nick and not inserted it.
Choosing(t) == job[t].next \in {"queryPlayerNewUserID", "insertPlayer"}

\* t has read a user id and not inserted it.
Holding(t) == At(t, "insertPlayer")

Races ==
  {<<"nick", job[t].nick>> : t \in {t \in Thread : Choosing(t) /\
       \E u \in Thread \ {t} : Choosing(u) /\ job[u].nick = job[t].nick}}
    \union
  {<<"userid", job[t].userid>> : t \in {t \in Thread : Holding(t) /\
       \E u \in Thread \ {t} : Holding(u)}}

\* A nick longer than its column is looked for as it is, and stored without its end.
Cropped == {<<"nick", Cut[n]>> : n \in {n \in Nick : Cut[n] # n}}

Spoiled(t) ==
  CASE At(t, "queryPlayerNewUserID") -> {<<"userid", -1>>}
    [] job[t].next \in {"insertPlayer", "insertPlayerStats"} -> {<<"pid", job[t].pid>>}
    [] OTHER -> {}

\* A player whose thread dies before the statistics are inserted.
Interrupted(t) == IF At(t, "insertPlayerStats") THEN {<<"pid", job[t].pid>>} ELSE {}

Step(t) ==
  \/ NewUser(t) \/ NewUserID(t) \/ InsertPlayer(t) \/ InsertPlayerStats(t)
  \/ Login(t) \/ LastLogin(t)

Failure(t) ==
  \/ NewUserIDFails(t) \/ InsertPlayerFails(t) \/ InsertPlayerStatsFails(t) \/ LastLoginFails(t)

Init ==
  /\ players = <<>>
  /\ stats = {}
  /\ job = [t \in Thread |-> NoJob]
  /\ told = {}
  /\ noted = Cropped

Next ==
  \/ /\ Bar \/ \E t \in Thread : Step(t)
     /\ noted' = noted \union Races'
  \/ /\ MayFail
     /\ \E t \in Thread : Failure(t) /\ noted' = noted \union Races' \union Spoiled(t)
  \/ /\ MayFail
     /\ \E t \in Thread :
          NewUserBlindly(t) /\ noted' = noted \union {<<"nick", job'[t].nick>>} \union Races'
  \/ /\ Crash
     /\ noted' = noted \union UNION {Interrupted(t) : t \in Thread}

Spec == Init /\ [][Next]_vars

-----------------------------------------------------------------------------
(***************************************************************************)
(* Properties.                                                             *)
(***************************************************************************)
RegistrationJob ==
  [next : {"queryPlayerNewUserID", "insertPlayer", "insertPlayerStats"},
   nick : Nick, email : Email, password : Digest, userid : Int, pid : Int]

LoginJob ==
  [next : {"updatePlayerLastLogin"}, pid : Nat, nick : Nick, password : Password, ip : Ip]

Job == {NoJob} \union RegistrationJob \union LoginJob

\* Types; statistics and logins are those of players.
TypeOK ==
  /\ players \in Seq(Player)
  /\ stats \subseteq ProfileId
  /\ job \in [Thread -> Job]
  /\ \A t \in Thread : At(t, "updatePlayerLastLogin") => job[t].pid \in ProfileId
  /\ told \subseteq [pid : Int, nick : Nick, email : Email]
  /\ noted \subseteq ({"nick"} \X Nick) \union ({"userid", "pid"} \X Int)

\* Two players have one unique nick only after two registrations of it have
\* overlapped, after a look-up failed, or when it lost its end.
UniqueNicksDiffer ==
  \A i, k \in ProfileId :
    players[i].uniquenick = players[k].uniquenick =>
      i = k \/ <<"nick", players[i].uniquenick>> \in noted

\* A player has the user id of an earlier one only when it came with that
\* player's digest for its email or nick, or when two registrations overlapped
\* between reading the greatest id and inserting.
UserIdsDiffer ==
  \A k \in ProfileId :
    \/ <<"userid", players[k].userid>> \in noted
    \/ \A i \in 1 .. k - 1 : players[i].userid # players[k].userid
    \/ \E i \in 1 .. k - 1 :
         /\ players[i].userid = players[k].userid
         /\ \E p \in Password : players[i].password = p /\ players[k].password = Hash[p]
         /\ \/ players[i].email = players[k].email
            \/ \E n \in Nick : Cut[n] = players[k].uniquenick
                                 /\ Fold[n] = Fold[players[i].uniquenick]

\* A player has statistics unless its registration is about to insert them, or
\* has died or failed before it did.
StatsForEveryPlayer ==
  \A i \in ProfileId :
    \/ i \in stats
    \/ \E t \in Thread : At(t, "insertPlayerStats") /\ job[t].pid = i
    \/ <<"pid", i>> \in noted

\* Whoever is told a profile id has a player of that id, nick and email; -1 is
\* told only after a failed insertion.
AnswersAreTrue ==
  \A a \in told :
    \/ /\ a.pid \in ProfileId
       /\ players[a.pid].uniquenick = a.nick /\ players[a.pid].email = a.email
    \/ a.pid = -1 /\ <<"pid", -1>> \in noted

\* The time and place of a login are written only into the player whose nick
\* and password the client has sent, whoever else shares the user id.
LastLoginIsOwn ==
  [][\A i \in ProfileId :
       players'[i].last_login_ip # players[i].last_login_ip =>
         \E t \in Thread :
           /\ At(t, "updatePlayerLastLogin")
           /\ players[i].password = Hash[job[t].password]
           /\ Fold[players[i].uniquenick] = Fold[Strip[job[t].nick]]]_vars

=============================================================================
