-------------------------------- MODULE Gpcm --------------------------------
(***************************************************************************)
(* The presence server: sessions, status and friends of GPCM               *)
(* (gpcm/client.cpp) over the list of connections the Server keeps         *)
(* (server.cpp) and the table PlayerFriends (database/player_friend.cpp).  *)
(*                                                                         *)
(* Every connection has a detached thread that runs Client::Listen; the    *)
(* GPCM heartbeat and the admin's kick request run on threads of their     *)
(* own.  All of them are Agents.  The server mutex covers only a copy of   *)
(* the list (GetClients) and the removal of an entry, the database mutex   *)
(* only one query, and a session is written by its own thread and by       *)
(* whoever disconnects it: a step is one such access, and the steps of     *)
(* agents interleave.  job[a] is the agent's stack: the handler (op), the  *)
(* point it is at (at) and its locals.                                     *)
(*                                                                         *)
(* Left out: the authtoken, passwords, names and answers that carry no     *)
(* presence, the chat log, and the messages of kind 1, 2, 4, 6 and 101     *)
(* that a handler only passes on.  The words Online, Resting and Playing   *)
(* are one status.  A scan of the list meets its entries in any order and  *)
(* a search of it is one step.  A query may fail wherever a handler makes  *)
(* one: it returns false, nobody looks, and the handler goes on with what  *)
(* a default object or an untouched table gives it.                        *)
(***************************************************************************)
EXTENDS Integers, FiniteSets

CONSTANTS
  Conn,        \* connections the server accepts, one Client object each
  Profile,     \* profile ids with a row in Players
  Heartbeat,   \* the thread of GPCM::Client::Heartbeat
  Admin,       \* the thread that serves an admin's kick request
  None,        \* the profile id -1; also: no connection
  Request,     \* the kinds of request clients send
  Befriended   \* the pairs of profiles with a row in PlayerFriends at the start

Agent == Conn \union {Heartbeat, Admin}
Pair  == {{p, q} : p, q \in Profile}

Kinds == {"login", "status", "getprofile", "authadd", "delbuddy", "pinvite", "unknown"}

ASSUME GpcmAssumption ==
  /\ None \notin Conn \union Profile
  /\ Heartbeat \notin Conn /\ Admin \notin Conn /\ Heartbeat # Admin
  /\ Request \subseteq Kinds
  /\ Befriended \subseteq Pair

VARIABLES
  listed,    \* _clients of the GPCM server
  fd,        \* _socket of a Client: none before the accept, closed when it is -1
  peer,      \* the other end: up, lost (silent), owing (lost, unacknowledged data), dead
  profile,   \* _session.profileid
  status,    \* _session.status
  sync,      \* _sync_friends
  rows,      \* table PlayerFriends: rows of a pair, in either orientation; 2 is many
  view,      \* what a connection was last told of a profile
  job,       \* what every agent is doing
  noted      \* history: what was raced for, changed under way or lost in a failed query

session == <<profile, status, sync>>
vars == <<listed, fd, peer, profile, status, sync, rows, view, job, noted>>

(***************************************************************************)
(* Agents.                                                                 *)
(***************************************************************************)
Op == {"none", "kick", "heartbeat", "end"} \union Kinds

\* Handlers that run Client::Disconnect() on the session in `who'.
Closing == {"login", "kick", "heartbeat", "end", "unknown"}

At == {"idle", "none", "read", "ended", "sweep", "offline", "ask", "tell", "send",
       "unlist", "online", "list", "sync", "answer", "known", "insert", "remove"}

Status == {"none", "Offline", "Online"}

Job == [op : Op, at : At, want : Profile \union {None}, todo : SUBSET Conn,
        who : Conn \union {None}, friends : SUBSET Profile, to : Conn \union {None},
        from : Profile \union {None}, msg : Status]

Idle(at) == [op |-> "none", at |-> at, want |-> None, todo |-> {}, who |-> None,
             friends |-> {}, to |-> None, from |-> None, msg |-> "none"]

\* Where an agent is between two requests, or two rounds.
Home(a) == Idle(IF a \in Conn THEN "read" ELSE "idle")

Run(a, j)  == job' = [job EXCEPT ![a] = j]
Go(a, at)  == job' = [job EXCEPT ![a].at = at]
Return(a)  == Run(a, Home(a))

\* Data for a peer that is lost stays unacknowledged.
Sent(c) == peer' = [peer EXCEPT ![c] = IF @ = "lost" /\ fd[c] = "open" THEN "owing" ELSE @]

(***************************************************************************)
(* The table and the searches.                                             *)
(***************************************************************************)
queryPlayerFriendsByProfileId(p) == {q \in Profile : p # None /\ rows[{p, q}] > 0}

\* A session found by profile id; None when there is none.
findSessionByProfileId(q) ==
  LET found == {d \in listed : profile[d] = q}
  IN  IF found = {} THEN {None} ELSE found

(***************************************************************************)
(* The network and Server::Listen (external: what TCP does to a socket).   *)
(***************************************************************************)
Connect(c) ==
  /\ job[c].at = "none"
  /\ listed' = listed \union {c}
  /\ fd'   = [fd EXCEPT ![c] = "open"]
  /\ peer' = [peer EXCEPT ![c] = "up"]
  /\ Go(c, "read")
  /\ UNCHANGED <<session, view, rows>>

\* The peer goes silent: no more packets come from it.
Lose(c) ==
  /\ peer[c] = "up"
  /\ peer' = [peer EXCEPT ![c] = "lost"]
  /\ UNCHANGED <<listed, fd, session, view, rows, job>>

\* The retransmissions of what is unacknowledged run out.
TimeOut(c) ==
  /\ peer[c] = "owing"
  /\ peer' = [peer EXCEPT ![c] = "dead"]
  /\ UNCHANGED <<listed, fd, session, view, rows, job>>

(***************************************************************************)
(* Client::Listen.  A thread at "read" is between two requests: in the     *)
(* middle of a batch or waiting for the next.  When another thread closes  *)
(* its socket it may still handle the rest of its batch, or the batch the  *)
(* pending read() is given; the next read() fails.                         *)
(***************************************************************************)
\* read() gives 0 or an error: on to this->Disconnect().
EndOfInput(c) ==
  /\ job[c].at = "read" /\ (peer[c] = "dead" \/ fd[c] = "closed")
  /\ Run(c, [Idle("offline") EXCEPT !.op = "end", !.who = c])
  /\ UNCHANGED <<listed, fd, peer, session, view, rows>>

\* The peer closes the connection: the same, when it likes.
Leave(c) ==
  /\ job[c].at = "read" /\ peer[c] = "up"
  /\ Run(c, [Idle("offline") EXCEPT !.op = "end", !.who = c])
  /\ UNCHANGED <<listed, fd, peer, session, view, rows>>

\* onRequest dispatches a request of the batch at hand.
onRequest(c, op, j) ==
  /\ op \in Request
  /\ job[c].at = "read" /\ peer[c] = "up"
  /\ Run(c, [j EXCEPT !.op = op])
  /\ UNCHANGED <<listed, fd, peer, session, view, rows>>

(***************************************************************************)
(* Client::Disconnect(), run by agent a on the session job[a].who:         *)
(* the status becomes Offline, the friends are told, the socket is closed  *)
(* and the client leaves the list.                                         *)
(***************************************************************************)
\* The status is left as it was.
DisconnectOnline(a) ==
  /\ job[a].at = "offline"
  /\ Go(a, "ask")
  /\ UNCHANGED <<listed, fd, peer, session, view, rows>>

Disconnect(a) ==
  /\ job[a].at = "offline"
  /\ status' = [status EXCEPT ![job[a].who] = "Offline"]
  /\ Go(a, "ask")
  /\ UNCHANGED <<listed, fd, peer, profile, sync, view, rows>>

\* _SendNewStatus: the friends of the session ...
SendNewStatus(a) ==
  /\ job[a].at = "ask"
  /\ job' = [job EXCEPT ![a].at = "tell",
                        ![a].friends = queryPlayerFriendsByProfileId(profile[job[a].who])]
  /\ UNCHANGED <<listed, fd, peer, session, view, rows>>

\* (Without the check that the target is online.)
SendUnchecked(a) ==
  /\ job[a].at = "tell"
  /\ \E q \in job[a].friends : \E d \in findSessionByProfileId(q) :
       Run(a, [job[a] EXCEPT !.friends = @ \ {q}, !.at = "send", !.to = d,
                             !.from = profile[job[a].who], !.msg = status[job[a].who]])
  /\ UNCHANGED <<listed, fd, peer, session, view, rows>>

\* ... are looked up one by one; the message refers to the session's status
\* and is put together after the look-up.
SendBuddyMessage(a) ==
  /\ job[a].at = "tell"
  /\ \E q \in job[a].friends : \E d \in findSessionByProfileId(q) :
       LET j == [job[a] EXCEPT !.friends = @ \ {q}]
       IN  Run(a, IF d = None
                  THEN j
                  ELSE [j EXCEPT !.at = "send", !.to = d, !.from = profile[job[a].who],
                                 !.msg = status[job[a].who]])
  /\ UNCHANGED <<listed, fd, peer, session, view, rows>>

Send(a) ==
  /\ job[a].at = "send"
  /\ LET d == job[a].to IN
       /\ view' = IF fd[d] = "open" /\ job[a].from # None
                  THEN [view EXCEPT ![d][job[a].from] = job[a].msg]
                  ELSE view
       /\ Sent(d)
  /\ Run(a, [job[a] EXCEPT !.at = "tell", !.to = None, !.from = None, !.msg = "none"])
  /\ UNCHANGED <<listed, fd, session, rows>>

\* Net::Socket::Close.
Close(a) ==
  /\ job[a].at = "tell" /\ job[a].friends = {} /\ job[a].op \in Closing
  /\ fd' = [fd EXCEPT ![job[a].who] = "closed"]
  /\ Sent(job[a].who)
  /\ Go(a, "unlist")
  /\ UNCHANGED <<listed, session, view, rows>>

\* The entry is not erased.
onClientDisconnectKeeping(a) ==
  /\ job[a].at = "unlist"
  /\ Run(a, CASE job[a].op = "end"     -> Idle("ended")
              [] job[a].op = "unknown" -> Home(a)
              [] OTHER -> [job[a] EXCEPT !.at = "sweep", !.who = None])
  /\ UNCHANGED <<listed, fd, peer, session, view, rows>>

onClientDisconnect(a) ==
  /\ job[a].at = "unlist"
  /\ listed' = listed \ {job[a].who}
  /\ Run(a, CASE job[a].op = "end"     -> Idle("ended")
              [] job[a].op = "unknown" -> Home(a)
              [] OTHER -> [job[a] EXCEPT !.at = "sweep", !.who = None])
  /\ UNCHANGED <<fd, peer, session, view, rows>>

(***************************************************************************)
(* Disconnect(profileid), as requestLogin and requestAPIAdminKick run it:  *)
(* every entry of a copy of the list is compared with the profile wanted.  *)
(***************************************************************************)
Sweeping(a) == job[a].at = "sweep" /\ job[a].op \in {"login", "kick"}

\* (Entries are not compared with the profile wanted.)
MatchAnyone(a) ==
  /\ Sweeping(a)
  /\ \E d \in job[a].todo :
       Run(a, [job[a] EXCEPT !.todo = @ \ {d}, !.at = "offline", !.who = d])
  /\ UNCHANGED <<listed, fd, peer, session, view, rows>>

Match(a) ==
  /\ Sweeping(a)
  /\ \E d \in job[a].todo :
       /\ profile[d] = job[a].want
       /\ Run(a, [job[a] EXCEPT !.todo = @ \ {d}, !.at = "offline", !.who = d])
  /\ UNCHANGED <<listed, fd, peer, session, view, rows>>

Skip(a) ==
  /\ Sweeping(a)
  /\ \E d \in job[a].todo :
       /\ profile[d] # job[a].want
       /\ Run(a, [job[a] EXCEPT !.todo = @ \ {d}])
  /\ UNCHANGED <<listed, fd, peer, session, view, rows>>

(***************************************************************************)
(* requestLogin.  A login that is refused leaves the session as it is.     *)
(***************************************************************************)
\* Old sessions are not looked for.
LoginOnTop(c) ==
  \E p \in Profile : onRequest(c, "login", [Idle("sweep") EXCEPT !.want = p])

Login(c) ==
  \E p \in Profile :
    onRequest(c, "login", [Idle("sweep") EXCEPT !.want = p, !.todo = listed])

LoginProfile(c) ==
  /\ job[c].at = "sweep" /\ job[c].op = "login" /\ job[c].todo = {}
  /\ profile' = [profile EXCEPT ![c] = job[c].want]
  /\ Go(c, "online")
  /\ UNCHANGED <<listed, fd, peer, status, sync, view, rows>>

\* The status is set and the answer sent.
LoginStatus(c) ==
  /\ job[c].at = "online"
  /\ status' = [status EXCEPT ![c] = "Online"]
  /\ Sent(c)
  /\ Go(c, "list")
  /\ UNCHANGED <<listed, fd, profile, sync, view, rows>>

\* The list of friends is sent and remembered for _SyncFriends.
LoginFriends(c) ==
  /\ job[c].at = "list"
  /\ sync' = [sync EXCEPT ![c] = queryPlayerFriendsByProfileId(job[c].want)]
  /\ Sent(c)
  /\ Go(c, "sync")
  /\ UNCHANGED <<listed, fd, profile, status, view, rows>>

(***************************************************************************)
(* _SyncFriends: one friend of _sync_friends is looked up, then its status *)
(* is sent; requestLogin and every requestGetProfile run it once.          *)
(***************************************************************************)
SyncFind(c) ==
  /\ job[c].at = "sync"
  /\ \/ sync[c] = {} /\ Return(c)
     \/ \E q \in sync[c] : \E d \in findSessionByProfileId(q) :
          Run(c, [Idle("answer") EXCEPT !.op = job[c].op, !.want = q,
                   !.msg = IF d = None THEN "Offline" ELSE status[d]])
  /\ UNCHANGED <<listed, fd, peer, session, view, rows>>

SyncSend(c) ==
  /\ job[c].at = "answer"
  /\ view' = IF fd[c] = "open" THEN [view EXCEPT ![c][job[c].want] = job[c].msg] ELSE view
  /\ sync' = [sync EXCEPT ![c] = @ \ {job[c].want}]
  /\ Sent(c)
  /\ Return(c)
  /\ UNCHANGED <<listed, fd, profile, status, rows>>

GetProfile(c) == onRequest(c, "getprofile", Idle("sync"))

(***************************************************************************)
(* requestStatus, requestPlayerInvite, and what a request no handler knows *)
(* ends in.                                                                *)
(***************************************************************************)
SetStatus(c) ==
  /\ "status" \in Request
  /\ job[c].at = "read" /\ peer[c] = "up"
  /\ status' = [status EXCEPT ![c] = "Online"]
  /\ Run(c, [Idle("ask") EXCEPT !.op = "status", !.who = c])
  /\ UNCHANGED <<listed, fd, peer, profile, sync, view, rows>>

PlayerInvite(c) ==
  \E q \in Profile :
    onRequest(c, "pinvite", [Idle("tell") EXCEPT !.who = c, !.friends = {q}])

Told(c) ==
  /\ job[c].at = "tell" /\ job[c].friends = {} /\ job[c].op \in {"status", "pinvite"}
  /\ Return(c)
  /\ UNCHANGED <<listed, fd, peer, session, view, rows>>

UnknownAction(c) == onRequest(c, "unknown", [Idle("offline") EXCEPT !.who = c])

(***************************************************************************)
(* requestAuthAdd and requestDeleteBuddy: a look-up, then a write.         *)
(***************************************************************************)
AuthAdd(c) ==
  \E q \in Profile :
    onRequest(c, "authadd",
              [Idle("tell") EXCEPT !.who = c, !.friends = {q}, !.want = q])

\* The row is written whether there is one or not.
AuthAddBlindly(c) ==
  /\ job[c].at = "tell" /\ job[c].friends = {} /\ job[c].op = "authadd"
  /\ Run(c, [Idle("insert") EXCEPT !.op = "authadd", !.want = job[c].want])
  /\ UNCHANGED <<listed, fd, peer, session, view, rows>>

AuthAddCheck(c) ==
  /\ job[c].at = "tell" /\ job[c].friends = {} /\ job[c].op = "authadd"
  /\ IF job[c].want \in queryPlayerFriendsByProfileId(profile[c])
     THEN Sent(c) /\ Return(c)
     ELSE /\ Run(c, [Idle("insert") EXCEPT !.op = "authadd", !.want = job[c].want])
          /\ UNCHANGED peer
  /\ UNCHANGED <<listed, fd, session, view, rows>>

\* A session without a profile has no row in Players for the key to refer to.
AuthAddInsert(c) ==
  /\ job[c].at = "insert"
  /\ rows' = IF profile[c] = None
             THEN rows
             ELSE [rows EXCEPT ![{profile[c], job[c].want}] = IF @ = 0 THEN 1 ELSE 2]
  /\ Return(c)
  /\ UNCHANGED <<listed, fd, peer, session, view>>

DeleteBuddy(c) ==
  \E q \in Profile : onRequest(c, "delbuddy", [Idle("known") EXCEPT !.want = q])

DeleteBuddyCheck(c) ==
  /\ job[c].at = "known"
  /\ IF job[c].want \in queryPlayerFriendsByProfileId(profile[c])
     THEN Go(c, "remove") /\ UNCHANGED peer
     ELSE Sent(c) /\ Return(c)
  /\ UNCHANGED <<listed, fd, session, view, rows>>

DeleteBuddyRemove(c) ==
  /\ job[c].at = "remove"
  /\ rows' = [rows EXCEPT ![{profile[c], job[c].want}] = 0]
  /\ Return(c)
  /\ UNCHANGED <<listed, fd, peer, session, view>>

(***************************************************************************)
(* requestAPIAdminKick and GPCM::Client::Heartbeat.                        *)
(***************************************************************************)
Kick ==
  /\ job[Admin].at = "idle"
  /\ \E p \in Profile :
       Run(Admin, [Idle("sweep") EXCEPT !.op = "kick", !.want = p, !.todo = listed])
  /\ UNCHANGED <<listed, fd, peer, session, view, rows>>

\* Only connections that have logged in are looked after.
BeatLoggedIn ==
  /\ job[Heartbeat].at = "idle"
  /\ Run(Heartbeat, [Idle("sweep") EXCEPT !.op = "heartbeat",
                                          !.todo = {d \in listed : profile[d] # None}])
  /\ UNCHANGED <<listed, fd, peer, session, view, rows>>

Beat ==
  /\ job[Heartbeat].at = "idle"
  /\ Run(Heartbeat, [Idle("sweep") EXCEPT !.op = "heartbeat", !.todo = listed])
  /\ UNCHANGED <<listed, fd, peer, session, view, rows>>

SweepDone(a) ==
  /\ job[a].at = "sweep" /\ job[a].op \in {"kick", "heartbeat"} /\ job[a].todo = {}
  /\ Return(a)
  /\ UNCHANGED <<listed, fd, peer, session, view, rows>>

\* The keep-alive is handed to the kernel ...
KeepAlive(d) ==
  /\ job[Heartbeat].at = "sweep" /\ d \in job[Heartbeat].todo
  /\ fd[d] = "open"
  /\ Sent(d)
  /\ Run(Heartbeat, [job[Heartbeat] EXCEPT !.todo = @ \ {d}])
  /\ UNCHANGED <<listed, fd, session, view, rows>>

\* ... or refused: the descriptor is -1, the connection has timed out, or the
\* peer has reset it.
SendFailed(d) ==
  /\ job[Heartbeat].at = "sweep" /\ d \in job[Heartbeat].todo
  /\ fd[d] = "closed" \/ peer[d] \in {"dead", "up"}
  /\ peer' = [peer EXCEPT ![d] = "dead"]
  /\ Run(Heartbeat, [job[Heartbeat] EXCEPT !.todo = @ \ {d}, !.at = "offline", !.who = d])
  /\ UNCHANGED <<listed, fd, session, view, rows>>

(***************************************************************************)
(* Queries that fail.  A look-up finds no friends, a write leaves the      *)
(* table as it was; whether it does is ignored.                            *)
(***************************************************************************)
\* Nobody is told the new status.
SendNewStatusFails(a) ==
  /\ job[a].at = "ask"
  /\ job' = [job EXCEPT ![a].at = "tell", ![a].friends = {}]
  /\ UNCHANGED <<listed, fd, peer, session, view, rows>>

\* An empty list of friends is sent, and there is nobody to synchronize.
LoginFriendsFails(c) ==
  /\ job[c].at = "list"
  /\ sync' = [sync EXCEPT ![c] = {}]
  /\ Sent(c)
  /\ Go(c, "sync")
  /\ UNCHANGED <<listed, fd, profile, status, view, rows>>

\* The target is no friend yet.
AuthAddCheckFails(c) ==
  /\ job[c].at = "tell" /\ job[c].friends = {} /\ job[c].op = "authadd"
  /\ Run(c, [Idle("insert") EXCEPT !.op = "authadd", !.want = job[c].want])
  /\ UNCHANGED <<listed, fd, peer, session, view, rows>>

\* The buddy to be deleted is not a buddy.
DeleteBuddyCheckFails(c) ==
  /\ job[c].at = "known"
  /\ Sent(c) /\ Return(c)
  /\ UNCHANGED <<listed, fd, session, view, rows>>

\* insertPlayerFriend and removePlayerFriend.
FriendWriteFails(c) ==
  /\ job[c].at \in {"insert", "remove"}
  /\ Return(c)
  /\ UNCHANGED <<listed, fd, peer, session, view, rows>>

(***************************************************************************)
(* The specification.                                                      *)
(***************************************************************************)
Init ==
  /\ listed = {}
  /\ fd      = [c \in Conn |-> "none"]
  /\ peer    = [c \in Conn |-> "dead"]
  /\ profile = [c \in Conn |-> None]
  /\ status  = [c \in Conn |-> "none"]
  /\ sync    = [c \in Conn |-> {}]
  /\ rows    = [r \in Pair |-> IF r \in Befriended THEN 1 ELSE 0]
  /\ view    = [c \in Conn |-> [p \in Profile |-> "none"]]
  /\ job     = [a \in Agent |-> Idle(IF a \in Conn THEN "none" ELSE "idle")]
  /\ noted   = {}

Network(c) == Connect(c) \/ Lose(c) \/ TimeOut(c) \/ Leave(c)

Requests(c) ==
  \/ Login(c) \/ SetStatus(c) \/ GetProfile(c) \/ PlayerInvite(c) \/ UnknownAction(c)
  \/ AuthAdd(c) \/ DeleteBuddy(c)

\* What the thread of a connection does without waiting for its peer.
Work(c) ==
  \/ EndOfInput(c) \/ LoginProfile(c) \/ LoginStatus(c) \/ LoginFriends(c)
  \/ SyncFind(c) \/ SyncSend(c) \/ Told(c)
  \/ AuthAddCheck(c) \/ AuthAddInsert(c)
  \/ DeleteBuddyCheck(c) \/ DeleteBuddyRemove(c)

Disconnecting(a) ==
  \/ Disconnect(a) \/ SendNewStatus(a) \/ SendBuddyMessage(a) \/ Send(a)
  \/ Close(a) \/ onClientDisconnect(a)
  \/ Match(a) \/ Skip(a) \/ SweepDone(a)

HeartbeatStep == Beat \/ \E d \in Conn : KeepAlive(d) \/ SendFailed(d)

Step ==
  \/ \E c \in Conn : Network(c) \/ Requests(c) \/ Work(c)
  \/ \E a \in Agent : Disconnecting(a)
  \/ Kick \/ HeartbeatStep

(***************************************************************************)
(* History.                                                                *)
(***************************************************************************)
\* c has taken its copy of the list and does not have profile p yet.
LoggingIn(c, p) ==
  /\ job[c].op = "login" /\ job[c].want = p
  /\ job[c].at \in {"sweep", "offline", "ask", "tell", "send", "unlist"}

\* a is about to tell d of q.
Telling(a, d, q) ==
  \/ job[a].at = "send" /\ job[a].to = d /\ job[a].from = q
  \/ job[a].at = "answer" /\ a = d /\ job[a].want = q

\* c is about to write a row for the pair r.
Inserting(c, r) == job[c].at = "insert" /\ r = {profile[c], job[c].want}

LoginNotes  == {<<"login", p>> : p \in Profile}
TellNotes   == {<<"told", d, q>> : d \in Conn, q \in Profile}
FriendNotes == {<<"insert", r>> : r \in Pair}
UntoldNotes == {<<"untold", p>> : p \in Profile}

LoginRaces ==
  {n \in LoginNotes : \E c, d \in Conn : c # d /\ LoggingIn(c, n[2]) /\ LoggingIn(d, n[2])}

TellRaces ==
  {n \in TellNotes : \E a, b \in Agent :
     a # b /\ Telling(a, n[2], n[3]) /\ Telling(b, n[2], n[3])}

FriendRaces ==
  {n \in FriendNotes : \E c, d \in Conn : c # d /\ Inserting(c, n[2]) /\ Inserting(d, n[2])}

Changes ==
  {<<"friends", r>> : r \in {s \in Pair : rows'[s] # rows[s]}}
    \union {<<"switch", p>> : p \in {profile[c] : c \in {d \in Conn :
              profile[d] # None /\ profile'[d] # profile[d]}}}

\* The thread of a connection that ends does not find whom to tell: the
\* profile; and the row a failed look-up does not find.
Untold(a) ==
  {n \in UntoldNotes : /\ job[a].op = "end" /\ profile[job[a].who] = n[2]
                       /\ queryPlayerFriendsByProfileId(n[2]) # {}}

Overlooked(c) ==
  {n \in FriendNotes : n[2] = {profile[c], job[c].want} /\ rows[n[2]] > 0}

Record(lost) ==
  noted' = noted \union LoginRaces' \union TellRaces' \union FriendRaces' \union Changes
                 \union lost

Harmless(c) == LoginFriendsFails(c) \/ DeleteBuddyCheckFails(c) \/ FriendWriteFails(c)

Failure ==
  \/ \E a \in Agent : SendNewStatusFails(a) /\ Record(Untold(a))
  \/ \E c \in Conn : \/ AuthAddCheckFails(c) /\ Record(Overlooked(c))
                     \/ Harmless(c) /\ Record({})

Next == (Step /\ Record({})) \/ Failure

Spec == Init /\ [][Next]_vars

\* Threads run, TCP gives up on unacknowledged data, the heartbeat wakes up.
\* (A step that fails leaves the handler where the step itself would.)
Fairness ==
  /\ \A c \in Conn : WF_vars((Work(c) \/ Disconnecting(c)) /\ Record({}))
  /\ \A c \in Conn : WF_vars(TimeOut(c) /\ Record({}))
  /\ WF_vars(Disconnecting(Admin) /\ Record({}))
  /\ WF_vars((HeartbeatStep \/ Disconnecting(Heartbeat)) /\ Record({}))

FairSpec == Spec /\ Fairness

(***************************************************************************)
(* Properties.                                                             *)
(***************************************************************************)
\* The tables and stacks hold only what the C++ types and the schema allow,
\* and a Disconnect or a message in flight always has a client to work on.
TypeOK ==
  /\ listed \subseteq Conn
  /\ fd \in [Conn -> {"none", "open", "closed"}]
  /\ peer \in [Conn -> {"up", "lost", "owing", "dead"}]
  /\ profile \in [Conn -> Profile \union {None}]
  /\ status \in [Conn -> Status]
  /\ sync \in [Conn -> SUBSET Profile]
  /\ rows \in [Pair -> 0 .. 2]
  /\ view \in [Conn -> [Profile -> Status]]
  /\ job \in [Agent -> Job]
  /\ \A a \in Agent :
       /\ job[a].at \in {"offline", "ask", "tell", "send", "unlist"} => job[a].who # None
       /\ job[a].at = "send" => job[a].to # None

\* Two connections on the list hold the same profile only after two logins
\* for it overlapped: otherwise the sweep of Disconnect(profileid), over a
\* copy of the list taken before, has reached every older session.
OneSession ==
  \A c, d \in listed :
    c # d /\ profile[c] = profile[d] /\ profile[c] # None => <<"login", profile[c]>> \in noted

\* A connection whose socket is open is on the list, where a kick and the
\* heartbeat can find it, and one whose socket is closed is on the list only
\* while somebody is about to take it off, however many agents disconnect it
\* at once.
ListMatchesSockets ==
  \A c \in Conn :
    /\ fd[c] = "open" => c \in listed
    /\ c \in listed /\ fd[c] = "closed" =>
         \E a \in Agent : job[a].at = "unlist" /\ job[a].who = c

\* Nobody sees a friend online when the last connection of that friend has
\* ended, whoever disconnected it and whatever was synchronized meanwhile,
\* unless two messages about the friend were on their way at once, the
\* thread that ended could not read whom to tell, the friendship is younger,
\* or somebody logged in over another profile.
NoGhosts ==
  \A c \in listed : \A p, q \in Profile :
    /\ fd[c] = "open" /\ profile[c] = p /\ rows[{p, q}] > 0 /\ view[c][q] = "Online"
    /\ noted \intersect ({<<"login", p>>, <<"friends", {p, q}>>, <<"told", c, q>>,
                           <<"untold", q>>} \union {<<"switch", r>> : r \in Profile}) = {}
    => \E d \in Conn : profile[d] = q /\ job[d].at # "ended"

\* A pair of players has two rows in PlayerFriends only after two AuthAdd
\* requests for the pair passed the look-up before either wrote, or after the
\* look-up of one failed.
OneRowPerFriend ==
  \A r \in Pair : rows[r] > 1 => <<"insert", r>> \in noted

\* A client whose peer is gone without a word is taken off the list in the
\* end: only the heartbeat's keep-alive makes TCP notice, since read() has no
\* time limit.  (A peer that is there and says nothing stays, see
\* IdleClientsLeave.)
SilentClientsLeave == \A c \in Conn : peer[c] = "lost" ~> c \notin listed

(***************************************************************************)
(* Why they hold: what an agent relies on between two of its steps.        *)
(***************************************************************************)
Accepted == {c \in Conn : fd[c] # "none"}

\* A connection is on the list, has a profile or runs only once accepted.
AcceptedFirst ==
  /\ listed \subseteq Accepted
  /\ \A c \in Conn : c \notin Accepted => profile[c] = None
  /\ \A c \in Conn : job[c].at = "none" <=> c \notin Accepted

\* Sessions under way to be disconnected were accepted once, the one about to
\* leave the list is closed, and a sweep between two entries works on none.
Handling(a) ==
  /\ job[a].todo \subseteq Accepted
  /\ job[a].who \in Accepted \union {None}
  /\ job[a].at = "unlist" => fd[job[a].who] = "closed"
  /\ job[a].at = "sweep" => job[a].who = None

\* Every other session of the profile a login wants is still to be compared
\* or being disconnected.
Sweeps(c) ==
  \A p \in Profile : LoggingIn(c, p) /\ <<"login", p>> \notin noted =>
    \A d \in listed \ {c} : profile[d] = p => d \in job[c].todo \/ d = job[c].who

\* There is no row yet of a friendship about to be inserted.
Befriends(c) ==
  \A r \in Pair : Inserting(c, r) /\ <<"insert", r>> \notin noted => rows[r] = 0

RacesNoted == LoginRaces \union FriendRaces \subseteq noted

IInv ==
  /\ TypeOK /\ AcceptedFirst /\ RacesNoted
  /\ \A a \in Agent : Handling(a)
  /\ \A c \in Conn : Sweeps(c) /\ Befriends(c)
  /\ OneSession /\ ListMatchesSockets /\ OneRowPerFriend

(***************************************************************************)
(* Sessions, implemented: a hunt is a login or a kick with its copy of the *)
(* list; the entries still to be compared that hold the profile and the    *)
(* one being disconnected are due.                                         *)
(***************************************************************************)
Hunting(a) ==
  /\ job[a].op \in {"login", "kick"}
  /\ job[a].at \in {"sweep", "offline", "ask", "tell", "send", "unlist"}

Wanted == [a \in Agent |-> IF Hunting(a) THEN job[a].want ELSE None]

Due ==
  [a \in Agent |-> {d \in Conn : /\ Hunting(a)
                                 /\ \/ d \in job[a].todo /\ profile[d] = job[a].want
                                    \/ d = job[a].who}]

Ending == {c \in Accepted : peer[c] = "dead" \/ job[c].op \in {"end", "unknown"}}

Raced == {p \in Profile : <<"login", p>> \in noted}

Promise == INSTANCE Sessions WITH
  Hunter <- Agent, socket <- fd, holder <- profile, wants <- Wanted, due <- Due,
  ending <- Ending, raced <- Raced

\* Whatever the steps of Disconnect, of two sweeps and of the heartbeat do in
\* between, nobody is disconnected without a reason, a kick or a login is done
\* only when every session it was after is off the list, and only then does a
\* login take its profile.
KeepsSessions == Promise!Spec

\* What a handler runs for, and the reason of whoever disconnects a session.
Entitled(a) ==
  /\ job[a].op = "kick" => a = Admin
  /\ a = Heartbeat => job[a].op \in {"none", "heartbeat"}
  /\ job[a].op \in {"login", "kick"} => job[a].want # None
  /\ job[a].at \in {"online", "list", "sync"} => job[a].op \in {"login", "getprofile"}
  /\ job[a].op = "heartbeat" /\ job[a].who # None => peer[job[a].who] = "dead"
  /\ job[a].op \in {"end", "unknown"} => job[a].who = a

\* "Disconnect old session" (gpcm/client.cpp:231): a profile has one session.
OneSessionPerProfile ==
  \A c, d \in listed : c # d /\ profile[c] = profile[d] => profile[c] = None

\* "closes connections that have not sent any data in the last minute"
\* (gpcm/client.h:267): no connection is on the list for ever while its
\* thread waits for data.
IdleClientsLeave == \A c \in Conn : []<>(c \notin listed \/ job[c].at # "read")

=============================================================================
