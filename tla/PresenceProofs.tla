--------------------------- MODULE PresenceProofs ---------------------------
(***************************************************************************)
(* Proofs about what clients of Gpcm are told of their friends: NoGhosts,  *)
(* for any connections, profiles and kinds of request.                     *)
(*                                                                         *)
(* PInv, on top of IInv, is the inductive invariant.  Its heart is         *)
(* Settles: while a client sees a friend online, or is about to, some      *)
(* connection of the friend has not yet told it otherwise, and will before *)
(* it ends.  A step either leaves every agent with as much to tell as      *)
(* before (Settling), or is the message itself.                            *)
(***************************************************************************)
EXTENDS GpcmProofs

\* The places a thread passes on its way out of Listen.
EndAts == {"offline", "ask", "tell", "send", "unlist"}

\* What a connection's own thread knows of its session: no other thread sets
\* a status online, logs it in or changes what it synchronizes.
Own(d) ==
  /\ job[d].op = "end" =>
       /\ job[d].who = d /\ job[d].at \in EndAts
       /\ job[d].at # "offline" => status[d] = "Offline"
       /\ job[d].at = "send" => job[d].from = profile[d] /\ job[d].msg = "Offline"
  /\ job[d].at = "ended" => status[d] = "Offline" /\ fd[d] = "closed"
  /\ job[d].at \in {"online", "list"} => profile[d] # None /\ job[d].want = profile[d]
  /\ job[d].op = "login" /\ job[d].at \in LoginAts => job[d].want # None
  /\ profile[d] = None =>
       sync[d] = {} /\ job[d].at # "answer" /\ \A q \in Profile : view[d][q] = "none"

\* A message is only ever for a connection that has logged in.
Addressed(a) == job[a].to # None => profile[job[a].to] # None

\* NoGhosts promises the connection c of profile p something about q.
Watching(c, p, q) ==
  /\ c \in listed /\ fd[c] = "open" /\ profile[c] = p /\ p # q /\ rows[{p, q}] > 0
  /\ noted \intersect ({<<"login", p>>, <<"friends", {p, q}>>, <<"told", c, q>>,
                         <<"untold", q>>} \union {<<"switch", r>> : r \in Profile}) = {}

\* The thread of d runs, or has still to tell the connection c of profile p
\* that d's profile is offline.
Unsettled(d, c, p) ==
  \/ job[d].op # "end" /\ job[d].at # "ended"
  \/ job[d].at \in {"offline", "ask"}
  \/ job[d].at \in {"tell", "send"} /\ p \in job[d].friends
  \/ job[d].at = "send" /\ job[d].to = c

\* c sees q online, or a message that says so is on its way.
Hot(c, q) ==
  view[c][q] = "Online" \/ \E a \in Agent : Telling(a, c, q) /\ job[a].msg = "Online"

Settles ==
  \A c \in Conn : \A p, q \in Profile :
    Watching(c, p, q) /\ Hot(c, q) => \E d \in Conn : profile[d] = q /\ Unsettled(d, c, p)

PInv ==
  /\ TellRaces \subseteq noted
  /\ \A d \in Conn : Own(d)
  /\ \A a \in Agent : Addressed(a)
  /\ Settles

-----------------------------------------------------------------------------
(***************************************************************************)
(* What a step of agent a, whose job becomes j, has to leave as it was.    *)
(***************************************************************************)
LEMMA JobsAfter ==
  ASSUME TypeOK, NEW a \in Agent, NEW j \in Job, Becomes(a, j)
  PROVE  job' \in [Agent -> Job] /\ job'[a] = j /\ \A b \in Agent \ {a} : job'[b] = job[b]
BY DEF TypeOK, Becomes

\* A step of another agent leaves a connection's own knowledge true.
LEMMA OwnOfOthers ==
  ASSUME NEW d \in Conn, Own(d), job'[d] = job[d], profile'[d] = profile[d],
         sync'[d] = sync[d], status'[d] \in {status[d], "Offline"},
         fd[d] = "closed" => fd'[d] = "closed",
         profile[d] = None => view'[d] = view[d]
  PROVE  Own(d)'
BY DEF Own

\* A connection whose status is online still has to say that it is not.
LEMMA OnlineIsUnsettled ==
  ASSUME NEW d \in Conn, Own(d), status[d] = "Online", NEW c, NEW p
  PROVE  Unsettled(d, c, p)
BY DEF Own, Unsettled, EndAts

LEMMA RecordedTells ==
  ASSUME Records
  PROVE  TellRaces' \subseteq noted' /\ Changes \subseteq noted' /\ noted \subseteq noted'
BY DEF Records

\* Nobody starts to watch but by logging in or by befriending.
LEMMA WatchedBefore ==
  ASSUME Typed, Records, profile' = profile, rows' \in [Pair -> 0 .. 2],
         \A d \in Conn : profile[d] # None =>
           (d \in listed' => d \in listed) /\ (fd'[d] = "open" => fd[d] = "open"),
         NEW c \in Conn, NEW p \in Profile, NEW q \in Profile, Watching(c, p, q)'
  PROVE  Watching(c, p, q)
<1> DEFINE r == {p, q}
<1>1. r \in Pair
  BY DEF Pair
<1>2. <<"friends", r>> \notin noted'
  BY DEF Watching
<1>3. rows'[r] = rows[r]
  BY <1>1, <1>2, RecordedTells DEF Changes
<1>4. noted \subseteq noted' /\ profile[c] # None
  BY RecordedTells, ConnAgents DEF Watching
<1>5. QED
  BY <1>3, <1>4 DEF Watching

\* What a step must not do to those who have something to tell.
Settling(a) ==
  /\ \A c \in Conn : \A p, q \in Profile : Watching(c, p, q)' => Watching(c, p, q)
  /\ \A c \in Conn : \A p, q \in Profile :
       Watching(c, p, q)' /\ Hot(c, q)' /\ a \in Conn /\ profile[a] = q /\ Unsettled(a, c, p)
         => Unsettled(a, c, p)'
  /\ \A c \in Conn, q \in Profile :
       Hot(c, q)' => Hot(c, q) \/ \E d \in Conn : profile[d] = q /\ status[d] = "Online"

LEMMA SettlingKeeps ==
  ASSUME TypeOK, PInv, NEW a \in Agent, NEW j \in Job, Becomes(a, j), profile' = profile,
         Settling(a)
  PROVE  Settles'
<1> SUFFICES ASSUME NEW c \in Conn, NEW p \in Profile, NEW q \in Profile,
                    Watching(c, p, q)', Hot(c, q)'
             PROVE  \E d \in Conn : profile'[d] = q /\ Unsettled(d, c, p)'
  BY DEF Settles
<1>1. Watching(c, p, q)
  BY DEF Settling
<1>2. PICK d \in Conn : profile[d] = q /\ Unsettled(d, c, p)
  <2>1. CASE Hot(c, q)
    BY <1>1, <2>1 DEF PInv, Settles
  <2>2. CASE \E d \in Conn : profile[d] = q /\ status[d] = "Online"
    BY <2>2, OnlineIsUnsettled DEF PInv
  <2>3. QED
    BY <2>1, <2>2 DEF Settling
<1>3. Unsettled(d, c, p)'
  <2>1. CASE d = a
    BY <1>2, <2>1 DEF Settling
  <2>2. CASE d # a
    BY <1>2, <2>2, JobsAfter, ConnAgents DEF Unsettled
  <2>3. QED
    BY <2>1, <2>2
<1>4. QED
  BY <1>2, <1>3

\* A step that starts no message makes nobody see more than before.
LEMMA NothingNewTold ==
  ASSUME TypeOK, NEW a \in Agent, NEW j \in Job, Becomes(a, j),
         j.at \notin {"send", "answer"},
         NEW c \in Conn, NEW q \in Profile, view'[c][q] = "Online" => Hot(c, q), Hot(c, q)'
  PROVE  Hot(c, q)
<1>1. CASE \E b \in Agent : Telling(b, c, q)' /\ job'[b].msg = "Online"
  <2>1. PICK b \in Agent : Telling(b, c, q)' /\ job'[b].msg = "Online"
    BY <1>1
  <2>2. b # a
    BY <2>1, JobsAfter DEF Telling
  <2>3. QED
    BY <2>1, <2>2, JobsAfter DEF Telling, Hot
<1>2. QED
  BY <1>1 DEF Hot

-----------------------------------------------------------------------------
(***************************************************************************)
(* Steps that start a handler or go on with one, without a message.        *)
(***************************************************************************)
\* A job that leaves its agent with all it may have to tell.
Fresh(a, j) ==
  /\ j \in Job /\ j.to \in {None, job[a].to}
  /\ j.at \notin {"send", "answer", "ended", "online"}
  /\ a \in Conn /\ j.op = "end" => j.at = "offline" /\ j.who = a
  /\ j.at = "list" => a \in Conn /\ profile[a] # None /\ j.want = profile[a]
  /\ a \in Conn /\ j.op = "login" /\ j.at \in LoginAts => j.want # None

\* What a step of agent a leaves alone in the sessions.
Sessions(a) ==
  /\ \A d \in Conn \ {a} : status'[d] \in {status[d], "Offline"} /\ sync'[d] = sync[d]
  /\ a \in Conn /\ profile[a] = None => sync'[a] = {}
  /\ \A d \in Conn : fd[d] = "closed" => fd'[d] = "closed"
  /\ \A d \in Conn : profile[d] = None => view'[d] = view[d]
  /\ \A d \in Conn, q \in Profile : view'[d][q] = "Online" => Hot(d, q)

LEMMA FreshKeeps ==
  ASSUME IInv, PInv, Records, NEW a \in Agent, NEW j, Fresh(a, j), Becomes(a, j),
         profile' = profile, Sessions(a),
         \A c \in Conn : \A p, q \in Profile : Watching(c, p, q)' => Watching(c, p, q)
  PROVE  PInv'
<1>1. TypeOK /\ j \in Job
  BY IInvParts DEF Fresh
<1>2. job'[a] = j /\ \A b \in Agent \ {a} : job'[b] = job[b]
  BY <1>1, JobsAfter
<1>3. TellRaces' \subseteq noted'
  BY RecordedTells
<1>4. ASSUME NEW d \in Conn PROVE Own(d)'
  <2>1. Own(d) /\ d \in Agent
    BY ConnAgents DEF PInv
  <2>2. CASE d # a
    BY <1>2, <2>1, <2>2, OwnOfOthers DEF Sessions
  <2>3. CASE d = a
    BY <1>2, <2>1, <2>3 DEF Fresh, Sessions, Own, EndAts
  <2>4. QED
    BY <2>2, <2>3
<1>5. ASSUME NEW b \in Agent PROVE Addressed(b)'
  BY <1>2 DEF PInv, Addressed, Fresh
<1>6. Settles'
  <2>1. ASSUME NEW c \in Conn, NEW p \in Profile, NEW q \in Profile, a \in Conn
        PROVE  Unsettled(a, c, p)'
    BY <1>2, <2>1 DEF Unsettled, Fresh
  <2>2. ASSUME NEW c \in Conn, NEW q \in Profile, Hot(c, q)'
        PROVE  Hot(c, q)
    BY <1>1, <2>2, NothingNewTold DEF Sessions, Fresh
  <2>3. Settling(a)
    BY <2>1, <2>2 DEF Settling
  <2>4. QED
    BY <1>1, <2>3, SettlingKeeps
<1>7. QED
  BY <1>3, <1>4, <1>5, <1>6 DEF PInv

\* A step in the middle of Disconnect, or of telling the friends: the agent
\* goes on with the session it works on.
Onward(a, j) ==
  /\ j \in Job /\ j.to \in {None, job[a].to}
  /\ job[a].at \in EndAts /\ j.at \in {"ask", "tell", "unlist"}
  /\ j.op = job[a].op /\ j.want = job[a].want /\ j.who = job[a].who

LEMMA OnwardKeeps ==
  ASSUME IInv, PInv, Records, NEW a \in Agent, NEW j, Onward(a, j), Becomes(a, j),
         profile' = profile, Sessions(a),
         a \in Conn /\ j.op = "end" => status'[a] = "Offline",
         \A c \in Conn : \A p, q \in Profile : Watching(c, p, q)' => Watching(c, p, q),
         \A c \in Conn : \A p, q \in Profile :
           /\ Watching(c, p, q)' /\ Hot(c, q)' /\ a \in Conn /\ profile[a] = q
           /\ job[a].op = "end" /\ Unsettled(a, c, p)
           => Unsettled(a, c, p)'
  PROVE  PInv'
<1>1. TypeOK /\ j \in Job
  BY IInvParts DEF Onward
<1>2. job'[a] = j /\ \A b \in Agent \ {a} : job'[b] = job[b]
  BY <1>1, JobsAfter
<1>3. TellRaces' \subseteq noted'
  BY RecordedTells
<1>4. ASSUME NEW d \in Conn PROVE Own(d)'
  <2>1. Own(d) /\ d \in Agent
    BY ConnAgents DEF PInv
  <2>2. CASE d # a
    BY <1>2, <2>1, <2>2, OwnOfOthers DEF Sessions
  <2>3. CASE d = a
    BY <1>2, <2>1, <2>3 DEF Onward, Sessions, Own, EndAts, LoginAts
  <2>4. QED
    BY <2>2, <2>3
<1>5. ASSUME NEW b \in Agent PROVE Addressed(b)'
  BY <1>2 DEF PInv, Addressed, Onward
<1>6. Settles'
  <2>1. ASSUME NEW c \in Conn, NEW p \in Profile, NEW q \in Profile,
               Watching(c, p, q)', Hot(c, q)', a \in Conn, profile[a] = q, Unsettled(a, c, p)
        PROVE  Unsettled(a, c, p)'
    <3>1. CASE job[a].op = "end"
      BY <2>1, <3>1
    <3>2. CASE job[a].op # "end"
      BY <1>2, <3>2 DEF Unsettled, Onward
    <3>3. QED
      BY <3>1, <3>2
  <2>2. ASSUME NEW c \in Conn, NEW q \in Profile, Hot(c, q)'
        PROVE  Hot(c, q)
    BY <1>1, <2>2, NothingNewTold DEF Sessions, Onward
  <2>3. Settling(a)
    BY <2>1, <2>2 DEF Settling
  <2>4. QED
    BY <1>1, <2>3, SettlingKeeps
<1>7. QED
  BY <1>3, <1>4, <1>5, <1>6 DEF PInv

-----------------------------------------------------------------------------
(***************************************************************************)
(* The requests of a connection, and the end of its input.                 *)
(***************************************************************************)
\* The job a request starts.
Requested(c, j) ==
  /\ Becomes(c, j) /\ j \in Job /\ j.op \in Kinds /\ j.to = None
  /\ j.at \in {"sweep", "sync", "tell", "known", "offline", "ask"}
  /\ j.op = "login" => j.want # None

LEMMA RequestStarts ==
  ASSUME NEW c \in Conn, NEW op \in Kinds, NEW j \in Job, onRequest(c, op, j), j.to = None,
         j.at \in {"sweep", "sync", "tell", "known", "offline", "ask"},
         op = "login" => j.want # None
  PROVE  \E k : Requested(c, k)
<1> DEFINE k == [j EXCEPT !.op = op]
<1>1. k \in Job /\ k.op = op /\ k.at = j.at /\ k.to = j.to /\ k.want = j.want
  BY DEF Job, Op
<1>2. Becomes(c, k)
  BY DEF onRequest, Run, Becomes
<1> HIDE DEF k
<1>3. Requested(c, k)
  BY <1>1, <1>2 DEF Requested
<1>4. QED
  BY <1>3

LEMMA RequestIsStarted ==
  ASSUME TypeOK, NEW c \in Conn, Requests(c)
  PROVE  \E j : Requested(c, j)
<1>1. CASE Login(c)
  <2>1. PICK p \in Profile :
          onRequest(c, "login", [Idle("sweep") EXCEPT !.want = p, !.todo = listed])
    BY <1>1 DEF Login
  <2> DEFINE i == Idle("sweep")
             k == [i EXCEPT !.want = p, !.todo = listed]
  <2>2. i \in Job /\ i.at = "sweep" /\ i.to = None
    BY IdleFields DEF At
  <2>3. onRequest(c, "login", k) /\ listed \in SUBSET Conn
    BY <2>1 DEF TypeOK
  <2> HIDE DEF i
  <2>4. k \in Job /\ k.at = "sweep" /\ k.to = None /\ k.want # None
    BY <2>2, <2>3, ConnAgents DEF Job
  <2> HIDE DEF k
  <2>5. QED
    BY <2>3, <2>4, RequestStarts DEF Kinds
<1>2. CASE SetStatus(c)
  <2> DEFINE i == Idle("ask")
             j == [i EXCEPT !.op = "status", !.who = c]
  <2>1. i \in Job /\ i.at = "ask" /\ i.to = None
    BY IdleFields DEF At
  <2>2. Becomes(c, j)
    BY <1>2 DEF SetStatus, Run, Becomes
  <2> HIDE DEF i
  <2>3. j \in Job /\ j.op = "status" /\ j.at = "ask" /\ j.to = None
    BY <2>1 DEF Job, Op, Kinds
  <2> HIDE DEF j
  <2>4. Requested(c, j)
    BY <2>2, <2>3 DEF Requested, Kinds
  <2>5. QED
    BY <2>4
<1>3. CASE GetProfile(c)
  <2> DEFINE i == Idle("sync")
  <2>1. i \in Job /\ i.at = "sync" /\ i.to = None
    BY IdleFields DEF At
  <2>2. onRequest(c, "getprofile", i)
    BY <1>3 DEF GetProfile
  <2> HIDE DEF i
  <2>3. QED
    BY <2>1, <2>2, RequestStarts DEF Kinds
<1>4. CASE PlayerInvite(c)
  <2>1. PICK q \in Profile :
          onRequest(c, "pinvite", [Idle("tell") EXCEPT !.who = c, !.friends = {q}])
    BY <1>4 DEF PlayerInvite
  <2> DEFINE i == Idle("tell")
             k == [i EXCEPT !.who = c, !.friends = {q}]
  <2>2. i \in Job /\ i.at = "tell" /\ i.to = None
    BY IdleFields DEF At
  <2>3. onRequest(c, "pinvite", k)
    BY <2>1
  <2> HIDE DEF i
  <2>4. k \in Job /\ k.at = "tell" /\ k.to = None
    BY <2>2 DEF Job
  <2> HIDE DEF k
  <2>5. QED
    BY <2>3, <2>4, RequestStarts DEF Kinds
<1>5. CASE UnknownAction(c)
  <2> DEFINE i == Idle("offline")
             k == [i EXCEPT !.who = c]
  <2>1. i \in Job /\ i.at = "offline" /\ i.to = None
    BY IdleFields DEF At
  <2>2. onRequest(c, "unknown", k)
    BY <1>5 DEF UnknownAction
  <2> HIDE DEF i
  <2>3. k \in Job /\ k.at = "offline" /\ k.to = None
    BY <2>1 DEF Job
  <2> HIDE DEF k
  <2>4. QED
    BY <2>2, <2>3, RequestStarts DEF Kinds
<1>6. CASE AuthAdd(c)
  <2>1. PICK q \in Profile : onRequest(c, "authadd",
          [Idle("tell") EXCEPT !.who = c, !.friends = {q}, !.want = q])
    BY <1>6 DEF AuthAdd
  <2> DEFINE i == Idle("tell")
             k == [i EXCEPT !.who = c, !.friends = {q}, !.want = q]
  <2>2. i \in Job /\ i.at = "tell" /\ i.to = None
    BY IdleFields DEF At
  <2>3. onRequest(c, "authadd", k)
    BY <2>1
  <2> HIDE DEF i
  <2>4. k \in Job /\ k.at = "tell" /\ k.to = None
    BY <2>2 DEF Job
  <2> HIDE DEF k
  <2>5. QED
    BY <2>3, <2>4, RequestStarts DEF Kinds
<1>7. CASE DeleteBuddy(c)
  <2>1. PICK q \in Profile : onRequest(c, "delbuddy", [Idle("known") EXCEPT !.want = q])
    BY <1>7 DEF DeleteBuddy
  <2> DEFINE i == Idle("known")
             k == [i EXCEPT !.want = q]
  <2>2. i \in Job /\ i.at = "known" /\ i.to = None
    BY IdleFields DEF At
  <2>3. onRequest(c, "delbuddy", k)
    BY <2>1
  <2> HIDE DEF i
  <2>4. k \in Job /\ k.at = "known" /\ k.to = None
    BY <2>2 DEF Job
  <2> HIDE DEF k
  <2>5. QED
    BY <2>3, <2>4, RequestStarts DEF Kinds
<1>8. QED
  BY <1>1, <1>2, <1>3, <1>4, <1>5, <1>6, <1>7 DEF Requests

\* The frame of most steps: nobody is told anything, connections and rows stay.
LEMMA Undisturbed ==
  ASSUME IInv, PInv, Records, NEW a \in Agent,
         UNCHANGED <<listed, fd, profile, sync, view, rows>>,
         \A d \in Conn \ {a} : status'[d] \in {status[d], "Offline"}
  PROVE  /\ Sessions(a) /\ profile' = profile
         /\ \A c \in Conn : \A p, q \in Profile : Watching(c, p, q)' => Watching(c, p, q)
<1>1. rows' \in [Pair -> 0 .. 2] /\ Typed
  BY IInvParts DEF Typed
<1>2. Sessions(a)
  BY DEF Sessions, PInv, Own, Hot
<1>3. QED
  BY <1>1, <1>2, WatchedBefore

LEMMA RequestsKeep ==
  ASSUME IInv, PInv, Records, NEW c \in Conn, Requests(c)
  PROVE  PInv'
<1>1. PICK j : Requested(c, j)
  BY IInvParts, RequestIsStarted
<1>2. Fresh(c, j)
  BY <1>1 DEF Requested, Fresh, Kinds
<1>3. /\ UNCHANGED <<listed, fd, profile, sync, view, rows>>
      /\ \A d \in Conn \ {c} : status'[d] \in {status[d], "Offline"}
  BY IInvParts DEF Requests, Login, SetStatus, GetProfile, PlayerInvite, UnknownAction, AuthAdd,
                   DeleteBuddy, onRequest, session, Typed
<1>4. QED
  BY <1>1, <1>2, <1>3, Undisturbed, FreshKeeps, ConnAgents DEF Requested

LEMMA EndKeeps ==
  ASSUME IInv, PInv, Records, NEW c \in Conn, EndOfInput(c) \/ Leave(c)
  PROVE  PInv'
<1> DEFINE i == Idle("offline")
           j == [i EXCEPT !.op = "end", !.who = c]
<1>1. i \in Job /\ i.at = "offline" /\ i.to = None
  BY IdleFields DEF At
<1>2. /\ Becomes(c, j)
      /\ UNCHANGED <<listed, fd, peer, profile, status, sync, view, rows>>
  BY DEF EndOfInput, Leave, Run, Becomes, session
<1> HIDE DEF i
<1>3. j \in Job /\ j.op = "end" /\ j.at = "offline" /\ j.who = c /\ j.to = None
  BY <1>1 DEF Job, Op
<1> HIDE DEF j
<1>4. Fresh(c, j)
  BY <1>3 DEF Fresh
<1>5. QED
  BY <1>2, <1>4, Undisturbed, FreshKeeps, ConnAgents

-----------------------------------------------------------------------------
(***************************************************************************)
(* Steps that only read, look up or return.                                *)
(***************************************************************************)
LEMMA HomeIsFresh ==
  ASSUME NEW a \in Agent
  PROVE  Fresh(a, Home(a)) /\ (Return(a) => Becomes(a, Home(a)))
<1> DEFINE at == IF a \in Conn THEN "read" ELSE "idle"
           j == Idle(at)
<1>1. at \in At /\ at \in {"read", "idle"}
  BY DEF At
<1> HIDE DEF at
<1>2. j \in Job /\ j.op = "none" /\ j.at = at /\ j.to = None
  BY <1>1, IdleFields
<1> HIDE DEF j
<1>3. Fresh(a, j)
  BY <1>1, <1>2 DEF Fresh
<1>4. QED
  BY <1>3 DEF Home, j, at, Return, Run, Becomes

LEMMA ReturnKeeps ==
  ASSUME IInv, PInv, Records, NEW a \in Agent, Return(a),
         UNCHANGED <<listed, fd, profile, sync, view, rows>>, status' = status
  PROVE  PInv'
BY HomeIsFresh, Undisturbed, FreshKeeps

LEMMA SweepsKeep ==
  ASSUME IInv, PInv, Records, NEW a \in Agent, Match(a) \/ Skip(a) \/ SweepDone(a)
  PROVE  PInv'
<1>1. /\ UNCHANGED <<listed, fd, profile, sync, view, rows>>
      /\ \A d \in Conn \ {a} : status'[d] \in {status[d], "Offline"}
  BY DEF Match, Skip, SweepDone, session
<1>2. job[a] \in Job /\ (a \in Conn => Own(a))
  BY IInvParts DEF PInv
<1>3. CASE Match(a)
  <2>1. PICK d \in job[a].todo :
          Run(a, [job[a] EXCEPT !.todo = @ \ {d}, !.at = "offline", !.who = d])
    BY <1>3 DEF Match
  <2> DEFINE j == [job[a] EXCEPT !.todo = @ \ {d}, !.at = "offline", !.who = d]
  <2>2. Becomes(a, j) /\ d \in Conn
    BY <1>2, <2>1, JobFields DEF Run, Becomes
  <2>3. /\ j \in Job /\ j.op = job[a].op /\ j.at = "offline" /\ j.want = job[a].want
        /\ j.to = job[a].to
    BY <1>2, <2>2 DEF Job, At
  <2> HIDE DEF j
  <2>4. job[a].op \in {"login", "kick"} /\ job[a].at = "sweep"
    BY <1>3 DEF Match, Sweeping
  <2>5. a \in Conn /\ job[a].op = "login" => job[a].want # None
    BY <1>2, <2>4 DEF Own, LoginAts
  <2>6. Fresh(a, j)
    BY <2>3, <2>4, <2>5 DEF Fresh
  <2>7. QED
    BY <1>1, <2>2, <2>6, Undisturbed, FreshKeeps
<1>4. CASE Skip(a)
  <2>1. PICK d \in job[a].todo : Run(a, [job[a] EXCEPT !.todo = @ \ {d}])
    BY <1>4 DEF Skip
  <2> DEFINE j == [job[a] EXCEPT !.todo = @ \ {d}]
  <2>2. Becomes(a, j)
    BY <2>1 DEF Run, Becomes
  <2>3. /\ j \in Job /\ j.op = job[a].op /\ j.at = job[a].at /\ j.want = job[a].want
        /\ j.to = job[a].to
    BY <1>2 DEF Job
  <2> HIDE DEF j
  <2>4. job[a].op \in {"login", "kick"} /\ job[a].at = "sweep"
    BY <1>4 DEF Skip, Sweeping
  <2>5. a \in Conn /\ job[a].op = "login" => job[a].want # None
    BY <1>2, <2>4 DEF Own, LoginAts
  <2>6. Fresh(a, j)
    BY <2>3, <2>4, <2>5 DEF Fresh
  <2>7. QED
    BY <1>1, <2>2, <2>6, Undisturbed, FreshKeeps
<1>5. CASE SweepDone(a)
  BY <1>1, <1>5, ReturnKeeps DEF SweepDone, session
<1>6. QED
  BY <1>3, <1>4, <1>5

LEMMA LookUpsKeep ==
  ASSUME IInv, PInv, Records, NEW c \in Conn,
         \/ Told(c) \/ AuthAddCheck(c) \/ DeleteBuddyCheck(c)
         \/ AuthAddCheckFails(c) \/ DeleteBuddyCheckFails(c)
  PROVE  PInv'
<1>1. /\ UNCHANGED <<listed, fd, profile, sync, view, rows>> /\ status' = status
      /\ job[c].at \in {"tell", "known"} /\ c \in Agent
  BY ConnAgents DEF Told, AuthAddCheck, DeleteBuddyCheck, AuthAddCheckFails,
                    DeleteBuddyCheckFails, session
<1>2. job[c] \in Job /\ Own(c)
  BY <1>1, IInvParts DEF PInv
<1>3. CASE Return(c)
  BY <1>1, <1>3, ReturnKeeps
<1>4. CASE Run(c, [Idle("insert") EXCEPT !.op = "authadd", !.want = job[c].want])
  <2> DEFINE i == Idle("insert")
             w == job[c].want
             j == [i EXCEPT !.op = "authadd", !.want = w]
  <2>1. i \in Job /\ i.at = "insert" /\ i.to = None
    BY IdleFields DEF At
  <2>2. Becomes(c, j) /\ w \in Profile \union {None}
    BY <1>2, <1>4, JobFields DEF Run, Becomes
  <2> HIDE DEF i, w
  <2>3. j \in Job /\ j.op = "authadd" /\ j.at = "insert" /\ j.to = None
    BY <2>1, <2>2 DEF Job, Op, Kinds
  <2> HIDE DEF j
  <2>4. Fresh(c, j)
    BY <2>3 DEF Fresh
  <2>5. QED
    BY <1>1, <2>2, <2>4, Undisturbed, FreshKeeps
<1>5. CASE Go(c, "remove") /\ job[c].at = "known"
  <2>1. PICK j \in Job : /\ Becomes(c, j)
                         /\ j.op = job[c].op /\ j.at = "remove" /\ j.want = job[c].want
                         /\ j.todo = job[c].todo /\ j.who = job[c].who
                         /\ j.friends = job[c].friends /\ j.to = job[c].to
    BY <1>1, <1>5, IInvParts, GoIs DEF At
  <2>2. Fresh(c, j)
    BY <1>2, <1>5, <2>1 DEF Fresh, Own, EndAts, LoginAts
  <2>3. QED
    BY <1>1, <2>1, <2>2, Undisturbed, FreshKeeps
<1>6. QED
  BY <1>3, <1>4, <1>5 DEF Told, AuthAddCheck, DeleteBuddyCheck, AuthAddCheckFails,
                          DeleteBuddyCheckFails

LEMMA FailedWritesKeep ==
  ASSUME IInv, PInv, Records, NEW c \in Conn, FriendWriteFails(c)
  PROVE  PInv'
BY ReturnKeeps, ConnAgents DEF FriendWriteFails, session

LEMMA KickKeeps ==
  ASSUME IInv, PInv, Records, Kick
  PROVE  PInv'
<1>1. PICK p \in Profile :
        Run(Admin, [Idle("sweep") EXCEPT !.op = "kick", !.want = p, !.todo = listed])
  BY DEF Kick
<1> DEFINE i == Idle("sweep")
           j == [i EXCEPT !.op = "kick", !.want = p, !.todo = listed]
<1>2. i \in Job /\ i.at = "sweep" /\ i.to = None
  BY IdleFields DEF At
<1>3. Becomes(Admin, j) /\ listed \in SUBSET Conn
  BY <1>1, IInvParts DEF Run, Becomes, Typed
<1> HIDE DEF i
<1>4. j \in Job /\ j.op = "kick" /\ j.at = "sweep" /\ j.to = None
  BY <1>2, <1>3 DEF Job, Op
<1> HIDE DEF j
<1>5. Fresh(Admin, j)
  BY <1>4 DEF Fresh
<1>6. UNCHANGED <<listed, fd, profile, sync, view, rows>> /\ status' = status
  BY DEF Kick, session
<1>7. QED
  BY <1>3, <1>5, <1>6, Undisturbed, FreshKeeps, ConnAgents

LEMMA HeartbeatKeeps ==
  ASSUME IInv, PInv, Records, HeartbeatStep
  PROVE  PInv'
<1>1. UNCHANGED <<listed, fd, profile, sync, view, rows>> /\ status' = status
  BY DEF HeartbeatStep, Beat, KeepAlive, SendFailed, session
<1>2. job[Heartbeat] \in Job /\ Heartbeat \in Agent /\ Heartbeat \notin Conn
  BY IInvParts, ConnAgents, GpcmAssumption
<1>3. CASE Beat
  <2> DEFINE i == Idle("sweep")
             j == [i EXCEPT !.op = "heartbeat", !.todo = listed]
  <2>1. i \in Job /\ i.at = "sweep" /\ i.to = None
    BY IdleFields DEF At
  <2>2. Becomes(Heartbeat, j) /\ listed \in SUBSET Conn
    BY <1>3, IInvParts DEF Beat, Run, Becomes, Typed
  <2> HIDE DEF i
  <2>3. j \in Job /\ j.op = "heartbeat" /\ j.at = "sweep" /\ j.to = None
    BY <2>1, <2>2 DEF Job, Op
  <2> HIDE DEF j
  <2>4. Fresh(Heartbeat, j)
    BY <2>3 DEF Fresh
  <2>5. QED
    BY <1>1, <1>2, <2>2, <2>4, Undisturbed, FreshKeeps
<1>4. ASSUME NEW d \in Conn, KeepAlive(d)
      PROVE  PInv'
  <2> DEFINE j == [job[Heartbeat] EXCEPT !.todo = @ \ {d}]
  <2>1. Becomes(Heartbeat, j) /\ job[Heartbeat].at = "sweep"
    BY <1>4 DEF KeepAlive, Run, Becomes
  <2>2. j \in Job /\ j.at = "sweep" /\ j.to = job[Heartbeat].to
    BY <1>2, <2>1 DEF Job
  <2> HIDE DEF j
  <2>3. Fresh(Heartbeat, j)
    BY <1>2, <2>2 DEF Fresh
  <2>4. QED
    BY <1>1, <1>2, <2>1, <2>3, Undisturbed, FreshKeeps
<1>5. ASSUME NEW d \in Conn, SendFailed(d)
      PROVE  PInv'
  <2> DEFINE j == [job[Heartbeat] EXCEPT !.todo = @ \ {d}, !.at = "offline", !.who = d]
  <2>1. Becomes(Heartbeat, j)
    BY <1>5 DEF SendFailed, Run, Becomes
  <2>2. j \in Job /\ j.at = "offline" /\ j.to = job[Heartbeat].to
    BY <1>2 DEF Job, At
  <2> HIDE DEF j
  <2>3. Fresh(Heartbeat, j)
    BY <1>2, <2>2 DEF Fresh
  <2>4. QED
    BY <1>1, <1>2, <2>1, <2>3, Undisturbed, FreshKeeps
<1>6. QED
  BY <1>3, <1>4, <1>5 DEF HeartbeatStep

-----------------------------------------------------------------------------
(***************************************************************************)
(* Connections, rows and the login.                                        *)
(***************************************************************************)
LEMMA ConnectKeeps ==
  ASSUME IInv, PInv, Records, NEW c \in Conn, Connect(c)
  PROVE  PInv'
<1>1. PICK j \in Job : /\ Becomes(c, j)
                       /\ j.op = job[c].op /\ j.at = "read" /\ j.want = job[c].want
                       /\ j.todo = job[c].todo /\ j.who = job[c].who
                       /\ j.friends = job[c].friends /\ j.to = job[c].to
  BY IInvParts, ConnAgents, GoIs DEF Connect, At
<1>2. job[c].at = "none" /\ profile[c] = None /\ fd[c] = "none"
  BY IInvParts DEF Connect, AcceptedFirst, Accepted
<1>3. Fresh(c, j)
  BY <1>1, <1>2 DEF Fresh, PInv, Own, EndAts, LoginAts
<1>4. /\ listed' = listed \union {c} /\ fd' = [fd EXCEPT ![c] = "open"]
      /\ UNCHANGED <<profile, status, sync, view, rows>>
  BY DEF Connect, session
<1>5. Sessions(c)
  BY <1>2, <1>4, IInvParts DEF Sessions, PInv, Own, Hot, Typed
<1>6. \A d \in Conn : profile[d] # None =>
        (d \in listed' => d \in listed) /\ (fd'[d] = "open" => fd[d] = "open")
  BY <1>2, <1>4, IInvParts DEF Typed
<1>7. Typed /\ rows' \in [Pair -> 0 .. 2] /\ profile' = profile
  BY <1>4, IInvParts DEF Typed
<1>8. \A d \in Conn : \A p, q \in Profile : Watching(d, p, q)' => Watching(d, p, q)
  BY <1>6, <1>7, WatchedBefore
<1>9. QED
  BY <1>1, <1>3, <1>5, <1>7, <1>8, FreshKeeps, ConnAgents

LEMMA RowsKeep ==
  ASSUME IInv, PInv, Records, NEW c \in Conn, AuthAddInsert(c) \/ DeleteBuddyRemove(c)
  PROVE  PInv'
<1>1. Return(c) /\ UNCHANGED <<listed, fd, profile, status, sync, view>>
  BY DEF AuthAddInsert, DeleteBuddyRemove, session
<1>2. Typed /\ rows' \in [Pair -> 0 .. 2]
  <2>1. IInv'
    BY StepRows
  <2>2. QED
    BY <2>1, IInvParts DEF IInv, TypeOK
<1>3. Sessions(c)
  BY <1>1 DEF Sessions, PInv, Own, Hot
<1>4. \A d \in Conn : \A p, q \in Profile : Watching(d, p, q)' => Watching(d, p, q)
  BY <1>1, <1>2, WatchedBefore
<1>5. QED
  BY <1>1, <1>3, <1>4, HomeIsFresh, FreshKeeps, ConnAgents

LEMMA LoginAnswersKeep ==
  ASSUME IInv, PInv, Records, NEW c \in Conn,
         LoginStatus(c) \/ LoginFriends(c) \/ LoginFriendsFails(c)
  PROVE  PInv'
<1>1. /\ UNCHANGED <<listed, fd, profile, view, rows>>
      /\ \A d \in Conn \ {c} : status'[d] = status[d] /\ sync'[d] = sync[d]
      /\ job[c].at \in {"online", "list"} /\ c \in Agent
  BY IInvParts, ConnAgents DEF LoginStatus, LoginFriends, LoginFriendsFails, Typed
<1>2. PICK at \in {"list", "sync"} : Go(c, at) /\ (at = "list" => job[c].at = "online")
  BY DEF LoginStatus, LoginFriends, LoginFriendsFails
<1>3. PICK j \in Job : /\ Becomes(c, j)
                       /\ j.op = job[c].op /\ j.at = at /\ j.want = job[c].want
                       /\ j.todo = job[c].todo /\ j.who = job[c].who
                       /\ j.friends = job[c].friends /\ j.to = job[c].to
  BY <1>1, <1>2, IInvParts, GoIs DEF At
<1>4. Own(c)
  BY DEF PInv
<1>5. profile[c] # None /\ job[c].want = profile[c] /\ job[c].op # "end"
  BY <1>1, <1>4 DEF Own, EndAts
<1>6. Fresh(c, j)
  BY <1>1, <1>2, <1>3, <1>5 DEF Fresh, LoginAts
<1>7. Sessions(c)
  BY <1>1, <1>5 DEF Sessions, PInv, Own, Hot
<1>8. Typed /\ rows' \in [Pair -> 0 .. 2]
  BY <1>1, IInvParts DEF Typed
<1>9. \A d \in Conn : \A p, q \in Profile : Watching(d, p, q)' => Watching(d, p, q)
  BY <1>1, <1>8, WatchedBefore
<1>10. QED
  BY <1>1, <1>3, <1>6, <1>7, <1>9, FreshKeeps

\* The status a friend is found with is online only if the friend still has to
\* say that it is not.
LEMMA SyncFindKeeps ==
  ASSUME IInv, PInv, Records, NEW c \in Conn, SyncFind(c)
  PROVE  PInv'
<1>1. /\ UNCHANGED <<listed, fd, profile, status, sync, view, rows>>
      /\ job[c].at = "sync" /\ c \in Agent
  BY ConnAgents DEF SyncFind, session
<1>2. CASE Return(c)
  BY <1>1, <1>2, ReturnKeeps
<1>3. ASSUME NEW q \in sync[c], NEW d \in findSessionByProfileId(q),
             Run(c, [Idle("answer") EXCEPT !.op = job[c].op, !.want = q,
                      !.msg = IF d = None THEN "Offline" ELSE status[d]])
      PROVE  PInv'
  <2> DEFINE i == Idle("answer")
             o == job[c].op
             m == IF d = None THEN "Offline" ELSE status[d]
             j == [i EXCEPT !.op = o, !.want = q, !.msg = m]
  <2>1. Becomes(c, j)
    BY <1>3 DEF Run, Becomes
  <2>2. i \in Job /\ i.at = "answer" /\ i.to = None
    BY IdleFields DEF At
  <2>3. job[c] \in Job /\ o \in Op /\ m \in Status /\ q \in Profile
    BY <1>1, IInvParts, SessionsAre, JobFields DEF Typed, Status
  <2>4. m = "Online" => d \in Conn /\ profile[d] = q /\ status[d] = "Online"
    BY IInvParts DEF findSessionByProfileId, Typed
  <2> HIDE DEF i, m
  <2>5. Own(c) /\ o # "end" /\ profile[c] # None
    BY <1>1 DEF PInv, Own, EndAts
  <2> HIDE DEF o
  <2>6. /\ j \in Job /\ j.op = o /\ j.at = "answer" /\ j.to = None /\ j.want = q
        /\ j.msg = m
    BY <2>2, <2>3 DEF Job
  <2> HIDE DEF j
  <2>7. job'[c] = j /\ \A b \in Agent \ {c} : job'[b] = job[b]
    BY <1>1, <2>1, <2>6, IInvParts, JobsAfter
  <2>8. TellRaces' \subseteq noted'
    BY RecordedTells
  <2>9. ASSUME NEW e \in Conn PROVE Own(e)'
    <3>1. CASE e = c
      BY <1>1, <2>5, <2>6, <2>7, <3>1 DEF Own, LoginAts
    <3>2. CASE e # c
      BY <1>1, <2>7, <3>2, OwnOfOthers, ConnAgents DEF PInv
    <3>3. QED
      BY <3>1, <3>2
  <2>10. ASSUME NEW b \in Agent PROVE Addressed(b)'
    BY <1>1, <2>6, <2>7 DEF PInv, Addressed
  <2>11. \A e \in Conn : \A p, r \in Profile : Watching(e, p, r)' => Watching(e, p, r)
    BY <1>1, Undisturbed
  <2>12. ASSUME NEW e \in Conn, NEW r \in Profile, Hot(e, r)', ~Hot(e, r)
         PROVE  \E f \in Conn : profile[f] = r /\ status[f] = "Online"
    <3>1. PICK b \in Agent : Telling(b, e, r)' /\ job'[b].msg = "Online"
      BY <1>1, <2>12 DEF Hot
    <3>2. b = c
      BY <2>7, <2>12, <3>1 DEF Hot, Telling
    <3>3. r = q /\ m = "Online"
      BY <2>6, <2>7, <3>1, <3>2 DEF Telling
    <3>4. QED
      BY <2>4, <3>3
  <2>13. Settling(c)
    BY <2>5, <2>6, <2>7, <2>11, <2>12 DEF Settling, Unsettled
  <2>14. Settles'
    BY <1>1, <2>1, <2>6, <2>13, IInvParts, SettlingKeeps
  <2>15. QED
    BY <2>8, <2>9, <2>10, <2>14 DEF PInv
<1>4. QED
  BY <1>2, <1>3 DEF SyncFind

LEMMA SyncSendKeeps ==
  ASSUME IInv, PInv, Records, NEW c \in Conn, SyncSend(c)
  PROVE  PInv'
<1> DEFINE w == job[c].want
           m == job[c].msg
<1>1. /\ Return(c) /\ job[c].at = "answer" /\ c \in Agent
      /\ view' = view \/ view' = [view EXCEPT ![c][w] = m]
      /\ UNCHANGED <<listed, fd, profile, status, rows>>
      /\ sync' = [sync EXCEPT ![c] = @ \ {w}]
  BY ConnAgents DEF SyncSend
<1>2. profile[c] # None
  BY <1>1 DEF PInv, Own
<1>3. \A q \in Profile : q = w => Telling(c, c, q)
  BY <1>1 DEF Telling
<1>4. Typed /\ rows' \in [Pair -> 0 .. 2]
  BY <1>1, IInvParts DEF Typed
<1>5. ASSUME NEW d \in Conn, NEW q \in Profile, view'[d][q] = "Online"
      PROVE  Hot(d, q)
  <2>1. view \in [Conn -> [Profile -> Status]]
    BY <1>4 DEF Typed
  <2>2. view[d][q] = "Online" \/ (d = c /\ q = w /\ m = "Online")
    <3> HIDE DEF w, m
    <3>1. QED
      BY <1>1, <1>5, <2>1
  <2>3. QED
    BY <1>1, <1>3, <2>2 DEF Hot
<1>6. Sessions(c)
  <2>1. \A d \in Conn \ {c} : view'[d] = view[d] /\ sync'[d] = sync[d]
    <3> HIDE DEF w, m
    <3>1. QED
      BY <1>1, <1>4 DEF Typed
  <2>2. QED
    BY <1>1, <1>2, <1>5, <2>1 DEF Sessions
<1>7. \A d \in Conn : \A p, q \in Profile : Watching(d, p, q)' => Watching(d, p, q)
  BY <1>1, <1>4, WatchedBefore
<1>8. QED
  BY <1>1, <1>6, <1>7, HomeIsFresh, FreshKeeps

\* A login over another profile is noted, and a first one finds a connection
\* that has been told nothing.
LEMMA LoginProfileKeeps ==
  ASSUME IInv, PInv, Records, NEW c \in Conn, LoginProfile(c)
  PROVE  PInv'
<1>1. c \in Agent /\ Typed /\ TypeOK
  BY ConnAgents, IInvParts
<1>2. PICK j \in Job : /\ Becomes(c, j)
                       /\ j.op = job[c].op /\ j.at = "online" /\ j.want = job[c].want
                       /\ j.todo = job[c].todo /\ j.who = job[c].who
                       /\ j.friends = job[c].friends /\ j.to = job[c].to
  BY <1>1, GoIs DEF LoginProfile, At
<1>3. /\ job[c].at = "sweep" /\ job[c].op = "login"
      /\ profile' = [profile EXCEPT ![c] = job[c].want]
      /\ UNCHANGED <<listed, fd, status, sync, view, rows>>
  BY DEF LoginProfile
<1>4. job[c].want # None /\ Own(c)
  BY <1>3 DEF PInv, Own, LoginAts
<1>5. profile'[c] = job[c].want /\ \A d \in Conn \ {c} : profile'[d] = profile[d]
  BY <1>1, <1>3 DEF Typed
<1>6. job'[c] = j /\ \A b \in Agent \ {c} : job'[b] = job[b]
  BY <1>1, <1>2, JobsAfter
<1>7. TellRaces' \subseteq noted' /\ Changes \subseteq noted' /\ noted \subseteq noted'
  BY RecordedTells
<1>8. ASSUME NEW d \in Conn PROVE Own(d)'
  <2>1. CASE d = c
    BY <1>2, <1>3, <1>4, <1>5, <1>6, <2>1 DEF Own
  <2>2. CASE d # c
    BY <1>3, <1>5, <1>6, <2>2, OwnOfOthers, ConnAgents DEF PInv
  <2>3. QED
    BY <2>1, <2>2
<1>9. ASSUME NEW b \in Agent PROVE Addressed(b)'
  <2>1. job'[b].to = job[b].to /\ Addressed(b) /\ job[b].to \in Conn \union {None}
    BY <1>2, <1>6, IInvParts, JobFields DEF PInv
  <2>2. QED
    BY <1>4, <1>5, <2>1 DEF Addressed
<1>10. Settles'
  <2> SUFFICES ASSUME NEW e \in Conn, NEW p \in Profile, NEW q \in Profile,
                      Watching(e, p, q)', Hot(e, q)'
               PROVE  \E d \in Conn : profile'[d] = q /\ Unsettled(d, e, p)'
    BY DEF Settles
  <2>1. ~(profile[c] \in Profile /\ profile[c] # job[c].want)
    <3>1. SUFFICES ASSUME profile[c] \in Profile, profile[c] # job[c].want
                   PROVE  FALSE
      OBVIOUS
    <3>2. <<"switch", profile[c]>> \in Changes
      BY <1>5, <3>1, ConnAgents DEF Changes
    <3>3. QED
      BY <1>7, <3>1, <3>2 DEF Watching
  <2>2. Hot(e, q)
    BY <1>2, <1>3, <1>1, NothingNewTold DEF Hot
  <2>3. profile[e] # None
    <3>1. SUFFICES ASSUME profile[e] = None PROVE FALSE
      OBVIOUS
    <3>2. view[e][q] = "none" /\ job[e].at # "answer"
      BY <3>1 DEF PInv, Own
    <3>3. \A b \in Agent : ~Telling(b, e, q)
      BY <3>1, <3>2, ConnAgents DEF PInv, Addressed, Telling
    <3>4. QED
      BY <2>2, <3>2, <3>3 DEF Hot
  <2>4. Watching(e, p, q)
    <3>1. profile'[e] = profile[e]
      BY <1>1, <1>5, <2>1, <2>3 DEF Typed
    <3>2. QED
      BY <1>3, <1>7, <3>1 DEF Watching
  <2>5. PICK d \in Conn : profile[d] = q /\ Unsettled(d, e, p)
    BY <2>2, <2>4 DEF PInv, Settles
  <2>6. profile'[d] = q
    BY <1>5, <2>1, <2>5
  <2>7. Unsettled(d, e, p)'
    BY <1>2, <1>3, <1>6, <2>5, ConnAgents DEF Unsettled
  <2>8. QED
    BY <2>6, <2>7
<1>11. QED
  BY <1>7, <1>8, <1>9, <1>10 DEF PInv

\* The peers come and go without a word of anybody's friends.
LEMMA SameKeeps ==
  ASSUME PInv, TypeOK, UNCHANGED <<listed, fd, profile, status, sync, view, rows, job>>,
         noted \subseteq noted', TellRaces' \subseteq noted'
  PROVE  PInv'
<1>1. \A d \in Conn : Own(d)'
  BY DEF PInv, Own
<1>2. \A a \in Agent : Addressed(a)'
  BY DEF PInv, Addressed
<1>3. \A c \in Conn : \A p, q \in Profile :
        /\ Watching(c, p, q)' => Watching(c, p, q)
        /\ Hot(c, q)' <=> Hot(c, q)
        /\ \A d \in Conn : Unsettled(d, c, p) => Unsettled(d, c, p)'
  BY DEF Watching, Hot, Telling, Unsettled
<1>4. Settles'
  BY <1>3 DEF PInv, Settles
<1>5. QED
  BY <1>1, <1>2, <1>4 DEF PInv

-----------------------------------------------------------------------------
(***************************************************************************)
(* Disconnect, and telling the friends.                                    *)
(***************************************************************************)
LEMMA DisconnectKeeps ==
  ASSUME IInv, PInv, Records, NEW a \in Agent, Disconnect(a)
  PROVE  PInv'
<1>1. PICK j \in Job : /\ Becomes(a, j)
                       /\ j.op = job[a].op /\ j.at = "ask" /\ j.want = job[a].want
                       /\ j.todo = job[a].todo /\ j.who = job[a].who
                       /\ j.friends = job[a].friends /\ j.to = job[a].to
  BY IInvParts, GoIs DEF Disconnect, At
<1>2. /\ job[a].at = "offline"
      /\ status' = [status EXCEPT ![job[a].who] = "Offline"]
      /\ UNCHANGED <<listed, fd, profile, sync, view, rows>>
  BY DEF Disconnect
<1>3. Onward(a, j)
  BY <1>1, <1>2 DEF Onward, EndAts
<1>4. \A d \in Conn : status'[d] \in {status[d], "Offline"}
  BY <1>2, IInvParts DEF Typed
<1>5. a \in Conn /\ j.op = "end" => status'[a] = "Offline"
  <2>1. a \in Conn => Own(a)
    BY DEF PInv
  <2>2. status \in [Conn -> Status]
    BY IInvParts DEF Typed
  <2>3. QED
    BY <1>1, <1>2, <2>1, <2>2 DEF Own
<1>6. job'[a] = j
  BY <1>1, IInvParts, JobsAfter
<1>7. \A c, p : Unsettled(a, c, p)'
  BY <1>1, <1>6 DEF Unsettled
<1>8. QED
  BY <1>1, <1>2, <1>3, <1>4, <1>5, <1>7, Undisturbed, OnwardKeeps

LEMMA SendNewStatusKeeps ==
  ASSUME IInv, PInv, Records, NEW a \in Agent, SendNewStatus(a)
  PROVE  PInv'
<1> DEFINE f == queryPlayerFriendsByProfileId(profile[job[a].who])
           j == [job[a] EXCEPT !.at = "tell", !.friends = f]
<1>1. f \in SUBSET Profile
  BY FriendsAre
<1>2. /\ job[a].at = "ask"
      /\ job' = [job EXCEPT ![a].at = "tell", ![a].friends = f]
      /\ UNCHANGED <<listed, fd, profile, status, sync, view, rows>>
  BY DEF SendNewStatus, session
<1>3. \A p, q \in Profile : profile[job[a].who] = q /\ rows[{p, q}] > 0 => p \in f
  <2>1. \A p, q : {p, q} = {q, p}
    OBVIOUS
  <2>2. QED
    BY <2>1, ConnAgents DEF queryPlayerFriendsByProfileId
<1> HIDE DEF f
<1>4. Becomes(a, j) /\ job[a] \in Job
  BY <1>2, IInvParts DEF Becomes
<1>5. /\ j \in Job /\ j.op = job[a].op /\ j.at = "tell" /\ j.want = job[a].want
      /\ j.who = job[a].who /\ j.friends = f /\ j.to = job[a].to
  BY <1>1, <1>4 DEF Job, At
<1> HIDE DEF j
<1>6. Onward(a, j)
  BY <1>2, <1>5 DEF Onward, EndAts
<1>7. job'[a] = j
  BY <1>4, <1>5, IInvParts, JobsAfter
<1>8. a \in Conn /\ j.op = "end" => status'[a] = "Offline" /\ job[a].who = a
  <2>1. a \in Conn => Own(a)
    BY DEF PInv
  <2>2. QED
    BY <1>2, <1>5, <2>1 DEF Own
<1>9. /\ Sessions(a) /\ profile' = profile
      /\ \A c \in Conn : \A p, q \in Profile : Watching(c, p, q)' => Watching(c, p, q)
  BY <1>2, Undisturbed
<1>10. ASSUME NEW c \in Conn, NEW p \in Profile, NEW q \in Profile, Watching(c, p, q)',
              a \in Conn, profile[a] = q, job[a].op = "end"
       PROVE  Unsettled(a, c, p)'
  <2>1. rows[{p, q}] > 0
    BY <1>9, <1>10 DEF Watching
  <2>2. p \in f
    BY <1>3, <1>5, <1>8, <1>10, <2>1
  <2>3. QED
    BY <1>5, <1>7, <2>2 DEF Unsettled
<1>11. QED
  BY <1>4, <1>6, <1>8, <1>9, <1>10, OnwardKeeps

\* Whoever watches a profile whose thread ends without finding whom to tell is
\* among those it would have told: the failure is noted.
LEMMA SendNewStatusFailsKeeps ==
  ASSUME IInv, PInv, Records, NEW a \in Agent, SendNewStatusFails(a), Untold(a) \subseteq noted'
  PROVE  PInv'
<1> DEFINE j == [job[a] EXCEPT !.at = "tell", !.friends = {}]
<1>1. /\ job[a].at = "ask"
      /\ job' = [job EXCEPT ![a].at = "tell", ![a].friends = {}]
      /\ UNCHANGED <<listed, fd, profile, status, sync, view, rows>>
  BY DEF SendNewStatusFails, session
<1>2. Becomes(a, j) /\ job[a] \in Job
  BY <1>1, IInvParts DEF Becomes
<1>3. /\ j \in Job /\ j.op = job[a].op /\ j.at = "tell" /\ j.want = job[a].want
      /\ j.who = job[a].who /\ j.to = job[a].to
  BY <1>2 DEF Job, At
<1> HIDE DEF j
<1>4. Onward(a, j)
  BY <1>1, <1>3 DEF Onward, EndAts
<1>5. a \in Conn /\ j.op = "end" => status'[a] = "Offline" /\ job[a].who = a
  <2>1. a \in Conn => Own(a)
    BY DEF PInv
  <2>2. QED
    BY <1>1, <1>3, <2>1 DEF Own
<1>6. /\ Sessions(a) /\ profile' = profile
      /\ \A c \in Conn : \A p, q \in Profile : Watching(c, p, q)' => Watching(c, p, q)
  BY <1>1, Undisturbed
<1>7. ASSUME NEW c \in Conn, NEW p \in Profile, NEW q \in Profile, Watching(c, p, q)',
             a \in Conn, profile[a] = q, job[a].op = "end"
      PROVE  FALSE
  <2>1. rows[{p, q}] > 0 /\ <<"untold", q>> \notin noted'
    BY <1>6, <1>7 DEF Watching
  <2>2. {p, q} = {q, p}
    OBVIOUS
  <2>3. p \in queryPlayerFriendsByProfileId(q)
    BY <2>1, <2>2, ConnAgents DEF queryPlayerFriendsByProfileId
  <2>4. <<"untold", q>> \in UntoldNotes /\ <<"untold", q>>[2] = q
    BY DEF UntoldNotes
  <2>5. <<"untold", q>> \in Untold(a)
    BY <1>3, <1>5, <1>7, <2>3, <2>4 DEF Untold
  <2>6. QED
    BY <2>1, <2>5
<1>8. QED
  BY <1>2, <1>4, <1>5, <1>6, <1>7, OnwardKeeps

\* A thread on its way out that looks up the profile of a connection that
\* watches it finds that connection.
LEMMA WatcherIsFound ==
  ASSUME IInv, NEW c \in Conn, NEW p \in Profile, NEW q \in Profile, Watching(c, p, q),
         NEW d \in findSessionByProfileId(p)
  PROVE  d = c
<1>1. c \in listed /\ profile[c] = p /\ <<"login", p>> \notin noted
  BY DEF Watching
<1>2. d \in listed /\ profile[d] = p
  BY <1>1 DEF findSessionByProfileId
<1>3. QED
  BY <1>1, <1>2, IInvParts, ConnAgents DEF OneSession

LEMMA SendBuddyMessageKeeps ==
  ASSUME IInv, PInv, Records, NEW a \in Agent, SendBuddyMessage(a)
  PROVE  PInv'
<1>1. TypeOK /\ Typed /\ job[a] \in Job /\ Equipped(job[a])
  BY IInvParts
<1>2. /\ job[a].at = "tell"
      /\ UNCHANGED <<listed, fd, profile, status, sync, view, rows>>
  BY DEF SendBuddyMessage, session
<1>3. PICK r \in job[a].friends : \E d \in findSessionByProfileId(r) :
        LET j == [job[a] EXCEPT !.friends = @ \ {r}]
        IN  Run(a, IF d = None
                   THEN j
                   ELSE [j EXCEPT !.at = "send", !.to = d, !.from = profile[job[a].who],
                                  !.msg = status[job[a].who]])
  BY DEF SendBuddyMessage
<1> DEFINE k == [job[a] EXCEPT !.friends = @ \ {r}]
<1>4. PICK d \in findSessionByProfileId(r) :
        Run(a, IF d = None
               THEN k
               ELSE [k EXCEPT !.at = "send", !.to = d, !.from = profile[job[a].who],
                              !.msg = status[job[a].who]])
  BY <1>3
<1>5. /\ k \in Job /\ k.op = job[a].op /\ k.at = "tell" /\ k.want = job[a].want
      /\ k.who = job[a].who /\ k.friends = job[a].friends \ {r} /\ k.to = job[a].to
  BY <1>1, <1>2 DEF Job
<1> HIDE DEF k
<1>6. d \in Conn \union {None} /\ r \in Profile /\ job[a].who \in Conn
  BY <1>1, <1>2, SessionsAre, JobFields DEF Equipped
<1>7. /\ Sessions(a) /\ profile' = profile
      /\ \A c \in Conn : \A p, q \in Profile : Watching(c, p, q)' => Watching(c, p, q)
  BY <1>2, Undisturbed
<1>8. a \in Conn /\ job[a].op = "end" => job[a].who = a /\ status[a] = "Offline"
  BY <1>2 DEF PInv, Own
<1>9. CASE d = None
  <2>1. Becomes(a, k)
    BY <1>4, <1>9 DEF Run, Becomes
  <2>2. Onward(a, k)
    BY <1>2, <1>5 DEF Onward, EndAts
  <2>3. job'[a] = k
    BY <1>1, <1>5, <2>1, JobsAfter
  <2>4. ASSUME NEW c \in Conn, NEW p \in Profile, NEW q \in Profile, Watching(c, p, q)',
               a \in Conn, job[a].op = "end", Unsettled(a, c, p)
        PROVE  Unsettled(a, c, p)'
    <3>1. p \in job[a].friends
      BY <1>2, <2>4 DEF Unsettled
    <3>2. p # r
      BY <1>7, <1>9, <2>4, WatcherIsFound, ConnAgents
    <3>3. QED
      BY <1>5, <2>3, <3>1, <3>2 DEF Unsettled
  <2>5. QED
    BY <1>2, <1>5, <1>7, <1>8, <2>1, <2>2, <2>4, OnwardKeeps
<1>10. CASE d # None
  <2> DEFINE q0 == profile[job[a].who]
             m == status[job[a].who]
             j == [k EXCEPT !.at = "send", !.to = d, !.from = q0, !.msg = m]
  <2>1. Becomes(a, j)
    BY <1>4, <1>10 DEF Run, Becomes
  <2>2. q0 \in Profile \union {None} /\ m \in Status
    BY <1>1, <1>6 DEF Typed
  <2>3. q0 = profile[job[a].who] /\ m = status[job[a].who]
    OBVIOUS
  <2> HIDE DEF q0, m
  <2>4. /\ j \in Job /\ j.op = job[a].op /\ j.at = "send" /\ j.want = job[a].want
        /\ j.who = job[a].who /\ j.friends = job[a].friends \ {r} /\ j.to = d
        /\ j.from = q0 /\ j.msg = m
    BY <1>5, <1>6, <2>2 DEF Job, At
  <2> HIDE DEF j
  <2>5. job'[a] = j /\ \A b \in Agent \ {a} : job'[b] = job[b]
    BY <1>1, <2>1, <2>4, JobsAfter
  <2>6. d \in Conn /\ profile[d] = r /\ profile[d] # None
    BY <1>6, <1>10, ConnAgents DEF findSessionByProfileId
  <2>7. TellRaces' \subseteq noted'
    BY RecordedTells
  <2>8. ASSUME NEW e \in Conn PROVE Own(e)'
    <3>1. Own(e) /\ e \in Agent
      BY ConnAgents DEF PInv
    <3>2. CASE e = a
      <4>1. job'[a].op = "end" => job'[a].from = profile[a] /\ job'[a].msg = "Offline"
        BY <1>8, <2>3, <2>4, <2>5, <3>2
      <4>2. QED
        BY <1>2, <1>8, <2>4, <2>5, <3>1, <3>2, <4>1 DEF Own, EndAts, LoginAts
    <3>3. CASE e # a
      BY <1>2, <2>5, <3>1, <3>3, OwnOfOthers
    <3>4. QED
      BY <3>2, <3>3
  <2>9. ASSUME NEW b \in Agent PROVE Addressed(b)'
    BY <1>2, <2>4, <2>5, <2>6 DEF PInv, Addressed
  <2>10. ASSUME NEW c \in Conn, NEW p \in Profile, NEW q \in Profile, Watching(c, p, q)',
                a \in Conn, profile[a] = q, Unsettled(a, c, p)
         PROVE  Unsettled(a, c, p)'
    <3>1. CASE job[a].op # "end"
      BY <2>4, <2>5, <3>1 DEF Unsettled
    <3>2. CASE job[a].op = "end" /\ p # r
      BY <1>2, <2>4, <2>5, <2>10, <3>2 DEF Unsettled
    <3>3. CASE p = r
      <4>1. d = c
        BY <1>7, <2>10, <3>3, WatcherIsFound
      <4>2. QED
        BY <2>4, <2>5, <4>1 DEF Unsettled
    <3>4. QED
      BY <3>1, <3>2, <3>3
  <2>11. ASSUME NEW e \in Conn, NEW q \in Profile, Hot(e, q)', ~Hot(e, q)
         PROVE  \E f \in Conn : profile[f] = q /\ status[f] = "Online"
    <3>1. PICK b \in Agent : Telling(b, e, q)' /\ job'[b].msg = "Online"
      BY <1>2, <2>11 DEF Hot
    <3>2. b = a
      BY <2>5, <2>11, <3>1 DEF Hot, Telling
    <3>3. q = q0 /\ m = "Online"
      BY <2>4, <2>5, <3>1, <3>2 DEF Telling
    <3>4. QED
      BY <1>6, <2>3, <3>3
  <2>12. Settling(a)
    BY <1>7, <2>10, <2>11 DEF Settling
  <2>13. Settles'
    BY <1>1, <1>7, <2>1, <2>4, <2>12, SettlingKeeps
  <2>14. QED
    BY <2>7, <2>8, <2>9, <2>13 DEF PInv
<1>11. QED
  BY <1>9, <1>10

\* Either the message is about somebody else or it settles what c sees.
LEMMA SendKeeps ==
  ASSUME IInv, PInv, Records, NEW a \in Agent, Send(a)
  PROVE  PInv'
<1> DEFINE j == [job[a] EXCEPT !.at = "tell", !.to = None, !.from = None, !.msg = "none"]
           d == job[a].to
           f == job[a].from
           m == job[a].msg
<1>1. TypeOK /\ Typed /\ job[a] \in Job /\ Equipped(job[a])
  BY IInvParts
<1>2. /\ job[a].at = "send" /\ Becomes(a, j)
      /\ view' = IF fd[d] = "open" /\ f # None THEN [view EXCEPT ![d][f] = m] ELSE view
      /\ UNCHANGED <<listed, fd, profile, status, sync, rows>>
  BY DEF Send, Run, Becomes, session
<1>3. /\ j \in Job /\ j.op = job[a].op /\ j.at = "tell" /\ j.want = job[a].want
      /\ j.who = job[a].who /\ j.friends = job[a].friends /\ j.to = None
  BY <1>1 DEF Job, At, Status
<1>4. d \in Conn /\ f \in Profile \union {None} /\ profile[d] # None
  <2>1. Addressed(a) /\ d \in Conn
    BY <1>1, <1>2, JobFields DEF PInv, Equipped
  <2>2. QED
    BY <1>1, <2>1, JobFields, ConnAgents DEF Addressed
<1>5. \A q \in Profile : q = f => Telling(a, d, q)
  BY <1>2 DEF Telling
<1>6. m = job[a].msg /\ d = job[a].to /\ f = job[a].from
  OBVIOUS
<1> HIDE DEF j, d, f, m
<1>7. job'[a] = j /\ \A b \in Agent \ {a} : job'[b] = job[b]
  BY <1>1, <1>2, <1>3, JobsAfter
<1>8. view \in [Conn -> [Profile -> Status]]
  BY <1>1 DEF Typed
<1>9. ASSUME NEW e \in Conn, NEW q \in Profile, view'[e][q] = "Online"
      PROVE  Hot(e, q)
  <2>1. view[e][q] = "Online" \/ (e = d /\ q = f /\ m = "Online")
    BY <1>2, <1>4, <1>8, <1>9
  <2>2. QED
    BY <1>5, <1>6, <2>1 DEF Hot
<1>10. Sessions(a)
  <2>1. \A e \in Conn : profile[e] = None => view'[e] = view[e]
    BY <1>2, <1>4, <1>8
  <2>2. QED
    BY <1>2, <1>9, <2>1 DEF Sessions, PInv, Own
<1>11. Typed /\ rows' \in [Pair -> 0 .. 2]
  BY <1>1, <1>2 DEF Typed
<1>12. \A c \in Conn : \A p, q \in Profile : Watching(c, p, q)' => Watching(c, p, q)
  BY <1>2, <1>11, WatchedBefore
<1>13. Onward(a, j)
  BY <1>2, <1>3 DEF Onward, EndAts
<1>14. a \in Conn /\ job[a].op = "end" => status[a] = "Offline" /\ f = profile[a] /\ m = "Offline"
  <2>1. a \in Conn => Own(a)
    BY DEF PInv
  <2>2. QED
    BY <1>2, <1>6, <2>1 DEF Own
<1>15. ASSUME NEW c \in Conn, NEW p \in Profile, NEW q \in Profile, Watching(c, p, q)',
              Hot(c, q)', a \in Conn, profile[a] = q, job[a].op = "end", Unsettled(a, c, p)
       PROVE  Unsettled(a, c, p)'
  <2>1. CASE p \in job[a].friends
    BY <1>3, <1>7, <2>1 DEF Unsettled
  <2>2. CASE p \notin job[a].friends
    <3>1. c = d /\ q = f /\ m = "Offline"
      BY <1>2, <1>6, <1>14, <1>15, <2>2 DEF Unsettled
    <3>2. fd[c] = "open" /\ f # None /\ <<"told", c, q>> \notin noted
      BY <1>2, <1>12, <1>15, <3>1, ConnAgents DEF Watching
    <3>3. view'[c][q] = "Offline"
      BY <1>2, <1>8, <3>1, <3>2
    <3>4. PICK b \in Agent : Telling(b, c, q)' /\ job'[b].msg = "Online"
      BY <1>15, <3>3 DEF Hot
    <3>5. b # a /\ Telling(b, c, q)
      BY <1>3, <1>7, <3>4 DEF Telling
    <3>6. <<"told", c, q>> \in TellRaces
      BY <1>5, <3>1, <3>5 DEF TellRaces, TellNotes
    <3>7. QED
      BY <3>2, <3>6 DEF PInv
  <2>3. QED
    BY <2>1, <2>2
<1>16. QED
  BY <1>2, <1>3, <1>10, <1>12, <1>13, <1>14, <1>15, OnwardKeeps

LEMMA CloseKeeps ==
  ASSUME IInv, PInv, Records, NEW a \in Agent, Close(a)
  PROVE  PInv'
<1>1. PICK j \in Job : /\ Becomes(a, j)
                       /\ j.op = job[a].op /\ j.at = "unlist" /\ j.want = job[a].want
                       /\ j.todo = job[a].todo /\ j.who = job[a].who
                       /\ j.friends = job[a].friends /\ j.to = job[a].to
  BY IInvParts, GoIs DEF Close, At
<1>2. /\ job[a].at = "tell" /\ job[a].friends = {}
      /\ fd' = [fd EXCEPT ![job[a].who] = "closed"]
      /\ UNCHANGED <<listed, profile, status, sync, view, rows>>
  BY DEF Close, session
<1>3. Onward(a, j)
  BY <1>1, <1>2 DEF Onward, EndAts
<1>4. \A c \in Conn : /\ fd[c] = "closed" => fd'[c] = "closed"
                      /\ fd'[c] = "open" => fd[c] = "open"
  BY <1>2, IInvParts DEF Typed
<1>5. Sessions(a)
  BY <1>2, <1>4 DEF Sessions, PInv, Own, Hot
<1>6. Typed /\ rows' \in [Pair -> 0 .. 2]
  BY <1>2, IInvParts DEF Typed
<1>7. \A c \in Conn : \A p, q \in Profile : Watching(c, p, q)' => Watching(c, p, q)
  BY <1>2, <1>4, <1>6, WatchedBefore
<1>8. a \in Conn /\ j.op = "end" => status'[a] = "Offline"
  <2>1. a \in Conn => Own(a)
    BY DEF PInv
  <2>2. QED
    BY <1>1, <1>2, <2>1 DEF Own
<1>9. \A c, p : job[a].op = "end" => ~Unsettled(a, c, p)
  BY <1>2 DEF Unsettled
<1>10. QED
  BY <1>1, <1>2, <1>3, <1>5, <1>7, <1>8, <1>9, OnwardKeeps

\* A thread that ends has told everybody; the others go on.
LEMMA UnlistKeeps ==
  ASSUME IInv, PInv, Records, NEW a \in Agent, onClientDisconnect(a)
  PROVE  PInv'
<1>1. /\ job[a].at = "unlist" /\ listed' = listed \ {job[a].who}
      /\ UNCHANGED <<fd, profile, status, sync, view, rows>>
  BY DEF onClientDisconnect, session
<1>2. TypeOK /\ Typed /\ job[a] \in Job /\ Handling(a) /\ rows' \in [Pair -> 0 .. 2]
  BY <1>1, IInvParts DEF Typed
<1>3. Sessions(a)
  BY <1>1 DEF Sessions, PInv, Own, Hot
<1>4. \A c \in Conn : \A p, q \in Profile : Watching(c, p, q)' => Watching(c, p, q)
  BY <1>1, <1>2, WatchedBefore
<1>5. a \in Conn => Own(a)
  BY DEF PInv
<1>6. CASE job[a].op = "end"
  <2> DEFINE j == Idle("ended")
  <2>1. j \in Job /\ j.op = "none" /\ j.at = "ended" /\ j.to = None
    BY IdleFields DEF At
  <2>2. Becomes(a, j)
    BY <1>6 DEF onClientDisconnect, Run, Becomes
  <2> HIDE DEF j
  <2>3. job'[a] = j /\ \A b \in Agent \ {a} : job'[b] = job[b]
    BY <1>2, <2>1, <2>2, JobsAfter
  <2>4. TellRaces' \subseteq noted'
    BY RecordedTells
  <2>5. ASSUME NEW d \in Conn PROVE Own(d)'
    <3>1. Own(d) /\ d \in Agent
      BY ConnAgents DEF PInv
    <3>2. CASE d = a
      <4>1. status[a] = "Offline" /\ fd[a] = "closed"
        BY <1>1, <1>2, <1>5, <1>6, <3>2 DEF Own, Handling
      <4>2. QED
        BY <1>1, <2>1, <2>3, <3>1, <3>2, <4>1 DEF Own
    <3>3. CASE d # a
      BY <1>1, <2>3, <3>1, <3>3, OwnOfOthers
    <3>4. QED
      BY <3>2, <3>3
  <2>6. ASSUME NEW b \in Agent PROVE Addressed(b)'
    BY <1>1, <2>1, <2>3 DEF PInv, Addressed
  <2>7. \A c, p : ~Unsettled(a, c, p)
    BY <1>1, <1>6 DEF Unsettled
  <2>8. ASSUME NEW c \in Conn, NEW q \in Profile, Hot(c, q)'
        PROVE  Hot(c, q)
    BY <1>1, <1>2, <2>1, <2>2, <2>8, NothingNewTold DEF Hot
  <2>9. Settling(a)
    BY <1>4, <2>7, <2>8 DEF Settling
  <2>10. Settles'
    BY <1>1, <1>2, <2>1, <2>2, <2>9, SettlingKeeps
  <2>11. QED
    BY <2>4, <2>5, <2>6, <2>10 DEF PInv
<1>7. CASE job[a].op = "unknown"
  <2>1. Becomes(a, Home(a))
    BY <1>7 DEF onClientDisconnect, Run, Becomes
  <2>2. QED
    BY <1>1, <1>3, <1>4, <2>1, HomeIsFresh, FreshKeeps
<1>8. CASE job[a].op \notin {"end", "unknown"}
  <2> DEFINE j == [job[a] EXCEPT !.at = "sweep", !.who = None]
  <2>1. Becomes(a, j)
    BY <1>8 DEF onClientDisconnect, Run, Becomes
  <2>2. /\ j \in Job /\ j.at = "sweep" /\ j.op = job[a].op /\ j.want = job[a].want
        /\ j.to = job[a].to
    BY <1>2 DEF Job, At
  <2> HIDE DEF j
  <2>3. Fresh(a, j)
    BY <1>1, <1>5, <1>8, <2>2 DEF Fresh, Own, LoginAts
  <2>4. QED
    BY <1>1, <1>3, <1>4, <2>1, <2>3, FreshKeeps
<1>9. QED
  BY <1>6, <1>7, <1>8

-----------------------------------------------------------------------------
(***************************************************************************)
(* PInv is an invariant, and implies NoGhosts.                             *)
(***************************************************************************)
LEMMA PresenceInit ==
  ASSUME Init
  PROVE  PInv
<1> DEFINE at(a) == IF a \in Conn THEN "none" ELSE "idle"
<1>1. \A a \in Agent : job[a] = Idle(at(a)) /\ at(a) \in At /\ at(a) \in {"none", "idle"}
  BY DEF Init, At
<1> HIDE DEF at
<1>2. \A a \in Agent : job[a].at \in {"none", "idle"} /\ job[a].op = "none" /\ job[a].to = None
  BY <1>1, IdleFields
<1>3. TellRaces \subseteq noted
  BY <1>2 DEF TellRaces, Telling
<1>4. ASSUME NEW d \in Conn PROVE Own(d)
  <2>1. d \in Agent /\ \A q \in Profile : view[d][q] = "none"
    BY ConnAgents DEF Init
  <2>2. sync[d] = {}
    BY DEF Init
  <2>3. QED
    BY <1>2, <2>1, <2>2 DEF Own
<1>5. \A a \in Agent : Addressed(a)
  BY <1>2 DEF Addressed
<1>6. Settles
  BY DEF Init, Settles, Watching
<1>7. QED
  BY <1>3, <1>4, <1>5, <1>6 DEF PInv

LEMMA FailuresKeep ==
  ASSUME IInv, PInv, Records, Failure
  PROVE  PInv'
<1>1. ASSUME NEW a \in Agent, SendNewStatusFails(a), Record(Untold(a)) PROVE PInv'
  BY <1>1, RecordRecords, SendNewStatusFailsKeeps
<1>2. QED
  BY <1>1, LookUpsKeep, LoginAnswersKeep, FailedWritesKeep DEF Failure, Harmless

LEMMA PresenceNext ==
  ASSUME IInv, PInv, [Next]_vars
  PROVE  PInv'
<1>1. CASE UNCHANGED vars
  <2>1. UNCHANGED <<listed, fd, profile, status, sync, view, rows, job, noted>>
    BY <1>1 DEF vars
  <2>2. TellRaces' \subseteq noted'
    BY <2>1 DEF PInv, TellRaces, Telling
  <2>3. QED
    BY <2>1, <2>2, SameKeeps, IInvParts
<1>2. CASE Records /\ Step
  <2>1. Records /\ Step
    BY <1>2
  <2>2. ASSUME NEW c \in Conn, Network(c) PROVE PInv'
    <3>1. CASE Lose(c) \/ TimeOut(c)
      <4>1. UNCHANGED <<listed, fd, profile, status, sync, view, rows, job>>
        BY <3>1 DEF Lose, TimeOut, session
      <4>2. QED
        BY <2>1, <4>1, SameKeeps, IInvParts, RecordedTells
    <3>2. QED
      BY <2>1, <2>2, <3>1, ConnectKeeps, EndKeeps DEF Network
  <2>3. ASSUME NEW c \in Conn, Requests(c) PROVE PInv'
    BY <2>1, <2>3, RequestsKeep
  <2>4. ASSUME NEW c \in Conn, Work(c) PROVE PInv'
    BY <2>1, <2>4, EndKeeps, LoginProfileKeeps, LoginAnswersKeep, SyncFindKeeps, SyncSendKeeps,
       LookUpsKeep, RowsKeep DEF Work
  <2>5. ASSUME NEW a \in Agent, Disconnecting(a) PROVE PInv'
    BY <2>1, <2>5, DisconnectKeeps, SendNewStatusKeeps, SendBuddyMessageKeeps, SendKeeps,
       CloseKeeps, UnlistKeeps, SweepsKeep DEF Disconnecting
  <2>6. QED
    BY <2>1, <2>2, <2>3, <2>4, <2>5, KickKeeps, HeartbeatKeeps DEF Step
<1>3. QED
  BY <1>1, <1>2, NextRecords, FailuresKeep DEF Next

LEMMA PresenceInvariance == Spec => []PInv
<1>1. Init => PInv
  BY PresenceInit
<1>2. IInv /\ PInv /\ [Next]_vars => PInv'
  BY PresenceNext
<1>3. QED
  BY <1>1, <1>2, Invariance, PTL DEF Spec

\* However logins, kicks, time-outs and messages interleave, a client does not
\* see a friend online once the last connection of that friend has ended:
\* unless two messages about the friend raced, the thread that ended could not
\* read whom to tell, the friendship is younger, somebody changed profiles or
\* two logins for the profile that looks overlapped, the thread that ended was
\* the last to write Offline and had told this client (Client::Disconnect,
\* _SendNewStatus and _SyncFriends of gpcm/client.cpp).
THEOREM NobodySeesGhosts == Spec => []NoGhosts
<1>1. ASSUME IInv, PInv
      PROVE  NoGhosts
  <2> SUFFICES ASSUME NEW c \in listed, NEW p \in Profile, NEW q \in Profile,
                 fd[c] = "open", profile[c] = p, rows[{p, q}] > 0, view[c][q] = "Online",
                 noted \intersect ({<<"login", p>>, <<"friends", {p, q}>>, <<"told", c, q>>,
                                     <<"untold", q>>}
                                     \union {<<"switch", r>> : r \in Profile}) = {}
               PROVE  \E d \in Conn : profile[d] = q /\ job[d].at # "ended"
    BY DEF NoGhosts
  <2>1. c \in Conn
    BY <1>1, IInvParts DEF Typed
  <2>2. CASE p = q
    BY <1>1, <2>1, <2>2 DEF PInv, Own
  <2>3. CASE p # q
    <3>1. Watching(c, p, q) /\ Hot(c, q)
      BY <2>3 DEF Watching, Hot
    <3>2. PICK d \in Conn : profile[d] = q /\ Unsettled(d, c, p)
      BY <1>1, <2>1, <3>1 DEF PInv, Settles
    <3>3. QED
      BY <3>2 DEF Unsettled
  <2>4. QED
    BY <2>2, <2>3
<1>2. QED
  BY <1>1, Invariance, PresenceInvariance, PTL

=============================================================================
