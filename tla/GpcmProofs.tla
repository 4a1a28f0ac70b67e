----------------------------- MODULE GpcmProofs -----------------------------
(***************************************************************************)
(* Proofs about Gpcm: types, sessions, the list of clients and the table   *)
(* PlayerFriends, for any connections, profiles and kinds of request.      *)
(*                                                                         *)
(* Most steps only change the job of one agent and what clients have been  *)
(* told; Quiet says what they may make of that job, and QuietStep shows    *)
(* once that such a step keeps IInv.  The six steps that change the list,  *)
(* a socket, a profile or a row have a lemma each.                         *)
(*                                                                         *)
(* The last section proves that Gpcm implements Sessions.  Entitled adds   *)
(* to IInv what a handler runs for and why it may disconnect somebody;     *)
(* Resting is the step that leaves every hunt as it is, and a lemma for    *)
(* each of the others names the step of Sessions it is.                    *)
(***************************************************************************)
EXTENDS Gpcm, TLAPS

LoginAts == {"sweep", "offline", "ask", "tell", "send", "unlist"}

\* A job that has what its place in the handler needs.
Equipped(j) ==
  /\ j \in Job
  /\ j.at \in {"offline", "ask", "tell", "send", "unlist"} => j.who # None
  /\ j.at = "send" => j.to # None

\* What the variables of TypeOK other than job are.
Typed ==
  /\ listed \subseteq Conn
  /\ fd \in [Conn -> {"none", "open", "closed"}]
  /\ peer \in [Conn -> {"up", "lost", "owing", "dead"}]
  /\ profile \in [Conn -> Profile \union {None}]
  /\ status \in [Conn -> Status]
  /\ sync \in [Conn -> SUBSET Profile]
  /\ rows \in [Pair -> 0 .. 2]
  /\ view \in [Conn -> [Profile -> Status]]

LEMMA TypeOKParts ==
  TypeOK <=> Typed /\ job \in [Agent -> Job] /\ \A a \in Agent : Equipped(job[a])
BY DEF TypeOK, Typed, Equipped

LEMMA ConnAgents == Conn \subseteq Agent /\ Heartbeat \in Agent /\ Admin \in Agent
                    /\ None \notin Conn /\ None \notin Profile
BY GpcmAssumption DEF Agent

\* The idle job at a place, field by field.
LEMMA IdleFields ==
  ASSUME NEW at \in At
  PROVE  /\ Idle(at) \in Job
         /\ Idle(at).op = "none" /\ Idle(at).at = at /\ Idle(at).want = None
         /\ Idle(at).todo = {} /\ Idle(at).who = None /\ Idle(at).friends = {}
         /\ Idle(at).to = None /\ Idle(at).from = None /\ Idle(at).msg = "none"
BY DEF Idle, Job, Op, Status

\* What a quiet step of agent a may make of its job: it neither starts nor
\* ends a connection's thread, works on a client of its copy of the list or on
\* the agent's own, drops nobody a login has to compare, and goes on to insert
\* only a row there is none of, unless the loss of the look-up is noted.
Follows(a, j) ==
  /\ Equipped(j)
  /\ a \in Conn => job[a].at # "none" /\ j.at # "none"
  /\ job[a].at # "unlist" /\ j.at # "unlist"
  /\ j.todo \subseteq job[a].todo \union listed
  /\ j.who \in job[a].todo \union {job[a].who, None} \union (Conn \intersect {a})
  /\ j.at = "sweep" => j.who = None
  /\ (a \in Conn /\ j.op = "login" /\ j.at \in LoginAts) =>
       \/ j.todo = listed
       \/ /\ job[a].op = "login" /\ job[a].at \in LoginAts /\ j.want = job[a].want
          /\ \A d \in Conn : (d \in job[a].todo \/ d = job[a].who) =>
               d \in j.todo \/ d = j.who \/ profile[d] # j.want
  /\ j.at = "insert" =>
       \A r \in Pair : r = {profile[a], j.want} /\ <<"insert", r>> \notin noted' => rows[r] = 0

Becomes(a, j) == job' = [job EXCEPT ![a] = j]

\* A step that touches nothing but the job of one agent and what clients hold.
Quiet(a) ==
  /\ UNCHANGED <<listed, fd, profile, rows>>
  /\ \E j \in Job : Follows(a, j) /\ Becomes(a, j)

-----------------------------------------------------------------------------
\* A step that puts an equipped job in the place of another keeps the types.
LEMMA JobTyping ==
  ASSUME TypeOK, NEW a \in Agent, NEW j, Equipped(j), Becomes(a, j)
  PROVE  /\ job' \in [Agent -> Job]
         /\ \A b \in Agent : Equipped(job'[b])
         /\ job'[a] = j
         /\ \A b \in Agent \ {a} : job'[b] = job[b]
<1>1. job \in [Agent -> Job] /\ \A b \in Agent : Equipped(job[b])
  BY TypeOKParts
<1>2. j \in Job
  BY DEF Equipped
<1>3. QED
  BY <1>1, <1>2 DEF Becomes

\* A record of Job with other values in its fields.
LEMMA JobFields ==
  ASSUME NEW j \in Job
  PROVE  /\ j.op \in Op /\ j.at \in At /\ j.want \in Profile \union {None}
         /\ j.todo \in SUBSET Conn /\ j.who \in Conn \union {None}
         /\ j.friends \in SUBSET Profile /\ j.to \in Conn \union {None}
         /\ j.from \in Profile \union {None} /\ j.msg \in Status
BY DEF Job

LEMMA GoIs ==
  ASSUME TypeOK, NEW a \in Agent, NEW at \in At, Go(a, at)
  PROVE  \E j \in Job : /\ Becomes(a, j)
                        /\ j.op = job[a].op /\ j.at = at /\ j.want = job[a].want
                        /\ j.todo = job[a].todo /\ j.who = job[a].who
                        /\ j.friends = job[a].friends /\ j.to = job[a].to
<1> DEFINE j == [job[a] EXCEPT !.at = at]
<1>1. job \in [Agent -> Job]
  BY DEF TypeOK
<1>2. job[a] \in Job
  BY <1>1
<1>3. /\ j \in Job
      /\ j.op = job[a].op /\ j.at = at /\ j.want = job[a].want
      /\ j.todo = job[a].todo /\ j.who = job[a].who
      /\ j.friends = job[a].friends /\ j.to = job[a].to
  BY <1>2 DEF Job
<1>4. Becomes(a, j)
  BY <1>1 DEF Go, Becomes
<1> HIDE DEF j
<1>5. QED
  BY <1>3, <1>4

LEMMA HomeIs ==
  ASSUME NEW a \in Agent
  PROVE  /\ Home(a) \in Job /\ Equipped(Home(a))
         /\ Home(a).at \in {"read", "idle"} /\ Home(a).todo = {} /\ Home(a).who = None
         /\ Home(a).op = "none"
<1> DEFINE at == IF a \in Conn THEN "read" ELSE "idle"
<1>1. at \in At /\ at \in {"read", "idle"}
  BY DEF At
<1> HIDE DEF at
<1>2. QED
  BY <1>1, IdleFields DEF Home, Equipped, at

LEMMA SentTypes ==
  ASSUME Typed, NEW c, Sent(c)
  PROVE  peer' \in [Conn -> {"up", "lost", "owing", "dead"}]
BY DEF Typed, Sent

LEMMA FriendsAre ==
  ASSUME NEW p
  PROVE  queryPlayerFriendsByProfileId(p) \in SUBSET Profile
BY DEF queryPlayerFriendsByProfileId

LEMMA SessionsAre ==
  ASSUME Typed, NEW q
  PROVE  findSessionByProfileId(q) \subseteq Conn \union {None}
BY DEF Typed, findSessionByProfileId

-----------------------------------------------------------------------------
(***************************************************************************)
(* The requests of a connection, and the end of its input.                 *)
(***************************************************************************)
\* What a job given to an agent at rest has to be.
LEMMA FreshJob ==
  ASSUME TypeOK, AcceptedFirst, NEW a \in Agent,
         job[a].at \in {"read", "idle", "sync"},
         NEW j \in Job, Equipped(j), Becomes(a, j),
         j.at \notin {"none", "unlist", "insert"},
         j.who = None \/ (a \in Conn /\ j.who = a),
         j.todo = {} \/ j.todo = listed,
         j.op = "login" /\ j.at \in LoginAts => j.todo = listed,
         j.at = "sweep" => j.who = None,
         UNCHANGED <<listed, fd, profile, rows>>
  PROVE  Quiet(a)
<1>1. Follows(a, j)
  BY DEF Follows
<1>2. QED
  BY <1>1 DEF Quiet

LEMMA RequestIs ==
  ASSUME NEW c \in Conn, NEW op, NEW j, onRequest(c, op, j)
  PROVE  /\ op \in Request /\ job[c].at = "read"
         /\ Becomes(c, [j EXCEPT !.op = op])
         /\ UNCHANGED <<listed, fd, peer, profile, status, sync, view, rows>>
BY DEF onRequest, Run, Becomes, session

LEMMA TypedKept ==
  ASSUME Typed, UNCHANGED <<listed, fd, peer, profile, status, sync, view, rows>>
  PROVE  Typed'
BY DEF Typed

LEMMA StepEndOfInput ==
  ASSUME TypeOK, AcceptedFirst, NEW c \in Conn, EndOfInput(c) \/ Leave(c)
  PROVE  Typed' /\ Quiet(c)
<1> DEFINE i == Idle("offline")
           j == [i EXCEPT !.op = "end", !.who = c]
<1>1. i \in Job /\ i.at = "offline" /\ i.todo = {} /\ i.to = None
  BY IdleFields DEF At
<1> HIDE DEF i
<1>2. j \in Job /\ j.op = "end" /\ j.at = "offline" /\ j.who = c /\ j.todo = {}
  BY <1>1, ConnAgents DEF Job, Op
<1>3. /\ Becomes(c, j) /\ job[c].at = "read"
      /\ UNCHANGED <<listed, fd, peer, profile, status, sync, view, rows>>
  BY DEF EndOfInput, Leave, Run, Becomes, session, i
<1> HIDE DEF j
<1>4. Equipped(j)
  BY <1>2, ConnAgents DEF Equipped
<1>5. QED
  BY <1>2, <1>3, <1>4, FreshJob, TypedKept, TypeOKParts, ConnAgents

LEMMA StepLogin ==
  ASSUME TypeOK, AcceptedFirst, NEW c \in Conn, Login(c)
  PROVE  Typed' /\ Quiet(c)
<1>1. PICK p \in Profile :
        onRequest(c, "login", [Idle("sweep") EXCEPT !.want = p, !.todo = listed])
  BY DEF Login
<1> DEFINE i == Idle("sweep")
           k == [i EXCEPT !.want = p, !.todo = listed]
           j == [k EXCEPT !.op = "login"]
<1>2. i \in Job /\ i.at = "sweep" /\ i.who = None /\ i.to = None
  BY IdleFields DEF At
<1>3. listed \in SUBSET Conn
  BY DEF TypeOK
<1>4. onRequest(c, "login", k)
  BY <1>1
<1> HIDE DEF i
<1>5. /\ j \in Job /\ j.op = "login" /\ j.at = "sweep" /\ j.who = None
      /\ j.todo = listed
  BY <1>2, <1>3 DEF Job, Op, Kinds
<1> HIDE DEF k
<1>6. /\ Becomes(c, j) /\ job[c].at = "read"
      /\ UNCHANGED <<listed, fd, peer, profile, status, sync, view, rows>>
  BY <1>4, RequestIs
<1> HIDE DEF j
<1>7. Equipped(j)
  BY <1>5 DEF Equipped
<1>8. QED
  BY <1>5, <1>6, <1>7, FreshJob, TypedKept, TypeOKParts, ConnAgents

LEMMA StepGetProfile ==
  ASSUME TypeOK, AcceptedFirst, NEW c \in Conn, GetProfile(c)
  PROVE  Typed' /\ Quiet(c)
<1> DEFINE i == Idle("sync")
           j == [i EXCEPT !.op = "getprofile"]
<1>1. i \in Job /\ i.at = "sync" /\ i.who = None /\ i.todo = {}
  BY IdleFields DEF At
<1>2. onRequest(c, "getprofile", i)
  BY DEF GetProfile
<1> HIDE DEF i
<1>3. j \in Job /\ j.op = "getprofile" /\ j.at = "sync" /\ j.who = None /\ j.todo = {}
  BY <1>1 DEF Job, Op, Kinds
<1>4. /\ Becomes(c, j) /\ job[c].at = "read"
      /\ UNCHANGED <<listed, fd, peer, profile, status, sync, view, rows>>
  BY <1>2, RequestIs
<1> HIDE DEF j
<1>5. Equipped(j)
  BY <1>3 DEF Equipped
<1>6. QED
  BY <1>3, <1>4, <1>5, FreshJob, TypedKept, TypeOKParts, ConnAgents

LEMMA StepPlayerInvite ==
  ASSUME TypeOK, AcceptedFirst, NEW c \in Conn, PlayerInvite(c)
  PROVE  Typed' /\ Quiet(c)
<1>1. PICK q \in Profile :
        onRequest(c, "pinvite", [Idle("tell") EXCEPT !.who = c, !.friends = {q}])
  BY DEF PlayerInvite
<1> DEFINE i == Idle("tell")
           k == [i EXCEPT !.who = c, !.friends = {q}]
           j == [k EXCEPT !.op = "pinvite"]
<1>2. i \in Job /\ i.at = "tell" /\ i.todo = {}
  BY IdleFields DEF At
<1>3. onRequest(c, "pinvite", k)
  BY <1>1
<1> HIDE DEF i
<1>4. j \in Job /\ j.op = "pinvite" /\ j.at = "tell" /\ j.who = c /\ j.todo = {}
  BY <1>2 DEF Job, Op, Kinds
<1> HIDE DEF k
<1>5. /\ Becomes(c, j) /\ job[c].at = "read"
      /\ UNCHANGED <<listed, fd, peer, profile, status, sync, view, rows>>
  BY <1>3, RequestIs
<1> HIDE DEF j
<1>6. Equipped(j)
  BY <1>4, ConnAgents DEF Equipped
<1>7. QED
  BY <1>4, <1>5, <1>6, FreshJob, TypedKept, TypeOKParts, ConnAgents

LEMMA StepAuthAdd ==
  ASSUME TypeOK, AcceptedFirst, NEW c \in Conn, AuthAdd(c)
  PROVE  Typed' /\ Quiet(c)
<1>1. PICK q \in Profile :
        onRequest(c, "authadd", [Idle("tell") EXCEPT !.who = c, !.friends = {q}, !.want = q])
  BY DEF AuthAdd
<1> DEFINE i == Idle("tell")
           k == [i EXCEPT !.who = c, !.friends = {q}, !.want = q]
           j == [k EXCEPT !.op = "authadd"]
<1>2. i \in Job /\ i.at = "tell" /\ i.todo = {}
  BY IdleFields DEF At
<1>3. onRequest(c, "authadd", k)
  BY <1>1
<1> HIDE DEF i
<1>4. j \in Job /\ j.op = "authadd" /\ j.at = "tell" /\ j.who = c /\ j.todo = {}
  BY <1>2 DEF Job, Op, Kinds
<1> HIDE DEF k
<1>5. /\ Becomes(c, j) /\ job[c].at = "read"
      /\ UNCHANGED <<listed, fd, peer, profile, status, sync, view, rows>>
  BY <1>3, RequestIs
<1> HIDE DEF j
<1>6. Equipped(j)
  BY <1>4, ConnAgents DEF Equipped
<1>7. QED
  BY <1>4, <1>5, <1>6, FreshJob, TypedKept, TypeOKParts, ConnAgents

LEMMA StepDeleteBuddy ==
  ASSUME TypeOK, AcceptedFirst, NEW c \in Conn, DeleteBuddy(c)
  PROVE  Typed' /\ Quiet(c)
<1>1. PICK q \in Profile : onRequest(c, "delbuddy", [Idle("known") EXCEPT !.want = q])
  BY DEF DeleteBuddy
<1> DEFINE i == Idle("known")
           k == [i EXCEPT !.want = q]
           j == [k EXCEPT !.op = "delbuddy"]
<1>2. i \in Job /\ i.at = "known" /\ i.todo = {} /\ i.who = None
  BY IdleFields DEF At
<1>3. onRequest(c, "delbuddy", k)
  BY <1>1
<1> HIDE DEF i
<1>4. j \in Job /\ j.op = "delbuddy" /\ j.at = "known" /\ j.who = None /\ j.todo = {}
  BY <1>2 DEF Job, Op, Kinds
<1> HIDE DEF k
<1>5. /\ Becomes(c, j) /\ job[c].at = "read"
      /\ UNCHANGED <<listed, fd, peer, profile, status, sync, view, rows>>
  BY <1>3, RequestIs
<1> HIDE DEF j
<1>6. Equipped(j)
  BY <1>4 DEF Equipped
<1>7. QED
  BY <1>4, <1>5, <1>6, FreshJob, TypedKept, TypeOKParts, ConnAgents

LEMMA StepUnknownAction ==
  ASSUME TypeOK, AcceptedFirst, NEW c \in Conn, UnknownAction(c)
  PROVE  Typed' /\ Quiet(c)
<1> DEFINE i == Idle("offline")
           k == [i EXCEPT !.who = c]
           j == [k EXCEPT !.op = "unknown"]
<1>1. i \in Job /\ i.at = "offline" /\ i.todo = {}
  BY IdleFields DEF At
<1>2. onRequest(c, "unknown", k)
  BY DEF UnknownAction
<1> HIDE DEF i
<1>3. j \in Job /\ j.op = "unknown" /\ j.at = "offline" /\ j.who = c /\ j.todo = {}
  BY <1>1 DEF Job, Op, Kinds
<1> HIDE DEF k
<1>4. /\ Becomes(c, j) /\ job[c].at = "read"
      /\ UNCHANGED <<listed, fd, peer, profile, status, sync, view, rows>>
  BY <1>2, RequestIs
<1> HIDE DEF j
<1>5. Equipped(j)
  BY <1>3, ConnAgents DEF Equipped
<1>6. QED
  BY <1>3, <1>4, <1>5, FreshJob, TypedKept, TypeOKParts, ConnAgents

LEMMA StepSetStatus ==
  ASSUME TypeOK, AcceptedFirst, NEW c \in Conn, SetStatus(c)
  PROVE  Typed' /\ Quiet(c)
<1> DEFINE i == Idle("ask")
           j == [i EXCEPT !.op = "status", !.who = c]
<1>1. i \in Job /\ i.at = "ask" /\ i.todo = {}
  BY IdleFields DEF At
<1>2. /\ Becomes(c, j) /\ job[c].at = "read"
      /\ status' = [status EXCEPT ![c] = "Online"]
      /\ UNCHANGED <<listed, fd, peer, profile, sync, view, rows>>
  BY DEF SetStatus, Run, Becomes, i
<1> HIDE DEF i
<1>3. j \in Job /\ j.op = "status" /\ j.at = "ask" /\ j.who = c /\ j.todo = {}
  BY <1>1 DEF Job, Op, Kinds
<1> HIDE DEF j
<1>4. Equipped(j)
  BY <1>3, ConnAgents DEF Equipped
<1>5. Typed'
  BY <1>2, TypeOKParts DEF Typed, Status
<1>6. QED
  BY <1>2, <1>3, <1>4, <1>5, FreshJob, ConnAgents

-----------------------------------------------------------------------------
(***************************************************************************)
(* Steps inside a handler.                                                 *)
(***************************************************************************)
\* What a job in the middle of a handler may become.
LEMMA NextJob ==
  ASSUME TypeOK, NEW a \in Agent, NEW j \in Job, Equipped(j), Becomes(a, j),
         job[a].at \notin {"none", "unlist"}, j.at \notin {"none", "unlist", "sweep", "insert"},
         j.op = job[a].op, j.want = job[a].want, j.todo = job[a].todo, j.who = job[a].who,
         j.at \in LoginAts => job[a].at \in LoginAts,
         UNCHANGED <<listed, fd, profile, rows>>
  PROVE  Quiet(a)
<1>1. Follows(a, j)
  BY DEF Follows
<1>2. QED
  BY <1>1 DEF Quiet

LEMMA Returned ==
  ASSUME TypeOK, NEW a \in Agent, Return(a),
         job[a].at \notin {"none", "unlist"},
         UNCHANGED <<listed, fd, profile, rows>>
  PROVE  Quiet(a)
<1>1. /\ Home(a) \in Job /\ Equipped(Home(a))
      /\ Home(a).at \in {"read", "idle"} /\ Home(a).todo = {} /\ Home(a).who = None
      /\ Home(a).op = "none"
  BY HomeIs
<1>2. Becomes(a, Home(a))
  BY DEF Return, Run, Becomes
<1> DEFINE j == Home(a)
<1> HIDE DEF j
<1>3. j \in Job /\ Equipped(j) /\ j.at \in {"read", "idle"} /\ j.todo = {} /\ j.who = None
      /\ j.op = "none"
  BY <1>1 DEF j
<1>4. Follows(a, j)
  BY <1>3 DEF Follows
<1>5. QED
  BY <1>2, <1>3, <1>4 DEF Quiet, j

LEMMA StepDisconnect ==
  ASSUME TypeOK, NEW a \in Agent, Disconnect(a)
  PROVE  Typed' /\ Quiet(a)
<1>1. job[a].at = "offline" /\ Go(a, "ask")
  BY DEF Disconnect
<1>2. PICK j \in Job : /\ Becomes(a, j)
                       /\ j.op = job[a].op /\ j.at = "ask" /\ j.want = job[a].want
                       /\ j.todo = job[a].todo /\ j.who = job[a].who
  BY <1>1, GoIs DEF At
<1>3. Equipped(j)
  BY <1>1, <1>2, TypeOKParts DEF Equipped
<1>4. UNCHANGED <<listed, fd, peer, profile, sync, view, rows>>
  BY DEF Disconnect
<1>5. Typed'
  <2>1. status' = [status EXCEPT ![job[a].who] = "Offline"]
    BY DEF Disconnect
  <2>2. QED
    BY <1>4, <2>1, TypeOKParts DEF Typed, Status
<1>6. QED
  BY <1>1, <1>2, <1>3, <1>4, <1>5, NextJob DEF LoginAts

LEMMA StepSendNewStatus ==
  ASSUME TypeOK, NEW a \in Agent, SendNewStatus(a)
  PROVE  Typed' /\ Quiet(a)
<1> DEFINE q == queryPlayerFriendsByProfileId(profile[job[a].who])
           j == [job[a] EXCEPT !.at = "tell", !.friends = q]
<1>1. q \in SUBSET Profile
  BY FriendsAre
<1>2. /\ job[a].at = "ask"
      /\ job' = [job EXCEPT ![a].at = "tell", ![a].friends = q]
      /\ UNCHANGED <<listed, fd, peer, profile, status, sync, view, rows>>
  BY DEF SendNewStatus, session
<1> HIDE DEF q
<1>3. job \in [Agent -> Job] /\ Equipped(job[a])
  BY TypeOKParts
<1>4. Becomes(a, j)
  BY <1>2, <1>3 DEF Becomes
<1>5. job[a] \in Job
  BY <1>3
<1>6. /\ j \in Job /\ j.op = job[a].op /\ j.at = "tell" /\ j.want = job[a].want
      /\ j.todo = job[a].todo /\ j.who = job[a].who
  BY <1>1, <1>5 DEF Job, At
<1> HIDE DEF j
<1>7. Equipped(j)
  BY <1>2, <1>3, <1>6 DEF Equipped
<1>8. QED
  BY <1>2, <1>4, <1>6, <1>7, NextJob, TypedKept, TypeOKParts DEF LoginAts

LEMMA StepSendBuddyMessage ==
  ASSUME TypeOK, NEW a \in Agent, SendBuddyMessage(a)
  PROVE  Typed' /\ Quiet(a)
<1>1. job \in [Agent -> Job] /\ Equipped(job[a]) /\ Typed
  BY TypeOKParts
<1>2. job[a] \in Job
  BY <1>1
<1>3. /\ job[a].at = "tell"
      /\ UNCHANGED <<listed, fd, peer, profile, status, sync, view, rows>>
  BY DEF SendBuddyMessage, session
<1>4. PICK q \in job[a].friends : \E d \in findSessionByProfileId(q) :
        LET j == [job[a] EXCEPT !.friends = @ \ {q}]
        IN  Run(a, IF d = None
                   THEN j
                   ELSE [j EXCEPT !.at = "send", !.to = d, !.from = profile[job[a].who],
                                  !.msg = status[job[a].who]])
  BY DEF SendBuddyMessage
<1> DEFINE k == [job[a] EXCEPT !.friends = @ \ {q}]
<1>5. PICK d \in findSessionByProfileId(q) :
        Run(a, IF d = None
               THEN k
               ELSE [k EXCEPT !.at = "send", !.to = d, !.from = profile[job[a].who],
                              !.msg = status[job[a].who]])
  BY <1>4
<1>6. /\ k \in Job /\ k.op = job[a].op /\ k.at = "tell" /\ k.want = job[a].want
      /\ k.todo = job[a].todo /\ k.who = job[a].who /\ k.to = job[a].to
  BY <1>2, <1>3 DEF Job
<1> HIDE DEF k
<1>7. d \in Conn \union {None}
  BY <1>1, SessionsAre
<1>8. job[a].who \in Conn
  BY <1>1, <1>2, <1>3, JobFields DEF Equipped
<1>9. CASE d = None
  <2>1. Becomes(a, k)
    BY <1>5, <1>9 DEF Run, Becomes
  <2>2. Equipped(k)
    BY <1>1, <1>3, <1>6 DEF Equipped
  <2>3. QED
    BY <1>1, <1>3, <1>6, <2>1, <2>2, NextJob, TypedKept DEF LoginAts
<1>10. CASE d # None
  <2> DEFINE p == profile[job[a].who]
             m == status[job[a].who]
             j == [k EXCEPT !.at = "send", !.to = d, !.from = p, !.msg = m]
  <2>1. Becomes(a, j)
    BY <1>5, <1>10 DEF Run, Becomes
  <2>2. p \in Profile \union {None} /\ m \in Status
    BY <1>1, <1>8 DEF Typed
  <2> HIDE DEF p, m
  <2>3. /\ j \in Job /\ j.op = job[a].op /\ j.at = "send" /\ j.want = job[a].want
        /\ j.todo = job[a].todo /\ j.who = job[a].who /\ j.to = d
    BY <1>6, <1>7, <2>2 DEF Job, At
  <2> HIDE DEF j
  <2>4. Equipped(j)
    BY <1>1, <1>3, <1>10, <2>3 DEF Equipped
  <2>5. QED
    BY <1>1, <1>3, <2>1, <2>3, <2>4, NextJob, TypedKept DEF LoginAts
<1>11. QED
  BY <1>9, <1>10

LEMMA StepSend ==
  ASSUME TypeOK, NEW a \in Agent, Send(a)
  PROVE  Typed' /\ Quiet(a)
<1> DEFINE j == [job[a] EXCEPT !.at = "tell", !.to = None, !.from = None, !.msg = "none"]
<1>1. job \in [Agent -> Job] /\ Equipped(job[a]) /\ Typed
  BY TypeOKParts
<1>2. job[a] \in Job
  BY <1>1
<1>3. /\ job[a].at = "send" /\ Becomes(a, j)
      /\ UNCHANGED <<listed, fd, profile, status, sync, rows>>
  BY DEF Send, Run, Becomes, session
<1>4. /\ j \in Job /\ j.op = job[a].op /\ j.at = "tell" /\ j.want = job[a].want
      /\ j.todo = job[a].todo /\ j.who = job[a].who
  BY <1>2 DEF Job, At, Status
<1> HIDE DEF j
<1>5. Equipped(j)
  BY <1>1, <1>3, <1>4 DEF Equipped
<1>6. peer' \in [Conn -> {"up", "lost", "owing", "dead"}]
  BY <1>1, SentTypes DEF Send
<1>7. job[a].msg \in Status /\ job[a].to \in Conn
  BY <1>1, <1>2, <1>3, JobFields DEF Equipped
<1>8. view' \in [Conn -> [Profile -> Status]]
  <2> DEFINE d == job[a].to
             p == job[a].from
             m == job[a].msg
  <2>1. view' = view \/ view' = [view EXCEPT ![d][p] = m]
    BY DEF Send
  <2>2. m \in Status /\ d \in Conn
    BY <1>7
  <2> HIDE DEF d, p, m
  <2>3. view \in [Conn -> [Profile -> Status]]
    BY <1>1 DEF Typed
  <2>4. [view[d] EXCEPT ![p] = m] \in [Profile -> Status]
    BY <2>2, <2>3
  <2>5. QED
    BY <2>1, <2>2, <2>3, <2>4
<1>9. Typed'
  BY <1>1, <1>3, <1>6, <1>8 DEF Typed
<1>10. QED
  BY <1>3, <1>4, <1>5, <1>9, NextJob DEF LoginAts

LEMMA StepMatch ==
  ASSUME TypeOK, NEW a \in Agent, Handling(a), Match(a)
  PROVE  Typed' /\ Quiet(a)
<1>1. job \in [Agent -> Job] /\ Equipped(job[a]) /\ Typed
  BY TypeOKParts
<1>2. job[a] \in Job
  BY <1>1
<1>3. /\ job[a].at = "sweep" /\ job[a].who = None
      /\ UNCHANGED <<listed, fd, peer, profile, status, sync, view, rows>>
  BY DEF Match, Sweeping, session, Handling
<1>4. PICK d \in job[a].todo :
        /\ profile[d] = job[a].want
        /\ Run(a, [job[a] EXCEPT !.todo = @ \ {d}, !.at = "offline", !.who = d])
  BY DEF Match
<1> DEFINE j == [job[a] EXCEPT !.todo = @ \ {d}, !.at = "offline", !.who = d]
<1>5. Becomes(a, j)
  BY <1>4 DEF Run, Becomes
<1>6. d \in Conn
  BY <1>2, JobFields
<1>7. /\ j \in Job /\ j.op = job[a].op /\ j.at = "offline" /\ j.want = job[a].want
      /\ j.todo = job[a].todo \ {d} /\ j.who = d
  BY <1>2, <1>6 DEF Job, At
<1> HIDE DEF j
<1>8. Equipped(j)
  BY <1>6, <1>7, ConnAgents DEF Equipped
<1>9. Follows(a, j)
  BY <1>3, <1>4, <1>6, <1>7, <1>8, ConnAgents DEF Follows, LoginAts
<1>10. QED
  BY <1>1, <1>3, <1>5, <1>7, <1>9, TypedKept DEF Quiet

LEMMA StepSkip ==
  ASSUME TypeOK, NEW a \in Agent, Handling(a), Skip(a)
  PROVE  Typed' /\ Quiet(a)
<1>1. job \in [Agent -> Job] /\ Equipped(job[a]) /\ Typed
  BY TypeOKParts
<1>2. job[a] \in Job
  BY <1>1
<1>3. /\ job[a].at = "sweep" /\ job[a].who = None
      /\ UNCHANGED <<listed, fd, peer, profile, status, sync, view, rows>>
  BY DEF Skip, Sweeping, session, Handling
<1>4. PICK d \in job[a].todo :
        /\ profile[d] # job[a].want
        /\ Run(a, [job[a] EXCEPT !.todo = @ \ {d}])
  BY DEF Skip
<1> DEFINE j == [job[a] EXCEPT !.todo = @ \ {d}]
<1>5. Becomes(a, j)
  BY <1>4 DEF Run, Becomes
<1>6. d \in Conn
  BY <1>2, JobFields
<1>7. /\ j \in Job /\ j.op = job[a].op /\ j.at = "sweep" /\ j.want = job[a].want
      /\ j.todo = job[a].todo \ {d} /\ j.who = None
  BY <1>2, <1>3, <1>6 DEF Job
<1> HIDE DEF j
<1>8. Equipped(j)
  BY <1>7 DEF Equipped
<1>9. Follows(a, j)
  BY <1>3, <1>4, <1>6, <1>7, <1>8, ConnAgents DEF Follows, LoginAts
<1>10. QED
  BY <1>1, <1>3, <1>5, <1>7, <1>9, TypedKept DEF Quiet

LEMMA StepReturn ==
  ASSUME TypeOK, NEW a \in Agent, SweepDone(a) \/ (a \in Conn /\ Told(a))
  PROVE  Typed' /\ Quiet(a)
<1>1. /\ Return(a) /\ job[a].at \in {"sweep", "tell"}
      /\ UNCHANGED <<listed, fd, peer, profile, status, sync, view, rows>>
  BY DEF SweepDone, Told, session
<1>2. QED
  BY <1>1, Returned, TypedKept, TypeOKParts

LEMMA StepLoginStatus ==
  ASSUME TypeOK, NEW c \in Conn, LoginStatus(c)
  PROVE  Typed' /\ Quiet(c)
<1>1. job[c].at = "online" /\ Go(c, "list") /\ c \in Agent
  BY ConnAgents DEF LoginStatus
<1>2. PICK j \in Job : /\ Becomes(c, j)
                       /\ j.op = job[c].op /\ j.at = "list" /\ j.want = job[c].want
                       /\ j.todo = job[c].todo /\ j.who = job[c].who
  BY <1>1, GoIs DEF At
<1>3. Equipped(j)
  BY <1>2 DEF Equipped
<1>4. UNCHANGED <<listed, fd, profile, sync, view, rows>>
  BY DEF LoginStatus
<1>5. Typed'
  <2>1. status' = [status EXCEPT ![c] = "Online"]
    BY DEF LoginStatus
  <2>2. peer' \in [Conn -> {"up", "lost", "owing", "dead"}]
    BY SentTypes, TypeOKParts DEF LoginStatus
  <2>3. QED
    BY <1>4, <2>1, <2>2, TypeOKParts DEF Typed, Status
<1>6. QED
  BY <1>1, <1>2, <1>3, <1>4, <1>5, NextJob DEF LoginAts

LEMMA StepLoginFriends ==
  ASSUME TypeOK, NEW c \in Conn, LoginFriends(c)
  PROVE  Typed' /\ Quiet(c)
<1>1. job[c].at = "list" /\ Go(c, "sync") /\ c \in Agent
  BY ConnAgents DEF LoginFriends
<1>2. PICK j \in Job : /\ Becomes(c, j)
                       /\ j.op = job[c].op /\ j.at = "sync" /\ j.want = job[c].want
                       /\ j.todo = job[c].todo /\ j.who = job[c].who
  BY <1>1, GoIs DEF At
<1>3. Equipped(j)
  BY <1>2 DEF Equipped
<1>4. UNCHANGED <<listed, fd, profile, status, view, rows>>
  BY DEF LoginFriends
<1>5. Typed'
  <2> DEFINE f == queryPlayerFriendsByProfileId(job[c].want)
  <2>1. sync' = [sync EXCEPT ![c] = f]
    BY DEF LoginFriends
  <2>2. f \in SUBSET Profile
    BY FriendsAre
  <2> HIDE DEF f
  <2>3. peer' \in [Conn -> {"up", "lost", "owing", "dead"}]
    BY SentTypes, TypeOKParts DEF LoginFriends
  <2>4. QED
    BY <1>4, <2>1, <2>2, <2>3, TypeOKParts DEF Typed
<1>6. QED
  BY <1>1, <1>2, <1>3, <1>4, <1>5, NextJob DEF LoginAts

LEMMA StepSyncFind ==
  ASSUME TypeOK, AcceptedFirst, NEW c \in Conn, SyncFind(c)
  PROVE  Typed' /\ Quiet(c)
<1>1. job \in [Agent -> Job] /\ Typed /\ c \in Agent
  BY TypeOKParts, ConnAgents
<1>2. job[c] \in Job
  BY <1>1
<1>3. /\ job[c].at = "sync"
      /\ UNCHANGED <<listed, fd, peer, profile, status, sync, view, rows>>
  BY DEF SyncFind, session
<1>4. Typed'
  BY <1>1, <1>3, TypedKept
<1>5. CASE sync[c] = {} /\ Return(c)
  BY <1>1, <1>3, <1>4, <1>5, Returned
<1>6. ASSUME NEW q \in sync[c], NEW d \in findSessionByProfileId(q),
             Run(c, [Idle("answer") EXCEPT !.op = job[c].op, !.want = q,
                      !.msg = IF d = None THEN "Offline" ELSE status[d]])
      PROVE  Typed' /\ Quiet(c)
  <2> DEFINE i == Idle("answer")
             o == job[c].op
             m == IF d = None THEN "Offline" ELSE status[d]
             j == [i EXCEPT !.op = o, !.want = q, !.msg = m]
  <2>1. Becomes(c, j)
    BY <1>6 DEF Run, Becomes
  <2>2. i \in Job /\ i.at = "answer" /\ i.who = None /\ i.todo = {}
    BY IdleFields DEF At
  <2>3. o \in Op
    BY <1>2, JobFields
  <2>4. m \in Status
    BY <1>1, SessionsAre DEF Typed, Status
  <2>5. q \in Profile
    BY <1>1 DEF Typed
  <2> HIDE DEF i, o, m
  <2>6. j \in Job /\ j.at = "answer" /\ j.who = None /\ j.todo = {}
    BY <2>2, <2>3, <2>4, <2>5 DEF Job
  <2> HIDE DEF j
  <2>7. Equipped(j)
    BY <2>6 DEF Equipped
  <2>8. QED
    BY <1>1, <1>3, <1>4, <2>1, <2>6, <2>7, FreshJob DEF LoginAts
<1>7. QED
  BY <1>5, <1>6 DEF SyncFind

LEMMA StepSyncSend ==
  ASSUME TypeOK, NEW c \in Conn, SyncSend(c)
  PROVE  Typed' /\ Quiet(c)
<1>1. job \in [Agent -> Job] /\ Typed /\ c \in Agent
  BY TypeOKParts, ConnAgents
<1>2. job[c].msg \in Status
  BY <1>1, JobFields
<1>3. /\ job[c].at = "answer" /\ Return(c)
      /\ UNCHANGED <<listed, fd, profile, status, rows>>
  BY DEF SyncSend
<1>4. peer' \in [Conn -> {"up", "lost", "owing", "dead"}]
  BY <1>1, SentTypes DEF SyncSend
<1>5. sync' \in [Conn -> SUBSET Profile]
  BY <1>1 DEF SyncSend, Typed
<1>6. view' \in [Conn -> [Profile -> Status]]
  <2> DEFINE p == job[c].want
             m == job[c].msg
  <2>1. view' = view \/ view' = [view EXCEPT ![c][p] = m]
    BY DEF SyncSend
  <2>2. m \in Status
    BY <1>2
  <2> HIDE DEF p, m
  <2>3. view \in [Conn -> [Profile -> Status]]
    BY <1>1 DEF Typed
  <2>4. [view[c] EXCEPT ![p] = m] \in [Profile -> Status]
    BY <2>2, <2>3
  <2>5. QED
    BY <2>1, <2>3, <2>4
<1>7. Typed'
  BY <1>1, <1>3, <1>4, <1>5, <1>6 DEF Typed
<1>8. QED
  BY <1>1, <1>3, <1>7, Returned

\* The thread goes on to insert a row, if the table has none or its loss is
\* noted.
LEMMA GoesOnToInsert ==
  ASSUME TypeOK, NEW c \in Conn, job[c].at = "tell",
         UNCHANGED <<listed, fd, peer, profile, status, sync, view, rows>>,
         Run(c, [Idle("insert") EXCEPT !.op = "authadd", !.want = job[c].want]),
         \A r \in Pair : r = {profile[c], job[c].want} /\ <<"insert", r>> \notin noted'
                           => rows[r] = 0
  PROVE  Typed' /\ Quiet(c)
<1> DEFINE i == Idle("insert")
           w == job[c].want
           j == [i EXCEPT !.op = "authadd", !.want = w]
<1>1. job \in [Agent -> Job] /\ Typed /\ c \in Agent
  BY TypeOKParts, ConnAgents
<1>2. Becomes(c, j)
  BY DEF Run, Becomes
<1>3. i \in Job /\ i.at = "insert" /\ i.who = None /\ i.todo = {}
  BY IdleFields DEF At
<1>4. w \in Profile \union {None}
  BY <1>1, JobFields
<1> HIDE DEF i
<1>5. j \in Job /\ j.at = "insert" /\ j.who = None /\ j.todo = {} /\ j.want = w
  BY <1>3, <1>4 DEF Job, Op, Kinds
<1> HIDE DEF j
<1>6. Equipped(j)
  BY <1>5 DEF Equipped
<1>7. Follows(c, j)
  BY <1>5, <1>6 DEF Follows, LoginAts
<1>8. QED
  BY <1>1, <1>2, <1>5, <1>7, TypedKept DEF Quiet

LEMMA StepAuthAddCheck ==
  ASSUME TypeOK, NEW c \in Conn, AuthAddCheck(c)
  PROVE  Typed' /\ Quiet(c)
<1>1. job \in [Agent -> Job] /\ Typed /\ c \in Agent
  BY TypeOKParts, ConnAgents
<1>2. /\ job[c].at = "tell"
      /\ UNCHANGED <<listed, fd, profile, status, sync, view, rows>>
  BY DEF AuthAddCheck, session
<1>3. CASE Sent(c) /\ Return(c)
  BY <1>1, <1>2, <1>3, Returned, SentTypes DEF Typed
<1>4. CASE /\ job[c].want \notin queryPlayerFriendsByProfileId(profile[c])
           /\ Run(c, [Idle("insert") EXCEPT !.op = "authadd", !.want = job[c].want])
           /\ UNCHANGED peer
  <2>1. ASSUME NEW r \in Pair, r = {profile[c], job[c].want} PROVE rows[r] = 0
    <3>1. profile[c] # None /\ job[c].want \in Profile
      BY <2>1, ConnAgents DEF Pair
    <3>2. rows[r] \in 0 .. 2 /\ ~(rows[r] > 0)
      BY <1>4, <2>1, <3>1 DEF queryPlayerFriendsByProfileId, TypeOK
    <3>3. QED
      BY <3>2
  <2>2. QED
    BY <1>2, <1>4, <2>1, GoesOnToInsert
<1>5. QED
  BY <1>3, <1>4 DEF AuthAddCheck

LEMMA StepDeleteBuddyCheck ==
  ASSUME TypeOK, NEW c \in Conn, DeleteBuddyCheck(c)
  PROVE  Typed' /\ Quiet(c)
<1>1. job \in [Agent -> Job] /\ Typed /\ c \in Agent
  BY TypeOKParts, ConnAgents
<1>2. /\ job[c].at = "known"
      /\ UNCHANGED <<listed, fd, profile, status, sync, view, rows>>
  BY DEF DeleteBuddyCheck, session
<1>3. CASE Sent(c) /\ Return(c)
  BY <1>1, <1>2, <1>3, Returned, SentTypes DEF Typed
<1>4. CASE Go(c, "remove") /\ UNCHANGED peer
  <2>1. PICK j \in Job : /\ Becomes(c, j)
                         /\ j.op = job[c].op /\ j.at = "remove" /\ j.want = job[c].want
                         /\ j.todo = job[c].todo /\ j.who = job[c].who
    BY <1>1, <1>4, GoIs DEF At
  <2>2. Equipped(j)
    BY <2>1 DEF Equipped
  <2>3. QED
    BY <1>1, <1>2, <1>4, <2>1, <2>2, NextJob, TypedKept DEF LoginAts
<1>5. QED
  BY <1>3, <1>4 DEF DeleteBuddyCheck

LEMMA StepKick ==
  ASSUME TypeOK, AcceptedFirst, Kick
  PROVE  Typed' /\ Quiet(Admin)
<1>1. /\ job[Admin].at = "idle"
      /\ UNCHANGED <<listed, fd, peer, profile, status, sync, view, rows>>
  BY DEF Kick, session
<1>2. PICK p \in Profile :
        Run(Admin, [Idle("sweep") EXCEPT !.op = "kick", !.want = p, !.todo = listed])
  BY DEF Kick
<1> DEFINE i == Idle("sweep")
           j == [i EXCEPT !.op = "kick", !.want = p, !.todo = listed]
<1>3. i \in Job /\ i.at = "sweep" /\ i.who = None
  BY IdleFields DEF At
<1>4. Becomes(Admin, j)
  BY <1>2 DEF Run, Becomes
<1> HIDE DEF i
<1>5. listed \in SUBSET Conn
  BY DEF TypeOK
<1>6. j \in Job /\ j.op = "kick" /\ j.at = "sweep" /\ j.who = None /\ j.todo = listed
  BY <1>3, <1>5 DEF Job, Op
<1> HIDE DEF j
<1>7. Equipped(j)
  BY <1>6 DEF Equipped
<1>8. QED
  BY <1>1, <1>4, <1>6, <1>7, FreshJob, TypedKept, TypeOKParts, ConnAgents

LEMMA StepBeat ==
  ASSUME TypeOK, AcceptedFirst, Beat
  PROVE  Typed' /\ Quiet(Heartbeat)
<1> DEFINE i == Idle("sweep")
           j == [i EXCEPT !.op = "heartbeat", !.todo = listed]
<1>1. /\ job[Heartbeat].at = "idle" /\ Becomes(Heartbeat, j)
      /\ UNCHANGED <<listed, fd, peer, profile, status, sync, view, rows>>
  BY DEF Beat, session, Run, Becomes
<1>2. i \in Job /\ i.at = "sweep" /\ i.who = None
  BY IdleFields DEF At
<1> HIDE DEF i
<1>3. listed \in SUBSET Conn
  BY DEF TypeOK
<1>4. j \in Job /\ j.op = "heartbeat" /\ j.at = "sweep" /\ j.who = None /\ j.todo = listed
  BY <1>2, <1>3 DEF Job, Op
<1> HIDE DEF j
<1>5. Equipped(j)
  BY <1>4 DEF Equipped
<1>6. QED
  BY <1>1, <1>4, <1>5, FreshJob, TypedKept, TypeOKParts, ConnAgents

LEMMA StepKeepAlive ==
  ASSUME TypeOK, Handling(Heartbeat), NEW d \in Conn, KeepAlive(d) \/ SendFailed(d)
  PROVE  Typed' /\ Quiet(Heartbeat)
<1>1. job \in [Agent -> Job] /\ Typed /\ Heartbeat \in Agent /\ Heartbeat \notin Conn
  BY TypeOKParts, ConnAgents, GpcmAssumption
<1>2. job[Heartbeat] \in Job
  BY <1>1
<1>3. /\ job[Heartbeat].at = "sweep" /\ d \in job[Heartbeat].todo /\ job[Heartbeat].who = None
      /\ UNCHANGED <<listed, fd, profile, status, sync, view, rows>>
  BY DEF KeepAlive, SendFailed, session, Handling
<1>4. Typed'
  <2>1. peer' \in [Conn -> {"up", "lost", "owing", "dead"}]
    BY <1>1, SentTypes DEF KeepAlive, SendFailed, Typed
  <2>2. QED
    BY <1>1, <1>3, <2>1 DEF Typed
<1>5. CASE KeepAlive(d)
  <2> DEFINE j == [job[Heartbeat] EXCEPT !.todo = @ \ {d}]
  <2>1. Becomes(Heartbeat, j)
    BY <1>5 DEF KeepAlive, Run, Becomes
  <2>2. j \in Job /\ j.at = "sweep" /\ j.todo = job[Heartbeat].todo \ {d} /\ j.who = None
    BY <1>2, <1>3 DEF Job
  <2> HIDE DEF j
  <2>3. Equipped(j)
    BY <2>2 DEF Equipped
  <2>4. Follows(Heartbeat, j)
    BY <1>1, <1>3, <2>2, <2>3 DEF Follows
  <2>5. QED
    BY <1>3, <1>4, <2>1, <2>2, <2>4 DEF Quiet
<1>6. CASE SendFailed(d)
  <2> DEFINE j == [job[Heartbeat] EXCEPT !.todo = @ \ {d}, !.at = "offline", !.who = d]
  <2>1. Becomes(Heartbeat, j)
    BY <1>6 DEF SendFailed, Run, Becomes
  <2>2. j \in Job /\ j.at = "offline" /\ j.todo = job[Heartbeat].todo \ {d} /\ j.who = d
    BY <1>2, <1>3 DEF Job, At
  <2> HIDE DEF j
  <2>3. Equipped(j)
    BY <2>2, ConnAgents DEF Equipped
  <2>4. Follows(Heartbeat, j)
    BY <1>1, <1>3, <2>2, <2>3 DEF Follows
  <2>5. QED
    BY <1>3, <1>4, <2>1, <2>2, <2>4 DEF Quiet
<1>7. QED
  BY <1>5, <1>6

-----------------------------------------------------------------------------
(***************************************************************************)
(* Queries that fail.                                                      *)
(***************************************************************************)
LEMMA StepSendNewStatusFails ==
  ASSUME TypeOK, NEW a \in Agent, SendNewStatusFails(a)
  PROVE  Typed' /\ Quiet(a)
<1> DEFINE j == [job[a] EXCEPT !.at = "tell", !.friends = {}]
<1>1. /\ job[a].at = "ask"
      /\ job' = [job EXCEPT ![a].at = "tell", ![a].friends = {}]
      /\ UNCHANGED <<listed, fd, peer, profile, status, sync, view, rows>>
  BY DEF SendNewStatusFails, session
<1>2. job \in [Agent -> Job] /\ Equipped(job[a]) /\ job[a] \in Job
  BY TypeOKParts
<1>3. Becomes(a, j)
  BY <1>1, <1>2 DEF Becomes
<1>4. /\ j \in Job /\ j.op = job[a].op /\ j.at = "tell" /\ j.want = job[a].want
      /\ j.todo = job[a].todo /\ j.who = job[a].who
  BY <1>2 DEF Job, At
<1> HIDE DEF j
<1>5. Equipped(j)
  BY <1>1, <1>2, <1>4 DEF Equipped
<1>6. QED
  BY <1>1, <1>3, <1>4, <1>5, NextJob, TypedKept, TypeOKParts DEF LoginAts

LEMMA StepLoginFriendsFails ==
  ASSUME TypeOK, NEW c \in Conn, LoginFriendsFails(c)
  PROVE  Typed' /\ Quiet(c)
<1>1. job[c].at = "list" /\ Go(c, "sync") /\ c \in Agent
  BY ConnAgents DEF LoginFriendsFails
<1>2. PICK j \in Job : /\ Becomes(c, j)
                       /\ j.op = job[c].op /\ j.at = "sync" /\ j.want = job[c].want
                       /\ j.todo = job[c].todo /\ j.who = job[c].who
  BY <1>1, GoIs DEF At
<1>3. Equipped(j)
  BY <1>2 DEF Equipped
<1>4. UNCHANGED <<listed, fd, profile, status, view, rows>>
  BY DEF LoginFriendsFails
<1>5. Typed'
  <2>1. sync' = [sync EXCEPT ![c] = {}]
    BY DEF LoginFriendsFails
  <2>2. peer' \in [Conn -> {"up", "lost", "owing", "dead"}]
    BY SentTypes, TypeOKParts DEF LoginFriendsFails
  <2>3. QED
    BY <1>4, <2>1, <2>2, TypeOKParts DEF Typed
<1>6. QED
  BY <1>1, <1>2, <1>3, <1>4, <1>5, NextJob DEF LoginAts

LEMMA StepFriendFails ==
  ASSUME TypeOK, NEW c \in Conn, DeleteBuddyCheckFails(c) \/ FriendWriteFails(c)
  PROVE  Typed' /\ Quiet(c)
<1>1. job \in [Agent -> Job] /\ Typed /\ c \in Agent
  BY TypeOKParts, ConnAgents
<1>2. /\ job[c].at \in {"known", "insert", "remove"} /\ Return(c)
      /\ Sent(c) \/ UNCHANGED peer
      /\ UNCHANGED <<listed, fd, profile, status, sync, view, rows>>
  BY DEF DeleteBuddyCheckFails, FriendWriteFails, session
<1>3. peer' \in [Conn -> {"up", "lost", "owing", "dead"}]
  BY <1>1, <1>2, SentTypes DEF Typed
<1>4. QED
  BY <1>1, <1>2, <1>3, Returned DEF Typed

\* A row that is overlooked is noted.
LEMMA StepAuthAddCheckFails ==
  ASSUME TypeOK, NEW c \in Conn, AuthAddCheckFails(c), Overlooked(c) \subseteq noted'
  PROVE  Typed' /\ Quiet(c)
<1>1. /\ job[c].at = "tell"
      /\ Run(c, [Idle("insert") EXCEPT !.op = "authadd", !.want = job[c].want])
      /\ UNCHANGED <<listed, fd, peer, profile, status, sync, view, rows>>
  BY DEF AuthAddCheckFails, session
<1>2. ASSUME NEW r \in Pair, r = {profile[c], job[c].want}, <<"insert", r>> \notin noted'
      PROVE  rows[r] = 0
  <2>1. <<"insert", r>> \notin Overlooked(c)
    BY <1>2
  <2>2. ~(rows[r] > 0)
    BY <1>2, <2>1 DEF Overlooked, FriendNotes
  <2>3. rows[r] \in 0 .. 2
    BY DEF TypeOK
  <2>4. QED
    BY <2>2, <2>3
<1>3. QED
  BY <1>1, <1>2, GoesOnToInsert

-----------------------------------------------------------------------------
(***************************************************************************)
(* What a step does to IInv.                                               *)
(***************************************************************************)
\* What every step writes down.
Records ==
  noted \union LoginRaces' \union TellRaces' \union FriendRaces' \union Changes \subseteq noted'

LEMMA Recorded ==
  ASSUME Records
  PROVE  RacesNoted' /\ noted \subseteq noted'
BY DEF Records, RacesNoted

LEMMA RecordRecords ==
  ASSUME NEW lost, Record(lost)
  PROVE  Records /\ lost \subseteq noted'
BY DEF Records, Record

LEMMA QuietStep ==
  ASSUME IInv, NEW a \in Agent, Typed', Quiet(a), Records
  PROVE  IInv'
<1>1. TypeOK /\ AcceptedFirst /\ RacesNoted /\ OneSession /\ ListMatchesSockets
      /\ OneRowPerFriend
  BY DEF IInv
<1>2. UNCHANGED <<listed, fd, profile, rows>>
  BY DEF Quiet
<1>3. PICK j \in Job : Follows(a, j) /\ Becomes(a, j)
  BY DEF Quiet
<1>4. Equipped(j)
  BY <1>3 DEF Follows
<1>5. /\ job' \in [Agent -> Job]
      /\ \A b \in Agent : Equipped(job'[b])
      /\ job'[a] = j
      /\ \A b \in Agent \ {a} : job'[b] = job[b]
  BY <1>1, <1>3, <1>4, JobTyping
<1>6. TypeOK'
  BY <1>5 DEF TypeOK, Typed, Equipped
<1>7. RacesNoted' /\ noted \subseteq noted'
  BY Recorded
<1>8. AcceptedFirst'
  BY <1>1, <1>2, <1>3, <1>5, ConnAgents DEF AcceptedFirst, Accepted, Follows
<1>9. ASSUME NEW b \in Agent PROVE Handling(b)'
  <2>1. Handling(a) /\ Handling(b)
    BY DEF IInv
  <2>2. CASE b # a
    BY <1>2, <1>5, <2>1, <2>2 DEF Handling, Accepted
  <2>3. CASE b = a
    <3>1. j.todo \subseteq Accepted
      BY <1>1, <1>3, <2>1 DEF Follows, Handling, AcceptedFirst
    <3>2. j.who \in Accepted \union {None}
      BY <1>1, <1>3, <2>1 DEF Follows, Handling, AcceptedFirst
    <3>3. j.at # "unlist" /\ (j.at = "sweep" => j.who = None)
      BY <1>3 DEF Follows
    <3>4. QED
      BY <1>2, <1>5, <2>3, <3>1, <3>2, <3>3 DEF Handling, Accepted
  <2>4. QED
    BY <2>2, <2>3
<1>10. ASSUME NEW c \in Conn PROVE Sweeps(c)'
  <2>1. Sweeps(c) /\ c \in Agent
    BY ConnAgents DEF IInv
  <2>2. CASE c # a
    BY <1>2, <1>5, <1>7, <2>1, <2>2 DEF Sweeps, LoggingIn
  <2>3. CASE c = a
    <3> SUFFICES ASSUME NEW p \in Profile, LoggingIn(c, p)', <<"login", p>> \notin noted',
                        NEW d \in listed' \ {c}, profile'[d] = p
                 PROVE  d \in job'[c].todo \/ d = job'[c].who
      BY DEF Sweeps
    <3>1. j.op = "login" /\ j.want = p /\ j.at \in LoginAts
      BY <1>5, <2>3 DEF LoggingIn, LoginAts
    <3>2. d \in listed \ {c} /\ profile[d] = p /\ d \in Conn
      BY <1>1, <1>2 DEF TypeOK
    <3>3. CASE j.todo = listed
      BY <1>5, <2>3, <3>2, <3>3
    <3>4. CASE /\ job[a].op = "login" /\ job[a].at \in LoginAts /\ j.want = job[a].want
               /\ \A e \in Conn : (e \in job[a].todo \/ e = job[a].who) =>
                    e \in j.todo \/ e = j.who \/ profile[e] # j.want
      <4>1. LoggingIn(c, p) /\ <<"login", p>> \notin noted
        BY <1>7, <2>3, <3>1, <3>4 DEF LoggingIn, LoginAts
      <4>2. d \in job[a].todo \/ d = job[a].who
        BY <2>1, <2>3, <3>2, <4>1 DEF Sweeps
      <4>3. QED
        BY <1>5, <2>3, <3>1, <3>2, <3>4, <4>2
    <3>5. QED
      BY <1>3, <2>3, <3>1, <3>3, <3>4 DEF Follows
  <2>4. QED
    BY <2>2, <2>3
<1>11. ASSUME NEW c \in Conn PROVE Befriends(c)'
  <2>1. Befriends(c) /\ c \in Agent
    BY ConnAgents DEF IInv
  <2>2. CASE c # a
    BY <1>2, <1>5, <1>7, <2>1, <2>2 DEF Befriends, Inserting
  <2>3. CASE c = a
    <3> SUFFICES ASSUME NEW r \in Pair, Inserting(c, r)', <<"insert", r>> \notin noted'
                 PROVE  rows'[r] = 0
      BY DEF Befriends
    <3>1. j.at = "insert" /\ r = {profile[c], j.want}
      BY <1>2, <1>5, <2>3 DEF Inserting
    <3>2. rows[r] = 0
      BY <1>3, <2>3, <3>1 DEF Follows
    <3>3. QED
      BY <1>2, <3>2
  <2>4. QED
    BY <2>2, <2>3
<1>12. OneSession'
  BY <1>1, <1>2, <1>7 DEF OneSession
<1>13. ListMatchesSockets'
  <2>1. ASSUME NEW c \in Conn, c \in listed, fd[c] = "closed"
        PROVE  \E b \in Agent : job'[b].at = "unlist" /\ job'[b].who = c
    <3>1. PICK b \in Agent : job[b].at = "unlist" /\ job[b].who = c
      BY <1>1, <2>1 DEF ListMatchesSockets
    <3>2. b # a
      BY <1>3, <3>1 DEF Follows
    <3>3. QED
      BY <1>5, <3>1, <3>2
  <2>2. QED
    BY <1>1, <1>2, <2>1 DEF ListMatchesSockets
<1>14. OneRowPerFriend'
  BY <1>1, <1>2, <1>7 DEF OneRowPerFriend
<1>15. QED
  BY <1>6, <1>7, <1>8, <1>9, <1>10, <1>11, <1>12, <1>13, <1>14 DEF IInv

\* The parts of IInv, and what every one of the lemmas below needs of them.
LEMMA IInvParts ==
  ASSUME IInv
  PROVE  /\ TypeOK /\ Typed /\ AcceptedFirst /\ RacesNoted /\ OneSession
         /\ ListMatchesSockets /\ OneRowPerFriend
         /\ job \in [Agent -> Job] /\ \A a \in Agent : Equipped(job[a]) /\ Handling(a)
         /\ \A c \in Conn : Sweeps(c) /\ Befriends(c)
BY TypeOKParts DEF IInv

LEMMA StepConnect ==
  ASSUME IInv, NEW c \in Conn, Connect(c), Records
  PROVE  IInv'
<1>1. PICK j \in Job : /\ Becomes(c, j)
                       /\ j.op = job[c].op /\ j.at = "read" /\ j.want = job[c].want
                       /\ j.todo = job[c].todo /\ j.who = job[c].who
  BY IInvParts, ConnAgents, GoIs DEF Connect, At
<1>2. Equipped(j)
  BY <1>1 DEF Equipped
<1>3. /\ job' \in [Agent -> Job]
      /\ \A b \in Agent : Equipped(job'[b])
      /\ job'[c] = j
      /\ \A b \in Agent \ {c} : job'[b] = job[b]
  BY <1>1, <1>2, IInvParts, ConnAgents, JobTyping
<1>4. /\ job[c].at = "none" /\ listed' = listed \union {c}
      /\ fd' = [fd EXCEPT ![c] = "open"] /\ peer' = [peer EXCEPT ![c] = "up"]
      /\ UNCHANGED <<profile, status, sync, view, rows>>
  BY DEF Connect, session
<1>5. TypeOK'
  <2>1. Typed'
    BY <1>4, IInvParts DEF Typed
  <2>2. QED
    BY <1>3, <2>1 DEF TypeOK, Typed, Equipped
<1>6. RacesNoted' /\ noted \subseteq noted'
  BY Recorded
<1>7. c \notin Accepted /\ fd[c] = "none" /\ profile[c] = None /\ c \notin listed
  BY <1>4, IInvParts DEF AcceptedFirst, Accepted
<1>8. Accepted' = Accepted \union {c}
  BY <1>4, IInvParts DEF Accepted, Typed
<1>9. AcceptedFirst'
  BY <1>1, <1>3, <1>4, <1>8, IInvParts, ConnAgents DEF AcceptedFirst
<1>10. ASSUME NEW b \in Agent PROVE Handling(b)'
  <2>1. Handling(b) /\ Handling(c) /\ Typed
    BY IInvParts, ConnAgents
  <2>2. job[b].at = "unlist" => job[b].who # c
    BY <1>7, <2>1 DEF Handling
  <2>3. CASE b = c
    BY <1>1, <1>3, <1>8, <2>1, <2>3 DEF Handling
  <2>4. CASE b # c
    <3>1. job'[b].at = "unlist" => job[b].who \in Conn
      BY <1>3, <2>1, <2>4, IInvParts, JobFields, ConnAgents DEF Equipped
    <3>2. QED
      BY <1>3, <1>4, <1>8, <2>1, <2>2, <2>4, <3>1 DEF Handling, Typed
  <2>5. QED
    BY <2>3, <2>4
<1>11. ASSUME NEW d \in Conn PROVE Sweeps(d)'
  <2>1. Sweeps(d) /\ d \in Agent
    BY IInvParts, ConnAgents
  <2>2. CASE d = c
    BY <1>1, <1>3, <2>2 DEF Sweeps, LoggingIn
  <2>3. CASE d # c
    <3>1. job'[d] = job[d]
      BY <1>3, <2>1, <2>3
    <3>2. \A p \in Profile : profile'[c] # p
      BY <1>4, <1>7, ConnAgents
    <3>3. QED
      BY <1>4, <1>6, <2>1, <3>1, <3>2 DEF Sweeps, LoggingIn
  <2>4. QED
    BY <2>2, <2>3
<1>12. ASSUME NEW d \in Conn PROVE Befriends(d)'
  BY <1>1, <1>3, <1>4, <1>6, IInvParts, ConnAgents DEF Befriends, Inserting
<1>13. OneSession'
  BY <1>4, <1>6, <1>7, IInvParts DEF OneSession
<1>14. ListMatchesSockets'
  <2>1. ASSUME NEW d \in Conn PROVE fd'[d] = "open" => d \in listed'
    BY <1>4, IInvParts DEF ListMatchesSockets, Typed
  <2>2. ASSUME NEW d \in Conn, d \in listed', fd'[d] = "closed"
        PROVE  \E a \in Agent : job'[a].at = "unlist" /\ job'[a].who = d
    <3>1. d # c /\ d \in listed /\ fd[d] = "closed"
      BY <1>4, <2>2, IInvParts DEF Typed
    <3>2. PICK a \in Agent : job[a].at = "unlist" /\ job[a].who = d
      BY <3>1, IInvParts DEF ListMatchesSockets
    <3>3. QED
      BY <1>3, <1>4, <3>2
  <2>3. QED
    BY <2>1, <2>2 DEF ListMatchesSockets
<1>15. OneRowPerFriend'
  BY <1>4, <1>6, IInvParts DEF OneRowPerFriend
<1>16. QED
  BY <1>5, <1>6, <1>9, <1>10, <1>11, <1>12, <1>13, <1>14, <1>15 DEF IInv

LEMMA StepPeer ==
  ASSUME IInv, NEW c \in Conn, Lose(c) \/ TimeOut(c), Records
  PROVE  IInv'
<1>1. /\ peer' \in [Conn -> {"up", "lost", "owing", "dead"}]
      /\ UNCHANGED <<listed, fd, profile, status, sync, view, rows, job>>
  BY IInvParts DEF Lose, TimeOut, session, Typed
<1>2. RacesNoted' /\ noted \subseteq noted'
  BY Recorded
<1>3. TypeOK'
  BY <1>1, IInvParts DEF TypeOK, Status
<1>4. AcceptedFirst' /\ ListMatchesSockets' /\ \A a \in Agent : Handling(a)'
  BY <1>1, IInvParts DEF AcceptedFirst, ListMatchesSockets, Handling, Accepted
<1>5. OneSession' /\ OneRowPerFriend'
  BY <1>1, <1>2, IInvParts DEF OneSession, OneRowPerFriend
<1>6. \A d \in Conn : Sweeps(d)' /\ Befriends(d)'
  BY <1>1, <1>2, IInvParts DEF Sweeps, LoggingIn, Befriends, Inserting
<1>7. QED
  BY <1>2, <1>3, <1>4, <1>5, <1>6 DEF IInv

LEMMA StepClose ==
  ASSUME IInv, NEW a \in Agent, Close(a), Records
  PROVE  IInv'
<1> DEFINE w == job[a].who
<1>1. PICK j \in Job : /\ Becomes(a, j)
                       /\ j.op = job[a].op /\ j.at = "unlist" /\ j.want = job[a].want
                       /\ j.todo = job[a].todo /\ j.who = w
  BY IInvParts, GoIs DEF Close, At
<1>2. job[a].at = "tell" /\ w # None
  BY IInvParts DEF Close, Equipped
<1>3. Equipped(j)
  BY <1>1, <1>2 DEF Equipped
<1>4. /\ job' \in [Agent -> Job]
      /\ \A b \in Agent : Equipped(job'[b])
      /\ job'[a] = j
      /\ \A b \in Agent \ {a} : job'[b] = job[b]
  BY <1>1, <1>3, IInvParts, JobTyping
<1>5. w \in Accepted /\ w \in Conn /\ fd[w] # "none"
  BY <1>2, IInvParts DEF Handling, Accepted
<1>6. /\ fd' = [fd EXCEPT ![w] = "closed"]
      /\ UNCHANGED <<listed, profile, status, sync, view, rows>>
  BY DEF Close, session
<1> HIDE DEF w
<1>7. TypeOK'
  <2>1. peer' \in [Conn -> {"up", "lost", "owing", "dead"}]
    BY IInvParts, SentTypes DEF Close
  <2>2. Typed'
    BY <1>6, <2>1, IInvParts DEF Typed
  <2>3. QED
    BY <1>4, <2>2 DEF TypeOK, Typed, Equipped
<1>8. RacesNoted' /\ noted \subseteq noted'
  BY Recorded
<1>9. Accepted' = Accepted
  BY <1>5, <1>6, IInvParts DEF Accepted, Typed
<1>10. AcceptedFirst'
  BY <1>1, <1>2, <1>4, <1>6, <1>9, IInvParts, ConnAgents DEF AcceptedFirst
<1>11. ASSUME NEW b \in Agent PROVE Handling(b)'
  <2>1. Handling(b)
    BY IInvParts
  <2>2. CASE b = a
    BY <1>1, <1>4, <1>5, <1>6, <1>9, <2>1, <2>2, IInvParts DEF Handling, Typed, w
  <2>3. CASE b # a
    BY <1>4, <1>5, <1>6, <1>9, <2>1, <2>3, IInvParts DEF Handling, Typed, Accepted
  <2>4. QED
    BY <2>2, <2>3
<1>12. ASSUME NEW d \in Conn PROVE Sweeps(d)'
  <2>1. Sweeps(d) /\ d \in Agent
    BY IInvParts, ConnAgents
  <2>2. \A p \in Profile : LoggingIn(d, p)' => LoggingIn(d, p)
    BY <1>1, <1>2, <1>4, <2>1 DEF LoggingIn
  <2>3. job'[d].todo = job[d].todo /\ job'[d].who = job[d].who
    BY <1>1, <1>4, <2>1 DEF w
  <2>4. QED
    BY <1>6, <1>8, <2>1, <2>2, <2>3 DEF Sweeps
<1>13. ASSUME NEW d \in Conn PROVE Befriends(d)'
  BY <1>1, <1>4, <1>6, <1>8, IInvParts, ConnAgents DEF Befriends, Inserting
<1>14. OneSession' /\ OneRowPerFriend'
  BY <1>6, <1>8, IInvParts DEF OneSession, OneRowPerFriend
<1>15. ListMatchesSockets'
  <2>1. ASSUME NEW d \in Conn PROVE fd'[d] = "open" => d \in listed'
    BY <1>6, IInvParts DEF ListMatchesSockets, Typed
  <2>2. ASSUME NEW d \in Conn, d \in listed', fd'[d] = "closed"
        PROVE  \E b \in Agent : job'[b].at = "unlist" /\ job'[b].who = d
    <3>1. CASE d = w
      BY <1>1, <1>4, <3>1
    <3>2. CASE d # w
      <4>1. d \in listed /\ fd[d] = "closed"
        BY <1>6, <2>2, <3>2, IInvParts DEF Typed
      <4>2. PICK b \in Agent : job[b].at = "unlist" /\ job[b].who = d
        BY <4>1, IInvParts DEF ListMatchesSockets
      <4>3. QED
        BY <1>2, <1>4, <4>2
    <3>3. QED
      BY <3>1, <3>2
  <2>3. QED
    BY <2>1, <2>2 DEF ListMatchesSockets
<1>16. QED
  BY <1>7, <1>8, <1>10, <1>11, <1>12, <1>13, <1>14, <1>15 DEF IInv

\* What is left of the job of an agent that has taken a client off the list.
LEMMA AfterUnlisting ==
  ASSUME TypeOK, NEW a \in Agent, onClientDisconnect(a)
  PROVE  \E j \in Job : /\ Becomes(a, j) /\ j.who = None
                        /\ j.todo \subseteq job[a].todo
                        /\ j.at \in {"ended", "read", "idle", "sweep"}
                        /\ j.at = "sweep" => /\ j.op = job[a].op /\ j.want = job[a].want
                                             /\ j.todo = job[a].todo
<1>1. job \in [Agent -> Job]
  BY DEF TypeOK
<1>2. CASE job[a].op = "end"
  <2>1. Becomes(a, Idle("ended"))
    BY <1>2 DEF onClientDisconnect, Run, Becomes
  <2>2. QED
    BY <2>1, IdleFields DEF At
<1>3. CASE job[a].op = "unknown"
  <2>1. Becomes(a, Home(a))
    BY <1>3 DEF onClientDisconnect, Run, Becomes
  <2>2. QED
    BY <2>1, HomeIs
<1>4. CASE job[a].op \notin {"end", "unknown"}
  <2> DEFINE j == [job[a] EXCEPT !.at = "sweep", !.who = None]
  <2>1. Becomes(a, j)
    BY <1>4 DEF onClientDisconnect, Run, Becomes
  <2>2. job[a] \in Job
    BY <1>1
  <2>3. /\ j \in Job /\ j.who = None /\ j.todo = job[a].todo /\ j.at = "sweep"
        /\ j.op = job[a].op /\ j.want = job[a].want
    BY <2>2 DEF Job, At
  <2> HIDE DEF j
  <2>4. QED
    BY <2>1, <2>3
<1>5. QED
  BY <1>2, <1>3, <1>4

LEMMA StepUnlist ==
  ASSUME IInv, NEW a \in Agent, onClientDisconnect(a), Records
  PROVE  IInv'
<1> DEFINE w == job[a].who
<1>1. PICK j \in Job : /\ Becomes(a, j) /\ j.who = None
                       /\ j.todo \subseteq job[a].todo
                       /\ j.at \in {"ended", "read", "idle", "sweep"}
                       /\ j.at = "sweep" => /\ j.op = job[a].op /\ j.want = job[a].want
                                            /\ j.todo = job[a].todo
  BY IInvParts, AfterUnlisting
<1>2. Equipped(j)
  BY <1>1 DEF Equipped
<1>3. /\ job' \in [Agent -> Job]
      /\ \A b \in Agent : Equipped(job'[b])
      /\ job'[a] = j
      /\ \A b \in Agent \ {a} : job'[b] = job[b]
  BY <1>1, <1>2, IInvParts, JobTyping
<1>4. /\ job[a].at = "unlist" /\ listed' = listed \ {w}
      /\ UNCHANGED <<fd, peer, profile, status, sync, view, rows>>
  BY DEF onClientDisconnect, session
<1>5. fd[w] = "closed"
  BY <1>4, IInvParts DEF Handling
<1> HIDE DEF w
<1>6. TypeOK'
  <2>1. Typed'
    BY <1>4, IInvParts DEF Typed
  <2>2. QED
    BY <1>3, <2>1 DEF TypeOK, Typed, Equipped
<1>7. RacesNoted' /\ noted \subseteq noted'
  BY Recorded
<1>8. Accepted' = Accepted
  BY <1>4 DEF Accepted
<1>9. AcceptedFirst'
  BY <1>1, <1>3, <1>4, <1>8, IInvParts, ConnAgents DEF AcceptedFirst
<1>10. ASSUME NEW b \in Agent PROVE Handling(b)'
  BY <1>1, <1>3, <1>4, <1>8, IInvParts DEF Handling
<1>11. ASSUME NEW d \in Conn PROVE Sweeps(d)'
  <2>1. Sweeps(d) /\ d \in Agent
    BY IInvParts, ConnAgents
  <2>2. CASE d # a
    BY <1>3, <1>4, <1>7, <2>1, <2>2 DEF Sweeps, LoggingIn
  <2>3. CASE d = a
    <3> SUFFICES ASSUME NEW p \in Profile, LoggingIn(d, p)', <<"login", p>> \notin noted',
                        NEW e \in listed' \ {d}, profile'[e] = p
                 PROVE  e \in job'[d].todo
      BY DEF Sweeps
    <3>1. j.at = "sweep" /\ j.op = "login" /\ j.want = p
      BY <1>1, <1>3, <2>3 DEF LoggingIn
    <3>2. LoggingIn(d, p)
      BY <1>1, <1>4, <2>3, <3>1 DEF LoggingIn
    <3>3. e \in listed \ {d} /\ e # w /\ profile[e] = p
      BY <1>4
    <3>4. e \in job[d].todo \/ e = job[d].who
      BY <1>7, <2>1, <3>2, <3>3 DEF Sweeps
    <3>5. QED
      BY <1>1, <1>3, <2>3, <3>1, <3>3, <3>4 DEF w
  <2>4. QED
    BY <2>2, <2>3
<1>12. ASSUME NEW d \in Conn PROVE Befriends(d)'
  BY <1>1, <1>3, <1>4, <1>7, IInvParts, ConnAgents DEF Befriends, Inserting
<1>13. OneSession' /\ OneRowPerFriend'
  BY <1>4, <1>7, IInvParts DEF OneSession, OneRowPerFriend
<1>14. ListMatchesSockets'
  <2>1. ASSUME NEW d \in Conn PROVE fd'[d] = "open" => d \in listed'
    BY <1>4, <1>5, IInvParts DEF ListMatchesSockets
  <2>2. ASSUME NEW d \in Conn, d \in listed', fd'[d] = "closed"
        PROVE  \E b \in Agent : job'[b].at = "unlist" /\ job'[b].who = d
    <3>1. d \in listed /\ fd[d] = "closed" /\ d # w
      BY <1>4, <2>2
    <3>2. PICK b \in Agent : job[b].at = "unlist" /\ job[b].who = d
      BY <3>1, IInvParts DEF ListMatchesSockets
    <3>3. b # a
      BY <3>1, <3>2 DEF w
    <3>4. QED
      BY <1>3, <3>2, <3>3
  <2>3. QED
    BY <2>1, <2>2 DEF ListMatchesSockets
<1>15. QED
  BY <1>6, <1>7, <1>9, <1>10, <1>11, <1>12, <1>13, <1>14 DEF IInv

LEMMA StepLoginProfile ==
  ASSUME IInv, NEW c \in Conn, LoginProfile(c), Records
  PROVE  IInv'
<1> DEFINE p == job[c].want
<1>1. c \in Agent
  BY ConnAgents
<1>2. PICK j \in Job : /\ Becomes(c, j)
                       /\ j.op = job[c].op /\ j.at = "online" /\ j.want = job[c].want
                       /\ j.todo = job[c].todo /\ j.who = job[c].who
  BY <1>1, IInvParts, GoIs DEF LoginProfile, At
<1>3. Equipped(j)
  BY <1>2 DEF Equipped
<1>4. /\ job' \in [Agent -> Job]
      /\ \A b \in Agent : Equipped(job'[b])
      /\ job'[c] = j
      /\ \A b \in Agent \ {c} : job'[b] = job[b]
  BY <1>1, <1>2, <1>3, IInvParts, JobTyping
<1>5. /\ job[c].at = "sweep" /\ job[c].op = "login" /\ job[c].todo = {}
      /\ profile' = [profile EXCEPT ![c] = p]
      /\ UNCHANGED <<listed, fd, peer, status, sync, view, rows>>
  BY DEF LoginProfile
<1>6. p \in Profile \union {None}
  BY <1>1, IInvParts, JobFields
<1>7. p \in Profile => LoggingIn(c, p)
  BY <1>5 DEF LoggingIn
<1> HIDE DEF p
<1>8. TypeOK'
  <2>1. Typed'
    BY <1>5, <1>6, IInvParts DEF Typed
  <2>2. QED
    BY <1>4, <2>1 DEF TypeOK, Typed, Equipped
<1>9. RacesNoted' /\ noted \subseteq noted'
  BY Recorded
<1>10. c \in Accepted /\ Accepted' = Accepted
  BY <1>1, <1>5, IInvParts DEF AcceptedFirst, Accepted
<1>11. profile'[c] = p /\ \A d \in Conn \ {c} : profile'[d] = profile[d]
  BY <1>5, IInvParts DEF Typed
<1>12. AcceptedFirst'
  BY <1>2, <1>4, <1>5, <1>10, <1>11, IInvParts, ConnAgents DEF AcceptedFirst
<1>13. ASSUME NEW b \in Agent PROVE Handling(b)'
  <2>1. Handling(b) /\ Handling(c)
    BY <1>1, IInvParts
  <2>2. CASE b = c
    BY <1>2, <1>4, <1>5, <1>10, <2>1, <2>2 DEF Handling
  <2>3. CASE b # c
    BY <1>4, <1>5, <1>10, <2>1, <2>3 DEF Handling
  <2>4. QED
    BY <2>2, <2>3
<1>14. ASSUME NEW d \in Conn PROVE Sweeps(d)'
  <2>1. Sweeps(d) /\ d \in Agent
    BY IInvParts, ConnAgents
  <2>2. CASE d = c
    BY <1>2, <1>4, <2>2 DEF Sweeps, LoggingIn
  <2>3. CASE d # c
    <3> SUFFICES ASSUME NEW q \in Profile, LoggingIn(d, q)', <<"login", q>> \notin noted',
                        NEW e \in listed' \ {d}, profile'[e] = q
                 PROVE  e \in job'[d].todo \/ e = job'[d].who
      BY DEF Sweeps
    <3>1. job'[d] = job[d] /\ LoggingIn(d, q) /\ <<"login", q>> \notin noted
      BY <1>4, <1>9, <2>1, <2>3 DEF LoggingIn
    <3>2. CASE e = c
      <4>1. p = q /\ LoggingIn(c, q)
        BY <1>7, <1>11, <3>2
      <4>2. <<"login", q>> \in LoginRaces
        BY <2>3, <3>1, <4>1 DEF LoginRaces, LoginNotes
      <4>3. QED
        BY <3>1, <4>2, IInvParts DEF RacesNoted
    <3>3. CASE e # c
      <4>1. e \in listed \ {d} /\ profile[e] = q
        BY <1>5, <1>11, <3>3, IInvParts DEF Typed
      <4>2. QED
        BY <2>1, <3>1, <4>1 DEF Sweeps
    <3>4. QED
      BY <3>2, <3>3
  <2>4. QED
    BY <2>2, <2>3
<1>15. ASSUME NEW d \in Conn PROVE Befriends(d)'
  <2>1. CASE d = c
    BY <1>2, <1>4, <2>1 DEF Befriends, Inserting
  <2>2. CASE d # c
    <3>1. job'[d] = job[d] /\ profile'[d] = profile[d] /\ rows' = rows
      BY <1>4, <1>5, <1>11, <2>2, ConnAgents
    <3> SUFFICES ASSUME NEW r \in Pair, Inserting(d, r)', <<"insert", r>> \notin noted'
                 PROVE  rows'[r] = 0
      BY DEF Befriends
    <3>2. Inserting(d, r)
      BY <3>1 DEF Inserting
    <3>3. <<"insert", r>> \notin noted
      BY <1>9
    <3>4. rows[r] = 0
      BY <3>2, <3>3, IInvParts DEF Befriends
    <3>5. QED
      BY <3>1, <3>4
  <2>3. QED
    BY <2>1, <2>2
<1>16. OneSession'
  <2>1. ASSUME NEW d \in listed, d # c, profile[d] = p, p \in Profile
        PROVE  <<"login", p>> \in noted
    <3>1. d \notin job[c].todo /\ d # job[c].who
      BY <1>1, <1>5, <2>1, IInvParts, ConnAgents DEF Handling, Typed
    <3>2. QED
      BY <1>7, <2>1, <3>1, IInvParts DEF Sweeps
  <2>2. ASSUME NEW d \in listed, NEW e \in listed, d # e, profile'[d] = profile'[e],
               profile'[d] # None
        PROVE  <<"login", profile'[d]>> \in noted
    <3>1. d \in Conn /\ e \in Conn
      BY IInvParts DEF Typed
    <3>2. CASE d = c
      BY <1>6, <1>11, <2>1, <2>2, <3>1, <3>2
    <3>3. CASE e = c
      BY <1>6, <1>11, <2>1, <2>2, <3>1, <3>3
    <3>4. CASE d # c /\ e # c
      BY <1>11, <2>2, <3>1, <3>4, IInvParts DEF OneSession
    <3>5. QED
      BY <3>2, <3>3, <3>4
  <2>3. QED
    BY <1>5, <1>9, <2>2 DEF OneSession
<1>17. ListMatchesSockets'
  <2>1. ASSUME NEW d \in Conn, d \in listed, fd[d] = "closed"
        PROVE  \E b \in Agent : job'[b].at = "unlist" /\ job'[b].who = d
    <3>1. PICK b \in Agent : job[b].at = "unlist" /\ job[b].who = d
      BY <2>1, IInvParts DEF ListMatchesSockets
    <3>2. QED
      BY <1>4, <1>5, <3>1
  <2>2. QED
    BY <1>5, <2>1, IInvParts DEF ListMatchesSockets
<1>18. OneRowPerFriend'
  BY <1>5, <1>9, IInvParts DEF OneRowPerFriend
<1>19. QED
  BY <1>8, <1>9, <1>12, <1>13, <1>14, <1>15, <1>16, <1>17, <1>18 DEF IInv

\* The two writes of the table: the thread returns, the rest of IInv is about
\* rows only.
LEMMA StepRows ==
  ASSUME IInv, NEW c \in Conn, AuthAddInsert(c) \/ DeleteBuddyRemove(c), Records
  PROVE  IInv'
<1> DEFINE j == Home(c)
           s == {profile[c], job[c].want}
<1>1. c \in Agent
  BY ConnAgents
<1>2. /\ j \in Job /\ Equipped(j) /\ j.at \in {"read", "idle"} /\ j.todo = {}
      /\ j.who = None /\ j.op = "none"
  BY <1>1, HomeIs
<1>3. /\ Becomes(c, j) /\ job[c].at \in {"insert", "remove"}
      /\ UNCHANGED <<listed, fd, peer, profile, status, sync, view>>
  BY DEF AuthAddInsert, DeleteBuddyRemove, Return, Run, Becomes, session
<1> HIDE DEF j
<1>4. /\ job' \in [Agent -> Job]
      /\ \A b \in Agent : Equipped(job'[b])
      /\ job'[c] = j
      /\ \A b \in Agent \ {c} : job'[b] = job[b]
  BY <1>1, <1>2, <1>3, IInvParts, JobTyping
<1>5. \/ rows' = rows
      \/ job[c].at = "insert" /\ rows' = [rows EXCEPT ![s] = IF @ = 0 THEN 1 ELSE 2]
      \/ rows' = [rows EXCEPT ![s] = 0]
  BY DEF AuthAddInsert, DeleteBuddyRemove
<1> HIDE DEF s
<1>6. TypeOK'
  <2>1. rows' \in [Pair -> 0 .. 2]
    <3>1. rows \in [Pair -> 0 .. 2]
      BY IInvParts DEF Typed
    <3>2. QED
      BY <1>5, <3>1
  <2>2. Typed'
    BY <1>3, <2>1, IInvParts DEF Typed
  <2>3. QED
    BY <1>4, <2>2 DEF TypeOK, Typed, Equipped
<1>7. RacesNoted' /\ noted \subseteq noted'
  BY Recorded
<1>8. Accepted' = Accepted
  BY <1>3 DEF Accepted
<1>9. AcceptedFirst'
  BY <1>1, <1>2, <1>3, <1>4, <1>8, IInvParts, ConnAgents DEF AcceptedFirst
<1>10. ASSUME NEW b \in Agent PROVE Handling(b)'
  BY <1>2, <1>3, <1>4, <1>8, IInvParts DEF Handling
<1>11. ASSUME NEW d \in Conn PROVE Sweeps(d)'
  <2>1. CASE d = c
    BY <1>2, <1>4, <2>1 DEF Sweeps, LoggingIn
  <2>2. CASE d # c
    BY <1>3, <1>4, <1>7, <2>2, IInvParts, ConnAgents DEF Sweeps, LoggingIn
  <2>3. QED
    BY <2>1, <2>2
<1>12. ASSUME NEW r \in Pair
       PROVE  \/ rows'[r] = rows[r]
              \/ rows'[r] = 0
              \/ Inserting(c, r) /\ (rows[r] = 0 => rows'[r] = 1)
  <2>1. rows \in [Pair -> 0 .. 2]
    BY IInvParts DEF Typed
  <2>2. job[c].at = "insert" /\ r = s => Inserting(c, r)
    BY DEF Inserting, s
  <2>3. QED
    BY <1>5, <2>1, <2>2
<1>13. ASSUME NEW d \in Conn PROVE Befriends(d)'
  <2>1. CASE d = c
    BY <1>2, <1>4, <2>1 DEF Befriends, Inserting
  <2>2. CASE d # c
    <3> SUFFICES ASSUME NEW r \in Pair, Inserting(d, r)', <<"insert", r>> \notin noted'
                 PROVE  rows'[r] = 0
      BY DEF Befriends
    <3>1. Inserting(d, r) /\ <<"insert", r>> \notin noted
      BY <1>3, <1>4, <1>7, <2>2, ConnAgents DEF Inserting
    <3>2. rows[r] = 0
      BY <3>1, IInvParts DEF Befriends
    <3>3. CASE Inserting(c, r)
      <4>1. <<"insert", r>> \in FriendRaces
        BY <2>2, <3>1, <3>3 DEF FriendRaces, FriendNotes
      <4>2. QED
        BY <3>1, <4>1, IInvParts DEF RacesNoted
    <3>4. QED
      BY <1>12, <3>2, <3>3
  <2>3. QED
    BY <2>1, <2>2
<1>14. OneSession'
  BY <1>3, <1>7, IInvParts DEF OneSession
<1>15. OneRowPerFriend'
  <2> SUFFICES ASSUME NEW r \in Pair, rows'[r] > 1, <<"insert", r>> \notin noted'
               PROVE  FALSE
    BY DEF OneRowPerFriend
  <2>1. <<"insert", r>> \notin noted
    BY <1>7
  <2>2. ~(rows[r] > 1)
    BY <2>1, IInvParts DEF OneRowPerFriend
  <2>3. Inserting(c, r) => rows[r] = 0
    BY <2>1, IInvParts DEF Befriends
  <2>4. QED
    BY <1>12, <2>2, <2>3
<1>16. ListMatchesSockets'
  <2>1. ASSUME NEW d \in Conn, d \in listed, fd[d] = "closed"
        PROVE  \E b \in Agent : job'[b].at = "unlist" /\ job'[b].who = d
    <3>1. PICK b \in Agent : job[b].at = "unlist" /\ job[b].who = d
      BY <2>1, IInvParts DEF ListMatchesSockets
    <3>2. QED
      BY <1>3, <1>4, <3>1
  <2>2. QED
    BY <1>3, <2>1, IInvParts DEF ListMatchesSockets
<1>17. QED
  BY <1>6, <1>7, <1>9, <1>10, <1>11, <1>13, <1>14, <1>15, <1>16 DEF IInv

-----------------------------------------------------------------------------
(***************************************************************************)
(* IInv is an invariant.                                                   *)
(***************************************************************************)
LEMMA InitHolds ==
  ASSUME Init
  PROVE  IInv
<1> DEFINE at(a) == IF a \in Conn THEN "none" ELSE "idle"
<1>1. \A a \in Agent : job[a] = Idle(at(a)) /\ at(a) \in At /\ at(a) \in {"none", "idle"}
  BY DEF Init, At
<1> HIDE DEF at
<1>2. \A a \in Agent : /\ job[a] \in Job /\ job[a].at = at(a) /\ job[a].op = "none"
                       /\ job[a].todo = {} /\ job[a].who = None /\ job[a].to = None
  BY <1>1, IdleFields
<1>3. job \in [Agent -> Job]
  BY <1>2 DEF Init
<1>4. Typed
  BY DEF Init, Typed, Status
<1>5. TypeOK
  BY <1>1, <1>2, <1>3, <1>4, TypeOKParts DEF Equipped
<1>6. AcceptedFirst
  BY <1>2, ConnAgents DEF Init, AcceptedFirst, Accepted, at
<1>7. RacesNoted
  BY <1>2, ConnAgents, <1>1 DEF RacesNoted, LoginRaces, FriendRaces, LoggingIn, Inserting
<1>8. \A a \in Agent : Handling(a)
  BY <1>1, <1>2 DEF Handling
<1>9. \A c \in Conn : Sweeps(c) /\ Befriends(c)
  BY <1>1, <1>2, ConnAgents DEF Sweeps, LoggingIn, Befriends, Inserting
<1>10. OneSession /\ ListMatchesSockets /\ OneRowPerFriend
  BY DEF Init, OneSession, ListMatchesSockets, OneRowPerFriend
<1>11. QED
  BY <1>5, <1>6, <1>7, <1>8, <1>9, <1>10 DEF IInv

LEMMA NextRecords ==
  ASSUME Next
  PROVE  Records
BY RecordRecords DEF Next, Failure

LEMMA StepKeeps ==
  ASSUME IInv, Step, Records
  PROVE  IInv'
<1>1. \A a \in Agent : Typed' /\ Quiet(a) => IInv'
  BY QuietStep
<1>2. TypeOK /\ AcceptedFirst /\ \A a \in Agent : Handling(a)
  BY IInvParts
<1>3. ASSUME NEW c \in Conn, Network(c) PROVE IInv'
  BY <1>1, <1>2, <1>3, StepConnect, StepPeer, StepEndOfInput, ConnAgents DEF Network
<1>4. ASSUME NEW c \in Conn, Requests(c) PROVE IInv'
  BY <1>1, <1>2, <1>4, StepLogin, StepSetStatus, StepGetProfile, StepPlayerInvite,
     StepUnknownAction, StepAuthAdd, StepDeleteBuddy, ConnAgents DEF Requests
<1>5. ASSUME NEW c \in Conn, Work(c) PROVE IInv'
  BY <1>1, <1>2, <1>5, StepEndOfInput, StepLoginProfile, StepLoginStatus,
     StepLoginFriends, StepSyncFind, StepSyncSend, StepReturn, StepAuthAddCheck, StepRows,
     StepDeleteBuddyCheck, ConnAgents DEF Work
<1>6. ASSUME NEW a \in Agent, Disconnecting(a) PROVE IInv'
  BY <1>1, <1>2, <1>6, StepDisconnect, StepSendNewStatus, StepSendBuddyMessage,
     StepSend, StepClose, StepUnlist, StepMatch, StepSkip, StepReturn DEF Disconnecting
<1>7. CASE Kick
  BY <1>1, <1>2, <1>7, StepKick, ConnAgents
<1>8. CASE HeartbeatStep
  BY <1>1, <1>2, <1>8, StepBeat, StepKeepAlive, ConnAgents DEF HeartbeatStep
<1>9. QED
  BY <1>3, <1>4, <1>5, <1>6, <1>7, <1>8 DEF Step

LEMMA NextKeeps ==
  ASSUME IInv, Next
  PROVE  IInv'
<1>1. Records
  BY NextRecords
<1>2. \A a \in Agent : Typed' /\ Quiet(a) => IInv'
  BY <1>1, QuietStep
<1>3. TypeOK
  BY IInvParts
<1>4. ASSUME NEW a \in Agent, SendNewStatusFails(a) PROVE IInv'
  BY <1>2, <1>3, <1>4, StepSendNewStatusFails
<1>5. ASSUME NEW c \in Conn, AuthAddCheckFails(c), Record(Overlooked(c)) PROVE IInv'
  BY <1>2, <1>3, <1>5, StepAuthAddCheckFails, RecordRecords, ConnAgents
<1>6. ASSUME NEW c \in Conn, Harmless(c) PROVE IInv'
  BY <1>2, <1>3, <1>6, StepLoginFriendsFails, StepFriendFails, ConnAgents DEF Harmless
<1>7. QED
  BY <1>1, <1>4, <1>5, <1>6, StepKeeps DEF Next, Failure

LEMMA StutterKeeps ==
  ASSUME IInv, UNCHANGED vars
  PROVE  IInv'
<1>1. UNCHANGED <<listed, fd, peer, profile, status, sync, rows, view, job, noted>>
  BY DEF vars
<1>2. TypeOK' /\ AcceptedFirst' /\ ListMatchesSockets'
  BY <1>1, IInvParts DEF TypeOK, AcceptedFirst, Accepted, ListMatchesSockets
<1>3. RacesNoted' /\ OneSession' /\ OneRowPerFriend'
  BY <1>1, IInvParts DEF RacesNoted, LoginRaces, LoggingIn, FriendRaces, Inserting,
                         OneSession, OneRowPerFriend
<1>4. \A a \in Agent : Handling(a)'
  BY <1>1, IInvParts DEF Handling, Accepted
<1>5. \A c \in Conn : Sweeps(c)' /\ Befriends(c)'
  BY <1>1, IInvParts DEF Sweeps, LoggingIn, Befriends, Inserting
<1>6. QED
  BY <1>2, <1>3, <1>4, <1>5 DEF IInv

LEMMA Invariance == Spec => []IInv
<1>1. Init => IInv
  BY InitHolds
<1>2. IInv /\ [Next]_vars => IInv'
  BY NextKeeps, StutterKeeps
<1>3. QED
  BY <1>1, <1>2, PTL DEF Spec

(***************************************************************************)
(* The theorems.                                                           *)
(***************************************************************************)
\* Sessions, sockets, the list, the table and the stacks keep their types, and
\* a Disconnect or a message under way always has a client to work on, for any
\* number of connections and profiles.
THEOREM GpcmTypes == Spec => []TypeOK
<1>1. IInv => TypeOK
  BY DEF IInv
<1>2. QED
  BY <1>1, Invariance, PTL

\* requestLogin leaves two sessions of one profile on the list only when two
\* logins for it overlapped, however many clients connect, take each other's
\* profiles over, are kicked or time out meanwhile.
THEOREM LoginReplacesSessions == Spec => []OneSession
<1>1. IInv => OneSession
  BY DEF IInv
<1>2. QED
  BY <1>1, Invariance, PTL

\* However many agents run Client::Disconnect on one client at once, _clients
\* holds every client with an open socket, and one with a closed socket only
\* while onClientDisconnect is about to run for it.
THEOREM ListIsAccurate == Spec => []ListMatchesSockets
<1>1. IInv => ListMatchesSockets
  BY DEF IInv
<1>2. QED
  BY <1>1, Invariance, PTL

\* PlayerFriends holds a pair twice only when two requestAuthAdd for it both
\* passed their look-up before either inserted, or when the look-up of one
\* failed (gpcm/client.cpp:550) and missed the row there was.
THEOREM FriendsOnce == Spec => []OneRowPerFriend
<1>1. IInv => OneRowPerFriend
  BY DEF IInv
<1>2. QED
  BY <1>1, Invariance, PTL

-----------------------------------------------------------------------------
(***************************************************************************)
(* Sessions is implemented.                                                *)
(***************************************************************************)
AllEntitled == \A a \in Agent : Entitled(a)

\* A step of Sessions, but for the races it adds.
Moves ==
  \/ \E c \in Conn : Promise!Accept(c) \/ Promise!Shut(c) \/ Promise!Leave(c)
                       \/ Promise!Assume(c)
  \/ \E a \in Agent : Promise!GiveUp(a) \/ \E p \in Profile : Promise!Seek(a, p)
  \/ Promise!Rest

\* Hunting and Due of a job.
Hunts(j) == j.op \in {"login", "kick"} /\ j.at \in LoginAts

Ahead(j, d) == Hunts(j) /\ ((d \in j.todo /\ profile[d] = j.want) \/ d = j.who)

SameHunt(a, j) ==
  /\ Hunts(j) <=> Hunts(job[a])
  /\ Hunts(j) => j.want = job[a].want
  /\ \A d \in Conn : Ahead(j, d) <=> Ahead(job[a], d)

\* Entitled of a job, in the next state.
Proper(a, j) ==
  /\ j.op = "kick" => a = Admin
  /\ a = Heartbeat => j.op \in {"none", "heartbeat"}
  /\ j.op \in {"login", "kick"} => j.want # None
  /\ j.at \in {"online", "list", "sync"} => j.op \in {"login", "getprofile"}
  /\ j.op = "heartbeat" /\ j.who # None => peer'[j.who] = "dead"
  /\ j.op \in {"end", "unknown"} => j.who = a

DeadStays == \A c \in Accepted : peer[c] = "dead" => peer'[c] = "dead"

\* A step that changes the job of a to j and leaves the dead alone.
Turns(a, j) == j \in Job /\ Equipped(j) /\ Becomes(a, j) /\ DeadStays

LEMMA HuntsAre ==
  ASSUME NEW a \in Agent
  PROVE  /\ Hunting(a) <=> Hunts(job[a])
         /\ Wanted[a] = IF Hunts(job[a]) THEN job[a].want ELSE None
         /\ Due[a] = {d \in Conn : Ahead(job[a], d)}
BY DEF Hunting, Hunts, LoginAts, Wanted, Due, Ahead

\* The hunts of the other agents go on as they were.
LEMMA OthersHunt ==
  ASSUME TypeOK, NEW a \in Agent, NEW j, Turns(a, j), UNCHANGED profile
  PROVE  /\ \A b \in Agent \ {a} : Wanted'[b] = Wanted[b] /\ Due'[b] = Due[b]
         /\ Wanted'[a] = IF Hunts(j) THEN j.want ELSE None
         /\ Due'[a] = {d \in Conn : Ahead(j, d)}
         /\ Wanted \in [Agent -> Profile \union {None}] /\ Due \in [Agent -> SUBSET Conn]
         /\ DOMAIN Wanted' = Agent /\ DOMAIN Due' = Agent
<1>1. job'[a] = j /\ \A b \in Agent \ {a} : job'[b] = job[b]
  BY JobTyping DEF Turns
<1>2. \A b \in Agent \ {a} : Wanted'[b] = Wanted[b]
  BY <1>1 DEF Wanted, Hunting
<1>3. \A b \in Agent \ {a} : Due'[b] = Due[b]
  BY <1>1 DEF Due, Hunting
<1>4. Wanted'[a] = IF Hunts(j) THEN j.want ELSE None
  BY <1>1 DEF Wanted, Hunting, Hunts, LoginAts
<1>5. Due'[a] = {d \in Conn : Ahead(j, d)}
  BY <1>1 DEF Due, Hunting, Ahead, Hunts, LoginAts
<1>6. Wanted \in [Agent -> Profile \union {None}]
  <2>1. \A b \in Agent : job[b] \in Job
    BY TypeOKParts
  <2>2. \A b \in Agent : job[b].want \in Profile \union {None}
    BY <2>1, JobFields
  <2>3. QED
    BY <2>2 DEF Wanted
<1>7. Due \in [Agent -> SUBSET Conn] /\ DOMAIN Wanted' = Agent /\ DOMAIN Due' = Agent
  BY DEF Due, Wanted
<1>8. QED
  BY <1>2, <1>3, <1>4, <1>5, <1>6, <1>7

LEMMA SameHuntStays ==
  ASSUME TypeOK, NEW a \in Agent, NEW j, Turns(a, j), UNCHANGED profile, SameHunt(a, j)
  PROVE  Wanted' = Wanted /\ Due' = Due
<1>1. Wanted'[a] = Wanted[a] /\ Due'[a] = Due[a]
  BY OthersHunt, HuntsAre DEF SameHunt
<1>2. \A b \in Agent : Wanted'[b] = Wanted[b] /\ Due'[b] = Due[b]
  BY <1>1, OthersHunt
<1>3. /\ Wanted = [b \in Agent |-> Wanted[b]] /\ Due = [b \in Agent |-> Due[b]]
      /\ Wanted' = [b \in Agent |-> Wanted'[b]] /\ Due' = [b \in Agent |-> Due'[b]]
  BY DEF Wanted, Due
<1>4. QED
  BY <1>2, <1>3

LEMMA EntitledStays ==
  ASSUME IInv, AllEntitled, NEW a \in Agent, NEW j, Turns(a, j), Proper(a, j)
  PROVE  AllEntitled'
<1>1. job'[a] = j /\ \A b \in Agent \ {a} : job'[b] = job[b]
  BY IInvParts, JobTyping DEF Turns
<1>2. Entitled(a)'
  BY <1>1 DEF Entitled, Proper
<1>3. ASSUME NEW b \in Agent \ {a} PROVE Entitled(b)'
  <2>1. Entitled(b) /\ Handling(b)
    BY IInvParts DEF AllEntitled
  <2>2. job[b].who # None /\ peer[job[b].who] = "dead" => peer'[job[b].who] = "dead"
    BY <2>1 DEF Handling, Turns, DeadStays
  <2>3. QED
    BY <1>1, <2>1, <2>2 DEF Entitled
<1>4. QED
  BY <1>2, <1>3 DEF AllEntitled

LEMMA Resting ==
  ASSUME IInv, AllEntitled, NEW a \in Agent, NEW j, Turns(a, j),
         SameHunt(a, j), Proper(a, j), UNCHANGED <<listed, fd, profile>>
  PROVE  Moves /\ AllEntitled'
<1>1. Promise!Rest
  BY SameHuntStays, IInvParts DEF Promise!Rest
<1>2. QED
  BY <1>1, EntitledStays DEF Moves

\* An agent that goes on with its handler.
LEMMA GoesOn ==
  ASSUME IInv, AllEntitled, NEW a \in Agent, NEW j, Turns(a, j),
         j.op = job[a].op, j.want = job[a].want, j.todo = job[a].todo, j.who = job[a].who,
         j.at \in LoginAts <=> job[a].at \in LoginAts,
         j.at \in {"online", "list", "sync"} => job[a].at \in {"online", "list", "sync"}
  PROVE  SameHunt(a, j) /\ Proper(a, j)
<1>1. Entitled(a) /\ Handling(a)
  BY IInvParts DEF AllEntitled
<1>2. SameHunt(a, j)
  BY DEF SameHunt, Hunts, Ahead
<1>3. job[a].who # None /\ peer[job[a].who] = "dead" => peer'[job[a].who] = "dead"
  BY <1>1 DEF Handling, Turns, DeadStays
<1>4. QED
  BY <1>1, <1>2, <1>3 DEF Entitled, Proper

\* A handler that begins, or ends, without a hunt.
LEMMA NoHunt ==
  ASSUME NEW a \in Agent, NEW j, ~Hunts(job[a]), ~Hunts(j)
  PROVE  SameHunt(a, j)
BY DEF SameHunt, Ahead

LEMMA SentToDead ==
  ASSUME Typed, NEW c \in Conn, Sent(c)
  PROVE  DeadStays
BY DEF Typed, Sent, DeadStays, Accepted

LEMMA PeersStay ==
  ASSUME UNCHANGED peer
  PROVE  DeadStays
BY DEF DeadStays

-----------------------------------------------------------------------------
\* A request other than a login.
LEMMA RequestBegins ==
  ASSUME IInv, AllEntitled, NEW c \in Conn, NEW op \in Kinds \ {"login"}, NEW k \in Job,
         onRequest(c, op, k), k.at \notin {"send", "online", "list"},
         k.at \in LoginAts \/ op = "unknown" => k.who = c, k.at = "sync" => op = "getprofile"
  PROVE  Moves /\ AllEntitled'
<1> DEFINE j == [k EXCEPT !.op = op]
<1>1. /\ j \in Job /\ j.op = op /\ j.at = k.at /\ j.want = k.want /\ j.who = k.who
      /\ j.to = k.to
  BY DEF Job, Op
<1>2. /\ Becomes(c, j) /\ job[c].at = "read" /\ c \in Agent
      /\ UNCHANGED <<listed, fd, peer, profile>>
  BY RequestIs, ConnAgents
<1> HIDE DEF j
<1>3. Turns(c, j)
  BY <1>1, <1>2, PeersStay, ConnAgents DEF Turns, Equipped, LoginAts
<1>4. SameHunt(c, j)
  BY <1>1, <1>2, NoHunt DEF Hunts, LoginAts, Kinds
<1>5. Proper(c, j)
  BY <1>1, GpcmAssumption, ConnAgents DEF Proper, Kinds
<1>6. QED
  BY <1>2, <1>3, <1>4, <1>5, Resting

LEMMA OtherRequests ==
  ASSUME IInv, AllEntitled, NEW c \in Conn,
         GetProfile(c) \/ PlayerInvite(c) \/ UnknownAction(c) \/ AuthAdd(c) \/ DeleteBuddy(c)
  PROVE  Moves /\ AllEntitled'
<1>1. CASE GetProfile(c)
  <2> DEFINE i == Idle("sync")
  <2>1. i \in Job /\ i.at = "sync"
    BY IdleFields DEF At
  <2>2. onRequest(c, "getprofile", i)
    BY <1>1 DEF GetProfile
  <2> HIDE DEF i
  <2>3. QED
    BY <2>1, <2>2, RequestBegins DEF Kinds, LoginAts
<1>2. CASE PlayerInvite(c)
  <2>1. PICK q \in Profile :
          onRequest(c, "pinvite", [Idle("tell") EXCEPT !.who = c, !.friends = {q}])
    BY <1>2 DEF PlayerInvite
  <2> DEFINE i == Idle("tell")
             k == [i EXCEPT !.who = c, !.friends = {q}]
  <2>2. i \in Job /\ i.at = "tell"
    BY IdleFields DEF At
  <2>3. onRequest(c, "pinvite", k)
    BY <2>1
  <2> HIDE DEF i
  <2>4. k \in Job /\ k.at = "tell" /\ k.who = c
    BY <2>2 DEF Job
  <2> HIDE DEF k
  <2>5. QED
    BY <2>3, <2>4, RequestBegins DEF Kinds
<1>3. CASE UnknownAction(c)
  <2> DEFINE i == Idle("offline")
             k == [i EXCEPT !.who = c]
  <2>1. i \in Job /\ i.at = "offline"
    BY IdleFields DEF At
  <2>2. onRequest(c, "unknown", k)
    BY <1>3 DEF UnknownAction
  <2> HIDE DEF i
  <2>3. k \in Job /\ k.at = "offline" /\ k.who = c
    BY <2>1 DEF Job
  <2> HIDE DEF k
  <2>4. QED
    BY <2>2, <2>3, RequestBegins DEF Kinds
<1>4. CASE AuthAdd(c)
  <2>1. PICK q \in Profile : onRequest(c, "authadd",
          [Idle("tell") EXCEPT !.who = c, !.friends = {q}, !.want = q])
    BY <1>4 DEF AuthAdd
  <2> DEFINE i == Idle("tell")
             k == [i EXCEPT !.who = c, !.friends = {q}, !.want = q]
  <2>2. i \in Job /\ i.at = "tell"
    BY IdleFields DEF At
  <2>3. onRequest(c, "authadd", k)
    BY <2>1
  <2> HIDE DEF i
  <2>4. k \in Job /\ k.at = "tell" /\ k.who = c
    BY <2>2 DEF Job
  <2> HIDE DEF k
  <2>5. QED
    BY <2>3, <2>4, RequestBegins DEF Kinds
<1>5. CASE DeleteBuddy(c)
  <2>1. PICK q \in Profile : onRequest(c, "delbuddy", [Idle("known") EXCEPT !.want = q])
    BY <1>5 DEF DeleteBuddy
  <2> DEFINE i == Idle("known")
             k == [i EXCEPT !.want = q]
  <2>2. i \in Job /\ i.at = "known"
    BY IdleFields DEF At
  <2>3. onRequest(c, "delbuddy", k)
    BY <2>1
  <2> HIDE DEF i
  <2>4. k \in Job /\ k.at = "known"
    BY <2>2 DEF Job
  <2> HIDE DEF k
  <2>5. QED
    BY <2>3, <2>4, RequestBegins DEF Kinds, LoginAts
<1>6. QED
  BY <1>1, <1>2, <1>3, <1>4, <1>5

LEMMA EndingMoves ==
  ASSUME IInv, AllEntitled, NEW c \in Conn, EndOfInput(c) \/ Leave(c) \/ SetStatus(c)
  PROVE  Moves /\ AllEntitled'
<1>1. /\ job[c].at = "read" /\ c \in Agent /\ c # Admin /\ c # Heartbeat
      /\ UNCHANGED <<listed, fd, peer, profile>>
  BY ConnAgents, GpcmAssumption DEF EndOfInput, Leave, SetStatus, session
<1>2. ASSUME NEW at \in {"offline", "ask"}, NEW op \in {"end", "status"},
             Run(c, [Idle(at) EXCEPT !.op = op, !.who = c])
      PROVE  Moves /\ AllEntitled'
  <2> DEFINE i == Idle(at)
             j == [i EXCEPT !.op = op, !.who = c]
  <2>1. i \in Job /\ i.at = at
    BY IdleFields DEF At
  <2>2. Becomes(c, j)
    BY <1>2 DEF Run, Becomes
  <2> HIDE DEF i
  <2>3. j \in Job /\ j.op = op /\ j.at = at /\ j.who = c
    BY <2>1 DEF Job, Op, Kinds
  <2> HIDE DEF j
  <2>4. Turns(c, j)
    BY <1>1, <2>2, <2>3, PeersStay, ConnAgents DEF Turns, Equipped
  <2>5. SameHunt(c, j)
    BY <1>1, <2>3, NoHunt DEF Hunts, LoginAts
  <2>6. Proper(c, j)
    BY <1>1, <2>3 DEF Proper
  <2>7. QED
    BY <1>1, <2>4, <2>5, <2>6, Resting
<1>3. QED
  BY <1>2 DEF EndOfInput, Leave, SetStatus

-----------------------------------------------------------------------------
\* An agent that returns without a hunt, and one that ends its hunt.
LEMMA ReturnMoves ==
  ASSUME IInv, AllEntitled, NEW a \in Agent, Return(a), ~Hunts(job[a]), DeadStays,
         UNCHANGED <<listed, fd, profile>>
  PROVE  Moves /\ AllEntitled'
<1> DEFINE j == Home(a)
<1>1. j \in Job /\ Equipped(j) /\ j.at \in {"read", "idle"} /\ j.op = "none"
  BY HomeIs
<1>2. Becomes(a, j)
  BY DEF Return, Run, Becomes
<1> HIDE DEF j
<1>3. Turns(a, j) /\ ~Hunts(j) /\ Proper(a, j)
  BY <1>1, <1>2 DEF Turns, Hunts, Proper
<1>4. QED
  BY <1>3, NoHunt, Resting

LEMMA SweepDoneMoves ==
  ASSUME IInv, AllEntitled, NEW a \in Agent, SweepDone(a)
  PROVE  Moves /\ AllEntitled'
<1>1. /\ job[a].at = "sweep" /\ job[a].op \in {"kick", "heartbeat"} /\ job[a].todo = {}
      /\ job[a].who = None /\ Return(a)
      /\ UNCHANGED <<listed, fd, peer, profile>>
  BY IInvParts DEF SweepDone, Handling, session
<1>2. CASE job[a].op = "heartbeat"
  BY <1>1, <1>2, ReturnMoves, PeersStay DEF Hunts
<1>3. CASE job[a].op = "kick"
  <2> DEFINE j == Home(a)
  <2>1. j \in Job /\ Equipped(j) /\ j.at \in {"read", "idle"} /\ j.op = "none"
    BY HomeIs
  <2>2. Becomes(a, j)
    BY <1>1 DEF Return, Run, Becomes
  <2> HIDE DEF j
  <2>3. Turns(a, j) /\ ~Hunts(j) /\ Proper(a, j)
    BY <1>1, <2>1, <2>2, PeersStay DEF Turns, Hunts, Proper
  <2>4. Wanted[a] # None /\ Due[a] = {}
    BY <1>1, <1>3, HuntsAre, ConnAgents DEF Ahead, Hunts, LoginAts, AllEntitled, Entitled
  <2>5. Wanted'[a] = None /\ Due'[a] = {}
    BY <1>1, <2>3, OthersHunt, IInvParts DEF Ahead
  <2>6. Wanted' = [Wanted EXCEPT ![a] = None] /\ Due' = Due
    <3>1. \A b \in Agent \ {a} : Wanted'[b] = Wanted[b] /\ Due'[b] = Due[b]
      BY <1>1, <2>3, OthersHunt, IInvParts
    <3>2. /\ Wanted = [b \in Agent |-> Wanted[b]] /\ Due = [b \in Agent |-> Due[b]]
          /\ Wanted' = [b \in Agent |-> Wanted'[b]] /\ Due' = [b \in Agent |-> Due'[b]]
      BY DEF Wanted, Due
    <3>3. Wanted' = [Wanted EXCEPT ![a] = None]
      BY <2>5, <3>1, <3>2
    <3>4. Due' = Due
      BY <2>4, <2>5, <3>1, <3>2
    <3>5. QED
      BY <3>3, <3>4
  <2>7. Promise!GiveUp(a)
    BY <1>1, <2>4, <2>6 DEF Promise!GiveUp, Promise!Over
  <2>8. QED
    BY <2>3, <2>7, EntitledStays DEF Moves
<1>4. QED
  BY <1>1, <1>2, <1>3

\* The steps of a handler that neither begin nor end a hunt.
LEMMA GoMoves ==
  ASSUME IInv, AllEntitled, NEW a \in Agent, NEW at \in At, Go(a, at), DeadStays,
         UNCHANGED <<listed, fd, profile>>,
         at \in LoginAts <=> job[a].at \in LoginAts, at \notin {"sweep", "send"},
         at \in LoginAts => job[a].who # None,
         at \in {"online", "list", "sync"} => job[a].at \in {"online", "list", "sync"}
  PROVE  Moves /\ AllEntitled'
<1>1. PICK j \in Job : /\ Becomes(a, j)
                       /\ j.op = job[a].op /\ j.at = at /\ j.want = job[a].want
                       /\ j.todo = job[a].todo /\ j.who = job[a].who
  BY GoIs, IInvParts
<1>2. Turns(a, j)
  BY <1>1 DEF Turns, Equipped, LoginAts
<1>3. QED
  BY <1>1, <1>2, GoesOn, Resting

LEMMA HandlerMoves ==
  ASSUME IInv, AllEntitled, NEW a \in Agent,
         \/ Disconnect(a) \/ SendNewStatus(a) \/ SendNewStatusFails(a)
         \/ SendBuddyMessage(a) \/ Send(a)
  PROVE  Moves /\ AllEntitled'
<1>1. job \in [Agent -> Job] /\ job[a] \in Job /\ Equipped(job[a]) /\ Typed
  BY IInvParts
<1>2. /\ job[a].at \in {"offline", "ask", "tell", "send"} /\ job[a].who # None
      /\ UNCHANGED <<listed, fd, profile>>
  BY <1>1 DEF Disconnect, SendNewStatus, SendNewStatusFails, SendBuddyMessage, Send, session,
              Equipped
<1>3. CASE Disconnect(a)
  BY <1>2, <1>3, GoMoves, PeersStay DEF Disconnect, At, LoginAts
<1>4. CASE SendNewStatus(a) \/ SendNewStatusFails(a)
  <2>1. PICK q \in SUBSET Profile : /\ job' = [job EXCEPT ![a].at = "tell", ![a].friends = q]
                                    /\ UNCHANGED peer
    BY <1>4, FriendsAre DEF SendNewStatus, SendNewStatusFails
  <2> DEFINE j == [job[a] EXCEPT !.at = "tell", !.friends = q]
  <2>2. job' = [job EXCEPT ![a].at = "tell", ![a].friends = q] /\ UNCHANGED peer
    BY <2>1
  <2>3. Becomes(a, j)
    BY <1>1, <2>2 DEF Becomes
  <2>4. /\ j \in Job /\ j.op = job[a].op /\ j.at = "tell" /\ j.want = job[a].want
        /\ j.todo = job[a].todo /\ j.who = job[a].who
    BY <1>1, <2>1 DEF Job, At
  <2> HIDE DEF j
  <2>5. Turns(a, j)
    BY <1>2, <2>2, <2>3, <2>4, PeersStay DEF Turns, Equipped
  <2>6. QED
    BY <1>2, <2>4, <2>5, GoesOn, Resting DEF LoginAts
<1>5. CASE SendBuddyMessage(a)
  <2>1. PICK q \in job[a].friends : \E d \in findSessionByProfileId(q) :
          LET j == [job[a] EXCEPT !.friends = @ \ {q}]
          IN  Run(a, IF d = None
                     THEN j
                     ELSE [j EXCEPT !.at = "send", !.to = d, !.from = profile[job[a].who],
                                    !.msg = status[job[a].who]])
    BY <1>5 DEF SendBuddyMessage
  <2> DEFINE k == [job[a] EXCEPT !.friends = @ \ {q}]
  <2>2. PICK d \in findSessionByProfileId(q) :
          Run(a, IF d = None
                 THEN k
                 ELSE [k EXCEPT !.at = "send", !.to = d, !.from = profile[job[a].who],
                                !.msg = status[job[a].who]])
    BY <2>1
  <2>3. job[a].at = "tell" /\ UNCHANGED peer
    BY <1>5 DEF SendBuddyMessage
  <2>4. /\ k \in Job /\ k.op = job[a].op /\ k.at = "tell" /\ k.want = job[a].want
        /\ k.todo = job[a].todo /\ k.who = job[a].who
    BY <1>1, <2>3 DEF Job
  <2> HIDE DEF k
  <2>5. CASE d = None
    <3>1. Turns(a, k)
      BY <1>2, <2>2, <2>3, <2>4, <2>5, PeersStay DEF Turns, Equipped, Run, Becomes
    <3>2. QED
      BY <1>2, <2>3, <2>4, <3>1, GoesOn, Resting
  <2>6. CASE d # None
    <3> DEFINE p == profile[job[a].who]
               m == status[job[a].who]
               j == [k EXCEPT !.at = "send", !.to = d, !.from = p, !.msg = m]
    <3>1. d \in Conn /\ job[a].who \in Conn
      BY <1>1, <1>2, <2>6, SessionsAre, JobFields
    <3>2. p \in Profile \union {None} /\ m \in Status
      BY <1>1, <3>1 DEF Typed
    <3>3. Becomes(a, j)
      BY <2>2, <2>6 DEF Run, Becomes
    <3> HIDE DEF p, m
    <3>4. /\ j \in Job /\ j.op = job[a].op /\ j.at = "send" /\ j.want = job[a].want
          /\ j.todo = job[a].todo /\ j.who = job[a].who /\ j.to = d
      BY <2>4, <3>1, <3>2 DEF Job, At
    <3> HIDE DEF j
    <3>5. Turns(a, j)
      BY <1>2, <2>3, <2>6, <3>3, <3>4, PeersStay DEF Turns, Equipped
    <3>6. QED
      BY <1>2, <2>3, <3>4, <3>5, GoesOn, Resting DEF LoginAts
  <2>7. QED
    BY <2>5, <2>6
<1>6. CASE Send(a)
  <2> DEFINE j == [job[a] EXCEPT !.at = "tell", !.to = None, !.from = None, !.msg = "none"]
  <2>1. Becomes(a, j) /\ job[a].at = "send" /\ Sent(job[a].to)
    BY <1>6 DEF Send, Run, Becomes
  <2>2. /\ j \in Job /\ j.op = job[a].op /\ j.at = "tell" /\ j.want = job[a].want
        /\ j.todo = job[a].todo /\ j.who = job[a].who
    BY <1>1 DEF Job, At, Status
  <2> HIDE DEF j
  <2>3. job[a].to \in Conn
    BY <1>1, <2>1, JobFields DEF Equipped
  <2>4. Turns(a, j)
    BY <1>1, <1>2, <2>1, <2>2, <2>3, SentToDead DEF Turns, Equipped
  <2>5. QED
    BY <1>2, <2>1, <2>2, <2>4, GoesOn, Resting DEF LoginAts
<1>7. QED
  BY <1>3, <1>4, <1>5, <1>6

LEMMA LoginMoves ==
  ASSUME IInv, AllEntitled, NEW c \in Conn,
         LoginStatus(c) \/ LoginFriends(c) \/ LoginFriendsFails(c)
  PROVE  Moves /\ AllEntitled'
<1>1. /\ c \in Agent /\ Sent(c)
      /\ \/ job[c].at = "online" /\ Go(c, "list")
         \/ job[c].at = "list" /\ Go(c, "sync")
      /\ UNCHANGED <<listed, fd, profile>>
  BY ConnAgents DEF LoginStatus, LoginFriends, LoginFriendsFails
<1>2. DeadStays
  BY <1>1, IInvParts, SentToDead
<1>3. QED
  BY <1>1, <1>2, GoMoves DEF At, LoginAts

LEMMA SyncMoves ==
  ASSUME IInv, AllEntitled, NEW c \in Conn, SyncFind(c) \/ SyncSend(c)
  PROVE  Moves /\ AllEntitled'
<1>1. /\ c \in Agent /\ c # Admin /\ job \in [Agent -> Job] /\ Typed
      /\ UNCHANGED <<listed, fd, profile>>
  BY IInvParts, ConnAgents, GpcmAssumption DEF SyncFind, SyncSend, session
<1>2. CASE SyncSend(c)
  <2>1. job[c].at = "answer" /\ Return(c) /\ DeadStays
    BY <1>1, <1>2, SentToDead DEF SyncSend
  <2>2. QED
    BY <1>1, <2>1, ReturnMoves DEF Hunts, LoginAts
<1>3. CASE SyncFind(c)
  <2>1. job[c].at = "sync" /\ DeadStays /\ ~Hunts(job[c])
    BY <1>3, PeersStay DEF SyncFind, Hunts, LoginAts
  <2>2. job[c].op \in {"login", "getprofile"}
    BY <1>1, <2>1 DEF AllEntitled, Entitled
  <2>3. CASE Return(c)
    BY <1>1, <2>1, <2>3, ReturnMoves
  <2>4. ASSUME NEW q \in sync[c], NEW d \in findSessionByProfileId(q),
               Run(c, [Idle("answer") EXCEPT !.op = job[c].op, !.want = q,
                        !.msg = IF d = None THEN "Offline" ELSE status[d]])
        PROVE  Moves /\ AllEntitled'
    <3> DEFINE i == Idle("answer")
               o == job[c].op
               m == IF d = None THEN "Offline" ELSE status[d]
               j == [i EXCEPT !.op = o, !.want = q, !.msg = m]
    <3>1. Becomes(c, j)
      BY <2>4 DEF Run, Becomes
    <3>2. i \in Job /\ i.at = "answer"
      BY IdleFields DEF At
    <3>3. o \in {"login", "getprofile"}
      BY <2>2
    <3>4. m \in Status
      BY <1>1, SessionsAre DEF Typed, Status
    <3>5. q \in Profile
      BY <1>1 DEF Typed
    <3> HIDE DEF i, o, m
    <3>6. j \in Job /\ j.at = "answer" /\ j.op = o /\ j.want = q
      BY <3>2, <3>3, <3>4, <3>5 DEF Job, Op, Kinds
    <3> HIDE DEF j
    <3>7. Turns(c, j) /\ ~Hunts(j)
      BY <2>1, <3>1, <3>6 DEF Turns, Equipped, Hunts, LoginAts
    <3>8. Proper(c, j)
      BY <3>3, <3>5, <3>6, ConnAgents, GpcmAssumption DEF Proper
    <3>9. QED
      BY <1>1, <2>1, <3>7, <3>8, NoHunt, Resting
  <2>5. QED
    BY <1>3, <2>3, <2>4 DEF SyncFind
<1>4. QED
  BY <1>2, <1>3

LEMMA BuddyMoves ==
  ASSUME IInv, AllEntitled, NEW c \in Conn,
         \/ Told(c) \/ AuthAddCheck(c) \/ AuthAddInsert(c) \/ DeleteBuddyCheck(c)
         \/ DeleteBuddyRemove(c)
         \/ AuthAddCheckFails(c) \/ DeleteBuddyCheckFails(c) \/ FriendWriteFails(c)
  PROVE  Moves /\ AllEntitled'
<1>1. /\ c \in Agent /\ Typed
      /\ UNCHANGED <<listed, fd, profile>>
  BY IInvParts, ConnAgents
     DEF Told, AuthAddCheck, AuthAddInsert, DeleteBuddyCheck, DeleteBuddyRemove,
         AuthAddCheckFails, DeleteBuddyCheckFails, FriendWriteFails, session
<1>2. peer' = peer \/ Sent(c)
  BY DEF Told, AuthAddCheck, AuthAddInsert, DeleteBuddyCheck, DeleteBuddyRemove,
         AuthAddCheckFails, DeleteBuddyCheckFails, FriendWriteFails
<1>3. DeadStays
  BY <1>1, <1>2, PeersStay, SentToDead
<1>4. ~Hunts(job[c])
  BY DEF Told, AuthAddCheck, AuthAddInsert, DeleteBuddyCheck, DeleteBuddyRemove,
         AuthAddCheckFails, DeleteBuddyCheckFails, FriendWriteFails, Hunts, LoginAts
<1>5. CASE Return(c)
  BY <1>1, <1>3, <1>4, <1>5, ReturnMoves
<1>6. CASE job[c].at = "known" /\ Go(c, "remove")
  BY <1>1, <1>3, <1>6, GoMoves DEF At, LoginAts
<1>7. CASE Run(c, [Idle("insert") EXCEPT !.op = "authadd", !.want = job[c].want])
  <2> DEFINE i == Idle("insert")
             w == job[c].want
             j == [i EXCEPT !.op = "authadd", !.want = w]
  <2>1. Becomes(c, j)
    BY <1>7 DEF Run, Becomes
  <2>2. i \in Job /\ i.at = "insert"
    BY IdleFields DEF At
  <2>3. w \in Profile \union {None}
    BY <1>1, IInvParts, JobFields
  <2> HIDE DEF i, w
  <2>4. j \in Job /\ j.at = "insert" /\ j.op = "authadd"
    BY <2>2, <2>3 DEF Job, Op, Kinds
  <2> HIDE DEF j
  <2>5. Turns(c, j) /\ ~Hunts(j)
    BY <1>3, <2>1, <2>4 DEF Turns, Equipped, Hunts
  <2>6. Proper(c, j)
    BY <2>4, ConnAgents, GpcmAssumption DEF Proper
  <2>7. QED
    BY <1>1, <1>4, <2>5, <2>6, NoHunt, Resting
<1>8. QED
  BY <1>5, <1>6, <1>7
     DEF Told, AuthAddCheck, AuthAddInsert, DeleteBuddyCheck, DeleteBuddyRemove,
         AuthAddCheckFails, DeleteBuddyCheckFails, FriendWriteFails

-----------------------------------------------------------------------------
\* An entry of a sweep is on its way out or compared in vain: the same are due.
LEMMA SweepMoves ==
  ASSUME IInv, AllEntitled, NEW a \in Agent, Match(a) \/ Skip(a)
  PROVE  Moves /\ AllEntitled'
<1>1. /\ job[a] \in Job /\ job[a].at = "sweep" /\ job[a].who = None
      /\ job[a].op \in {"login", "kick"} /\ Entitled(a)
      /\ UNCHANGED <<listed, fd, peer, profile>>
  BY IInvParts DEF Match, Skip, Sweeping, Handling, session, AllEntitled
<1>2. CASE Match(a)
  <2>1. PICK d \in job[a].todo :
          /\ profile[d] = job[a].want
          /\ Run(a, [job[a] EXCEPT !.todo = @ \ {d}, !.at = "offline", !.who = d])
    BY <1>2 DEF Match
  <2> DEFINE j == [job[a] EXCEPT !.todo = @ \ {d}, !.at = "offline", !.who = d]
  <2>2. Becomes(a, j)
    BY <2>1 DEF Run, Becomes
  <2>3. d \in Conn
    BY <1>1, JobFields
  <2>4. /\ j \in Job /\ j.op = job[a].op /\ j.at = "offline" /\ j.want = job[a].want
        /\ j.todo = job[a].todo \ {d} /\ j.who = d
    BY <1>1, <2>3 DEF Job, At
  <2> HIDE DEF j
  <2>5. Turns(a, j)
    BY <1>1, <2>2, <2>3, <2>4, PeersStay, ConnAgents DEF Turns, Equipped
  <2>6. SameHunt(a, j)
    BY <1>1, <2>1, <2>4, ConnAgents DEF SameHunt, Hunts, Ahead, LoginAts
  <2>7. Proper(a, j)
    BY <1>1, <2>4 DEF Proper, Entitled
  <2>8. QED
    BY <1>1, <2>5, <2>6, <2>7, Resting
<1>3. CASE Skip(a)
  <2>1. PICK d \in job[a].todo :
          /\ profile[d] # job[a].want
          /\ Run(a, [job[a] EXCEPT !.todo = @ \ {d}])
    BY <1>3 DEF Skip
  <2> DEFINE j == [job[a] EXCEPT !.todo = @ \ {d}]
  <2>2. Becomes(a, j)
    BY <2>1 DEF Run, Becomes
  <2>3. /\ j \in Job /\ j.op = job[a].op /\ j.at = "sweep" /\ j.want = job[a].want
        /\ j.todo = job[a].todo \ {d} /\ j.who = None
    BY <1>1 DEF Job
  <2> HIDE DEF j
  <2>4. Turns(a, j)
    BY <1>1, <2>2, <2>3, PeersStay DEF Turns, Equipped
  <2>5. SameHunt(a, j)
    BY <1>1, <2>1, <2>3, ConnAgents DEF SameHunt, Hunts, Ahead, LoginAts
  <2>6. Proper(a, j)
    BY <1>1, <2>3 DEF Proper, Entitled
  <2>7. QED
    BY <1>1, <2>4, <2>5, <2>6, Resting
<1>4. QED
  BY <1>2, <1>3

\* A login or a kick begins with its copy of the list.
LEMMA HuntBegins ==
  ASSUME IInv, AllEntitled, NEW a \in Agent, NEW p \in Profile, NEW op \in {"login", "kick"},
         job[a].at \in {"read", "idle"}, op = "kick" => a = Admin, a # Heartbeat,
         Run(a, [[Idle("sweep") EXCEPT !.want = p, !.todo = listed] EXCEPT !.op = op]),
         UNCHANGED <<listed, fd, peer, profile>>
  PROVE  Moves /\ AllEntitled'
<1> DEFINE i == Idle("sweep")
           k == [i EXCEPT !.want = p, !.todo = listed]
           j == [k EXCEPT !.op = op]
<1>1. i \in Job /\ i.at = "sweep" /\ i.who = None
  BY IdleFields DEF At
<1>2. Becomes(a, j) /\ listed \in SUBSET Conn /\ TypeOK
  BY IInvParts DEF Run, Becomes, Typed
<1> HIDE DEF i
<1>3. k \in Job /\ k.at = "sweep" /\ k.who = None /\ k.want = p /\ k.todo = listed
  BY <1>1, <1>2 DEF Job
<1> HIDE DEF k
<1>4. /\ j \in Job /\ j.op = op /\ j.at = "sweep" /\ j.who = None /\ j.want = p
      /\ j.todo = listed
  BY <1>3 DEF Job, Op, Kinds
<1> HIDE DEF j
<1>5. Turns(a, j)
  BY <1>2, <1>4, PeersStay DEF Turns, Equipped
<1>6. Proper(a, j)
  BY <1>4, ConnAgents DEF Proper
<1>7. Wanted[a] = None
  BY HuntsAre DEF Hunts, LoginAts
<1>8. Wanted'[a] = p /\ Due'[a] = {d \in listed : profile[d] = p}
  <2>1. Hunts(j) /\ \A d \in Conn : Ahead(j, d) <=> d \in listed /\ profile[d] = p
    BY <1>4, ConnAgents DEF Hunts, Ahead, LoginAts
  <2>2. QED
    BY <1>2, <1>4, <1>5, <2>1, OthersHunt
<1>9. /\ Wanted' = [Wanted EXCEPT ![a] = p]
      /\ Due' = [Due EXCEPT ![a] = {d \in listed : profile[d] = p}]
  <2>1. \A b \in Agent \ {a} : Wanted'[b] = Wanted[b] /\ Due'[b] = Due[b]
    BY <1>2, <1>5, OthersHunt
  <2>2. /\ Wanted = [b \in Agent |-> Wanted[b]] /\ Due = [b \in Agent |-> Due[b]]
        /\ Wanted' = [b \in Agent |-> Wanted'[b]] /\ Due' = [b \in Agent |-> Due'[b]]
    BY DEF Wanted, Due
  <2> DEFINE s == {d \in listed : profile[d] = p}
  <2>3. Due'[a] = s
    BY <1>8
  <2> HIDE DEF s
  <2>4. Wanted' = [Wanted EXCEPT ![a] = p]
    BY <1>8, <2>1, <2>2
  <2>5. Due' = [Due EXCEPT ![a] = s]
    BY <2>1, <2>2, <2>3
  <2>6. QED
    BY <2>4, <2>5 DEF s
<1>10. Promise!Seek(a, p)
  BY <1>7, <1>9 DEF Promise!Seek, Promise!Holding
<1>11. QED
  BY <1>5, <1>6, <1>10, EntitledStays DEF Moves

LEMMA HuntsBegin ==
  ASSUME IInv, AllEntitled, Kick \/ \E c \in Conn : Login(c)
  PROVE  Moves /\ AllEntitled'
<1>1. ASSUME Kick PROVE Moves /\ AllEntitled'
  <2>1. /\ job[Admin].at = "idle" /\ Admin # Heartbeat /\ Admin \in Agent
        /\ UNCHANGED <<listed, fd, peer, profile>>
    BY <1>1, GpcmAssumption, ConnAgents DEF Kick, session
  <2>2. PICK p \in Profile :
          Run(Admin, [Idle("sweep") EXCEPT !.op = "kick", !.want = p, !.todo = listed])
    BY <1>1 DEF Kick
  <2>3. [Idle("sweep") EXCEPT !.op = "kick", !.want = p, !.todo = listed]
        = [[Idle("sweep") EXCEPT !.want = p, !.todo = listed] EXCEPT !.op = "kick"]
    BY DEF Idle
  <2>4. Run(Admin, [[Idle("sweep") EXCEPT !.want = p, !.todo = listed] EXCEPT !.op = "kick"])
    BY <2>2, <2>3
  <2>5. QED
    BY <2>1, <2>4, HuntBegins
<1>2. ASSUME NEW c \in Conn, Login(c) PROVE Moves /\ AllEntitled'
  <2>1. PICK p \in Profile :
          onRequest(c, "login", [Idle("sweep") EXCEPT !.want = p, !.todo = listed])
    BY <1>2 DEF Login
  <2>2. /\ job[c].at = "read" /\ c # Heartbeat /\ c \in Agent
        /\ Run(c, [[Idle("sweep") EXCEPT !.want = p, !.todo = listed] EXCEPT !.op = "login"])
        /\ UNCHANGED <<listed, fd, peer, profile>>
    BY <2>1, GpcmAssumption, ConnAgents DEF onRequest, session
  <2>3. QED
    BY <2>2, HuntBegins
<1>3. QED
  BY <1>1, <1>2

\* The heartbeat hunts nobody, and disconnects only the dead.
LEMMA HeartbeatMoves ==
  ASSUME IInv, AllEntitled, HeartbeatStep
  PROVE  Moves /\ AllEntitled'
<1> DEFINE h == Heartbeat
<1>1. /\ h \in Agent /\ h # Admin /\ h \notin Conn /\ Typed /\ TypeOK
      /\ job[h] \in Job /\ Entitled(h) /\ ~Hunts(job[h])
  BY IInvParts, ConnAgents, GpcmAssumption DEF AllEntitled, Entitled, Hunts
<1>2. ASSUME NEW j \in Job, Equipped(j), Becomes(h, j), j.op \in {"none", "heartbeat"},
             j.at \in {"sweep", "offline"}, DeadStays,
             j.who # None => peer'[j.who] = "dead", UNCHANGED <<listed, fd, profile>>
      PROVE  Moves /\ AllEntitled'
  <2>1. Turns(h, j) /\ ~Hunts(j) /\ Proper(h, j)
    BY <1>1, <1>2 DEF Turns, Hunts, Proper
  <2>2. QED
    BY <1>1, <1>2, <2>1, NoHunt, Resting
<1>3. CASE Beat
  <2> DEFINE i == Idle("sweep")
             j == [i EXCEPT !.op = "heartbeat", !.todo = listed]
  <2>1. Becomes(h, j) /\ listed \in SUBSET Conn /\ UNCHANGED <<listed, fd, peer, profile>>
    BY <1>1, <1>3 DEF Beat, session, Run, Becomes, Typed
  <2>2. i \in Job /\ i.at = "sweep" /\ i.who = None
    BY IdleFields DEF At
  <2> HIDE DEF i
  <2>3. j \in Job /\ j.op = "heartbeat" /\ j.at = "sweep" /\ j.who = None
    BY <2>1, <2>2 DEF Job, Op
  <2> HIDE DEF j
  <2>4. Equipped(j)
    BY <2>3 DEF Equipped
  <2>5. QED
    BY <1>2, <2>1, <2>3, <2>4, PeersStay
<1>4. ASSUME NEW d \in Conn, KeepAlive(d) PROVE Moves /\ AllEntitled'
  <2> DEFINE j == [job[h] EXCEPT !.todo = @ \ {d}]
  <2>1. Becomes(h, j) /\ job[h].at = "sweep" /\ job[h].who = None /\ DeadStays
        /\ UNCHANGED <<listed, fd, profile>>
    BY <1>1, <1>4, IInvParts, SentToDead DEF KeepAlive, session, Run, Becomes, Handling
  <2>2. j \in Job /\ j.op = job[h].op /\ j.at = "sweep" /\ j.who = None
    BY <1>1, <2>1 DEF Job
  <2> HIDE DEF j
  <2>3. Equipped(j)
    BY <2>2 DEF Equipped
  <2>4. QED
    BY <1>1, <1>2, <2>1, <2>2, <2>3 DEF Entitled
<1>5. ASSUME NEW d \in Conn, SendFailed(d) PROVE Moves /\ AllEntitled'
  <2> DEFINE j == [job[h] EXCEPT !.todo = @ \ {d}, !.at = "offline", !.who = d]
  <2>1. Becomes(h, j) /\ peer' = [peer EXCEPT ![d] = "dead"]
        /\ UNCHANGED <<listed, fd, profile>>
    BY <1>5 DEF SendFailed, session, Run, Becomes
  <2>2. j \in Job /\ j.op = job[h].op /\ j.at = "offline" /\ j.who = d
    BY <1>1, <1>5 DEF Job, At
  <2> HIDE DEF j
  <2>3. Equipped(j)
    BY <2>2, ConnAgents DEF Equipped
  <2>4. DeadStays /\ peer'[d] = "dead"
    BY <1>1, <2>1 DEF DeadStays, Accepted, Typed
  <2>5. QED
    BY <1>1, <1>2, <2>1, <2>2, <2>3, <2>4 DEF Entitled
<1>6. QED
  BY <1>3, <1>4, <1>5 DEF HeartbeatStep

LEMMA ConnectMoves ==
  ASSUME IInv, AllEntitled, NEW c \in Conn, Connect(c)
  PROVE  Moves /\ AllEntitled'
<1>1. /\ c \in Agent /\ job[c].at = "none" /\ Typed /\ TypeOK /\ AcceptedFirst
      /\ Go(c, "read") /\ listed' = listed \union {c}
      /\ fd' = [fd EXCEPT ![c] = "open"] /\ peer' = [peer EXCEPT ![c] = "up"]
      /\ UNCHANGED profile
  BY IInvParts, ConnAgents DEF Connect, session
<1>2. PICK j \in Job : /\ Becomes(c, j)
                       /\ j.op = job[c].op /\ j.at = "read" /\ j.want = job[c].want
                       /\ j.todo = job[c].todo /\ j.who = job[c].who
  BY <1>1, GoIs DEF At
<1>3. fd[c] = "none" /\ c \notin Accepted
  BY <1>1 DEF AcceptedFirst, Accepted
<1>4. DeadStays
  BY <1>1, <1>3 DEF DeadStays, Typed, Accepted
<1>5. Turns(c, j)
  BY <1>2, <1>4 DEF Turns, Equipped
<1>6. SameHunt(c, j) /\ Proper(c, j)
  BY <1>1, <1>2, <1>5, GoesOn DEF LoginAts
<1>7. Promise!Accept(c)
  BY <1>1, <1>3, <1>5, <1>6, SameHuntStays DEF Promise!Accept
<1>8. QED
  BY <1>1, <1>5, <1>6, <1>7, EntitledStays DEF Moves

LEMMA PeerMoves ==
  ASSUME IInv, AllEntitled, NEW c \in Conn, Lose(c) \/ TimeOut(c)
  PROVE  Moves /\ AllEntitled'
<1>1. UNCHANGED <<listed, fd, profile, job>> /\ DeadStays
  BY IInvParts DEF Lose, TimeOut, session, DeadStays, Typed, Accepted
<1>2. Wanted' = Wanted /\ Due' = Due
  BY <1>1 DEF Wanted, Due, Hunting
<1>3. Promise!Rest
  BY <1>1, <1>2 DEF Promise!Rest
<1>4. ASSUME NEW a \in Agent PROVE Entitled(a)'
  <2>1. Entitled(a) /\ Handling(a)
    BY IInvParts DEF AllEntitled
  <2>2. job[a].who # None /\ peer[job[a].who] = "dead" => peer'[job[a].who] = "dead"
    BY <1>1, <2>1 DEF Handling, DeadStays
  <2>3. QED
    BY <1>1, <2>1, <2>2 DEF Entitled
<1>5. QED
  BY <1>3, <1>4 DEF Moves, AllEntitled

\* Who is disconnected is due in a hunt or ends by itself.
LEMMA CloseMoves ==
  ASSUME IInv, AllEntitled, NEW a \in Agent, Close(a)
  PROVE  Moves /\ AllEntitled'
<1> DEFINE w == job[a].who
<1>1. /\ job[a].at = "tell" /\ job[a].op \in Closing /\ Sent(w) /\ Go(a, "unlist")
      /\ fd' = [fd EXCEPT ![w] = "closed"]
      /\ UNCHANGED <<listed, profile>>
  BY DEF Close, session
<1>2. Typed /\ TypeOK /\ Entitled(a) /\ w \in Accepted /\ w \in Conn /\ w # None
  BY <1>1, IInvParts, ConnAgents DEF Handling, Equipped, AllEntitled, Accepted
<1>3. PICK j \in Job : /\ Becomes(a, j)
                       /\ j.op = job[a].op /\ j.at = "unlist" /\ j.want = job[a].want
                       /\ j.todo = job[a].todo /\ j.who = w
  BY <1>1, <1>2, GoIs DEF At
<1>4. Turns(a, j)
  BY <1>1, <1>2, <1>3, SentToDead DEF Turns, Equipped
<1>5. SameHunt(a, j) /\ Proper(a, j)
  BY <1>1, <1>3, <1>4, GoesOn DEF LoginAts
<1>6. Wanted' = Wanted /\ Due' = Due
  BY <1>1, <1>2, <1>4, <1>5, SameHuntStays
<1>7. CASE fd[w] = "open"
  <2>1. w \in Ending \/ \E b \in Agent : w \in Due[b]
    <3>1. CASE job[a].op \in {"login", "kick"}
      BY <1>1, <1>2, <3>1, HuntsAre DEF Ahead, Hunts, LoginAts
    <3>2. CASE job[a].op = "heartbeat"
      BY <1>2, <3>2 DEF Entitled, Ending
    <3>3. CASE job[a].op \in {"end", "unknown"}
      BY <1>2, <3>3 DEF Entitled, Ending
    <3>4. QED
      BY <1>1, <3>1, <3>2, <3>3 DEF Closing
  <2> HIDE DEF w
  <2>2. Promise!Shut(w)
    BY <1>1, <1>6, <1>7, <2>1 DEF Promise!Shut
  <2>3. QED
    BY <1>2, <1>4, <1>5, <2>2, EntitledStays DEF Moves
<1>8. CASE fd[w] # "open"
  <2>1. fd' = fd
    <3>1. fd[w] = "closed"
      BY <1>2, <1>8 DEF Accepted, Typed
    <3>2. QED
      BY <1>1, <1>2, <3>1 DEF Typed
  <2>2. Promise!Rest
    BY <1>1, <1>6, <2>1 DEF Promise!Rest
  <2>3. QED
    BY <1>4, <1>5, <2>2, EntitledStays DEF Moves
<1>9. QED
  BY <1>7, <1>8

LEMMA UnlistMoves ==
  ASSUME IInv, AllEntitled, NEW a \in Agent, onClientDisconnect(a)
  PROVE  Moves /\ AllEntitled'
<1> DEFINE w == job[a].who
<1>1. /\ job[a].at = "unlist" /\ listed' = listed \ {w}
      /\ UNCHANGED <<fd, peer, profile>>
  BY DEF onClientDisconnect, session
<1>2. /\ Typed /\ TypeOK /\ Entitled(a) /\ job[a] \in Job /\ fd[w] = "closed"
      /\ w \in Conn /\ w # None
  BY <1>1, IInvParts, JobFields DEF Handling, Equipped, AllEntitled
<1>3. ASSUME NEW j, Turns(a, j), Proper(a, j), SameHunt(a, j)
      PROVE  Moves /\ AllEntitled'
  <2>1. Wanted' = Wanted /\ Due' = Due
    BY <1>1, <1>2, <1>3, SameHuntStays
  <2>2. Promise!Leave(w)
    BY <1>1, <1>2, <2>1 DEF Promise!Leave
  <2>3. QED
    BY <1>2, <1>3, <2>2, EntitledStays DEF Moves
<1>4. CASE job[a].op \in {"end", "unknown"}
  <2>1. \E j \in Job : Becomes(a, j) /\ Equipped(j) /\ j.op = "none"
                       /\ j.at \in {"ended", "read", "idle"}
    <3>1. CASE job[a].op = "end"
      <4>1. Becomes(a, Idle("ended"))
        BY <3>1 DEF onClientDisconnect, Run, Becomes
      <4>2. Equipped(Idle("ended"))
        BY IdleFields DEF At, Equipped
      <4>3. QED
        BY <4>1, <4>2, IdleFields DEF At
    <3>2. CASE job[a].op = "unknown"
      <4>1. Becomes(a, Home(a))
        BY <3>2 DEF onClientDisconnect, Run, Becomes
      <4>2. QED
        BY <4>1, HomeIs
    <3>3. QED
      BY <1>4, <3>1, <3>2
  <2>2. PICK j \in Job : Becomes(a, j) /\ Equipped(j) /\ j.op = "none"
                       /\ j.at \in {"ended", "read", "idle"}
    BY <2>1
  <2>3. Turns(a, j) /\ Proper(a, j)
    BY <1>1, <2>2, PeersStay DEF Turns, Proper
  <2>4. SameHunt(a, j)
    BY <1>4, <2>2, NoHunt DEF Hunts
  <2>5. QED
    BY <1>3, <2>3, <2>4
<1>5. CASE job[a].op \notin {"end", "unknown"}
  <2> DEFINE j == [job[a] EXCEPT !.at = "sweep", !.who = None]
  <2>1. Becomes(a, j)
    BY <1>5 DEF onClientDisconnect, Run, Becomes
  <2>2. /\ j \in Job /\ j.who = None /\ j.todo = job[a].todo /\ j.at = "sweep"
        /\ j.op = job[a].op /\ j.want = job[a].want
    BY <1>2 DEF Job, At
  <2> HIDE DEF j
  <2>3. Turns(a, j)
    BY <1>1, <2>1, <2>2, PeersStay DEF Turns, Equipped
  <2>4. Proper(a, j)
    BY <1>2, <1>5, <2>2 DEF Proper, Entitled
  <2>5. CASE SameHunt(a, j)
    BY <1>3, <2>3, <2>4, <2>5
  <2>6. CASE ~SameHunt(a, j)
    <3>1. (Hunts(j) <=> Hunts(job[a])) /\ (Hunts(j) => j.want = job[a].want)
      BY <1>1, <2>2 DEF Hunts, LoginAts
    <3>2. \A d \in Conn \ {w} : Ahead(j, d) <=> Ahead(job[a], d)
      BY <1>1, <2>2, <3>1, ConnAgents DEF Ahead
    <3>3. ~Ahead(j, w)
      BY <1>2, <2>2, <2>6, <3>1, <3>2 DEF SameHunt, Ahead
    <3> HIDE DEF w
    <3>4. Due'[a] = Due[a] \ {w} /\ Wanted'[a] = Wanted[a]
      BY <1>1, <1>2, <2>3, <3>1, <3>2, <3>3, OthersHunt, HuntsAre
    <3>5. Wanted' = Wanted /\ Due' = [Due EXCEPT ![a] = @ \ {w}]
      <4>1. \A b \in Agent \ {a} : Wanted'[b] = Wanted[b] /\ Due'[b] = Due[b]
        BY <1>1, <1>2, <2>3, OthersHunt
      <4>2. /\ Wanted = [b \in Agent |-> Wanted[b]] /\ Due = [b \in Agent |-> Due[b]]
            /\ Wanted' = [b \in Agent |-> Wanted'[b]] /\ Due' = [b \in Agent |-> Due'[b]]
        BY DEF Wanted, Due
      <4>3. Wanted' = Wanted
        BY <3>4, <4>1, <4>2
      <4>4. Due' = [Due EXCEPT ![a] = @ \ {w}]
        BY <3>4, <4>1, <4>2
      <4>5. QED
        BY <4>3, <4>4
    <3>6. Promise!Leave(w)
      BY <1>1, <1>2, <3>5 DEF Promise!Leave
    <3>7. QED
      BY <1>2, <2>3, <2>4, <3>6, EntitledStays DEF Moves
  <2>7. QED
    BY <2>5, <2>6
<1>6. QED
  BY <1>4, <1>5

\* The login's own hunt is over; the hunts of others see that c has changed.
LEMMA LoginProfileMoves ==
  ASSUME IInv, AllEntitled, NEW c \in Conn, LoginProfile(c)
  PROVE  Moves /\ AllEntitled'
<1> DEFINE p == job[c].want
<1>1. /\ job[c].at = "sweep" /\ job[c].op = "login" /\ job[c].todo = {}
      /\ profile' = [profile EXCEPT ![c] = p] /\ Go(c, "online")
      /\ UNCHANGED <<listed, fd, peer>>
  BY DEF LoginProfile
<1>2. /\ c \in Agent /\ Typed /\ TypeOK /\ Entitled(c) /\ job[c].who = None /\ p \in Profile
      /\ job \in [Agent -> Job] /\ Sweeps(c)
  BY <1>1, IInvParts, ConnAgents, JobFields DEF AllEntitled, Entitled, Handling
<1>3. PICK j \in Job : /\ Becomes(c, j)
                       /\ j.op = job[c].op /\ j.at = "online" /\ j.want = job[c].want
                       /\ j.todo = job[c].todo /\ j.who = job[c].who
  BY <1>1, <1>2, GoIs DEF At
<1>4. Turns(c, j) /\ ~Hunts(j)
  BY <1>1, <1>3, PeersStay DEF Turns, Equipped, Hunts, LoginAts
<1>5. Proper(c, j)
  BY <1>1, <1>2, <1>3 DEF Proper, Entitled
<1>6. job'[c] = j /\ \A b \in Agent \ {c} : job'[b] = job[b]
  BY <1>2, <1>4, JobTyping DEF Turns
<1>7. Wanted[c] = p /\ Due[c] = {}
  <2>1. Hunts(job[c]) /\ \A d \in Conn : ~Ahead(job[c], d)
    BY <1>1, <1>2, ConnAgents DEF Hunts, Ahead, LoginAts
  <2>2. QED
    BY <1>2, <2>1, HuntsAre
<1>8. Wanted'[c] = None /\ Due'[c] = {}
  BY <1>2, <1>4, <1>6 DEF Wanted, Due, Hunting, Hunts, LoginAts
<1> HIDE DEF p
<1>9. \A b \in Agent \ {c} : Wanted'[b] = Wanted[b]
  BY <1>6 DEF Wanted, Hunting
<1>10. Wanted' = [Wanted EXCEPT ![c] = None]
  <2>1. /\ Wanted = [b \in Agent |-> Wanted[b]]
        /\ Wanted' = [b \in Agent |-> Wanted'[b]]
    BY DEF Wanted
  <2>2. QED
    BY <1>8, <1>9, <2>1
<1>11. Promise!Holding(p) \subseteq {c} \/ p \in Raced
  <2>1. ASSUME NEW d \in listed \ {c}, profile[d] = p, <<"login", p>> \notin noted
        PROVE  FALSE
    <3>1. LoggingIn(c, p)
      BY <1>1 DEF LoggingIn, p
    <3>2. d \in job[c].todo \/ d = job[c].who
      BY <1>2, <2>1, <3>1 DEF Sweeps
    <3>3. d # None
      BY <1>2, ConnAgents DEF Typed
    <3>4. QED
      BY <1>1, <1>2, <3>2, <3>3
  <2>2. QED
    BY <1>2, <2>1 DEF Promise!Holding, Raced
<1>12. ASSUME NEW b \in Agent
       PROVE  /\ Due'[b] \ {c} = Due[b] \ {c}
              /\ c \in Due'[b] \ Due[b] => Wanted[b] = p
              /\ c \in Due[b] \ Due'[b] => Wanted[b] # p
  <2>1. CASE b = c
    BY <1>7, <1>8, <2>1
  <2>2. CASE b # c
    <3>1. job'[b] = job[b] /\ (Hunting(b)' <=> Hunting(b))
      BY <1>6, <2>2 DEF Hunting
    <3>2. profile'[c] = p /\ \A d \in Conn \ {c} : profile'[d] = profile[d]
      BY <1>1, <1>2 DEF Typed
    <3>3. \A d \in Conn : d \in Due[b] <=>
            Hunting(b) /\ ((d \in job[b].todo /\ profile[d] = job[b].want) \/ d = job[b].who)
      BY DEF Due
    <3>4. \A d \in Conn : d \in Due'[b] <=>
            Hunting(b) /\ ((d \in job[b].todo /\ profile'[d] = job[b].want) \/ d = job[b].who)
      BY <3>1 DEF Due
    <3>5. Due[b] \subseteq Conn /\ Due'[b] \subseteq Conn
      BY DEF Due
    <3>6. Due'[b] \ {c} = Due[b] \ {c}
      BY <3>2, <3>3, <3>4, <3>5
    <3>7. Hunting(b) => Wanted[b] = job[b].want
      BY DEF Wanted
    <3>8. QED
      BY <3>2, <3>3, <3>4, <3>6, <3>7
  <2>3. QED
    BY <2>1, <2>2
<1>13. Promise!Assume(c)
  <2>1. Wanted[c] # None
    BY <1>2, <1>7, ConnAgents
  <2>2. QED
    BY <1>1, <1>7, <1>10, <1>11, <1>12, <2>1 DEF Promise!Assume, Promise!Over
<1>14. QED
  BY <1>2, <1>4, <1>5, <1>13, EntitledStays DEF Moves

-----------------------------------------------------------------------------
LEMMA StepMoves ==
  ASSUME IInv, AllEntitled, Step
  PROVE  Moves /\ AllEntitled'
<1>1. ASSUME NEW c \in Conn, Network(c) PROVE Moves /\ AllEntitled'
  BY <1>1, ConnectMoves, PeerMoves, EndingMoves DEF Network
<1>2. ASSUME NEW c \in Conn, Requests(c) PROVE Moves /\ AllEntitled'
  BY <1>2, HuntsBegin, EndingMoves, OtherRequests DEF Requests
<1>3. ASSUME NEW c \in Conn, Work(c) PROVE Moves /\ AllEntitled'
  BY <1>3, EndingMoves, LoginProfileMoves, LoginMoves, SyncMoves, BuddyMoves DEF Work
<1>4. ASSUME NEW a \in Agent, Disconnecting(a) PROVE Moves /\ AllEntitled'
  BY <1>4, HandlerMoves, CloseMoves, UnlistMoves, SweepMoves, SweepDoneMoves
     DEF Disconnecting
<1>5. QED
  BY <1>1, <1>2, <1>3, <1>4, HuntsBegin, HeartbeatMoves DEF Step

LEMMA NextMoves ==
  ASSUME IInv, AllEntitled, Next
  PROVE  Moves /\ AllEntitled'
BY StepMoves, HandlerMoves, LoginMoves, BuddyMoves DEF Next, Failure, Harmless

\* A profile two connections want is one two logins hunt.
LEMMA RacesAre ==
  ASSUME AllEntitled', Next
  PROVE  Promise!Races
<1>1. \A p : <<"login", p>> \notin TellRaces' \union FriendRaces' \union Changes
  BY DEF TellRaces, TellNotes, FriendRaces, FriendNotes, Changes
<1>2. ASSUME NEW a PROVE \A p : <<"login", p>> \notin Untold(a) \union Overlooked(a)
  BY DEF Untold, UntoldNotes, Overlooked, FriendNotes
<1>3. PICK lost : Record(lost) /\ \A p : <<"login", p>> \notin lost
  BY <1>2 DEF Next, Failure
<1>4. ASSUME NEW p \in Profile
      PROVE  <<"login", p>> \in LoginRaces' <=>
               \E c, d \in Conn : c # d /\ LoggingIn(c, p)' /\ LoggingIn(d, p)'
  BY DEF LoginRaces, LoginNotes
<1>5. ASSUME NEW p \in Profile, NEW c \in Conn
      PROVE  LoggingIn(c, p)' <=> Wanted'[c] = p
  <2>1. c \in Agent /\ c # Admin /\ p # None
    BY ConnAgents, GpcmAssumption
  <2>2. job'[c].op # "kick"
    BY <2>1 DEF AllEntitled, Entitled
  <2>3. QED
    BY <2>1, <2>2 DEF Wanted, Hunting, LoggingIn
<1>6. ASSUME NEW p \in Profile
      PROVE  p \in Raced' <=> \/ p \in Raced
                              \/ \E c, d \in Conn : c # d /\ Wanted'[c] = p /\ Wanted'[d] = p
  <2>1. <<"login", p>> \in noted' <=> <<"login", p>> \in noted \union LoginRaces'
    BY <1>1, <1>3 DEF Record
  <2>2. QED
    BY <1>4, <1>5, <2>1 DEF Raced
<1>7. QED
  BY <1>6 DEF Raced, Promise!Races

LEMMA EntitledFirst ==
  ASSUME Init
  PROVE  AllEntitled /\ Promise!Init
<1>1. ASSUME NEW a \in Agent
      PROVE  job[a].op = "none" /\ job[a].at \in {"none", "idle"}
  BY <1>1, IdleFields DEF Init, At
<1>2. AllEntitled
  BY <1>1 DEF AllEntitled, Entitled
<1>3. \A a \in Agent : ~Hunting(a)
  BY <1>1 DEF Hunting
<1>4. Wanted = [a \in Agent |-> None] /\ Due = [a \in Agent |-> {}]
  BY <1>3 DEF Wanted, Due
<1>5. Ending = {} /\ Raced = {}
  BY DEF Init, Ending, Accepted, Raced
<1>6. QED
  BY <1>2, <1>4, <1>5 DEF Init, Promise!Init

\* A stuttering step of Gpcm changes nothing Sessions speaks of.
LEMMA StutterMoves ==
  ASSUME AllEntitled, UNCHANGED vars
  PROVE  /\ AllEntitled'
         /\ UNCHANGED <<listed, fd, profile, Wanted, Due, Ending, Raced>>
<1>1. UNCHANGED <<listed, fd, peer, profile, job, noted>>
  BY DEF vars
<1>2. AllEntitled'
  BY <1>1 DEF AllEntitled, Entitled
<1>3. UNCHANGED <<Wanted, Due, Ending, Raced>>
  BY <1>1 DEF Wanted, Due, Hunting, Ending, Accepted, Raced
<1>4. QED
  BY <1>1, <1>2, <1>3

\* Gpcm implements Sessions: however the steps of logins, kicks, the heartbeat
\* and of Client::Disconnect interleave, nobody is disconnected without a
\* reason, Disconnect(profileid) returns only when every session it was after
\* is off the list, and only then does requestLogin take the profile.
THEOREM SessionsAreKept == Spec => KeepsSessions
<1>1. Init => AllEntitled /\ Promise!Init
  BY EntitledFirst
<1>2. IInv /\ AllEntitled /\ [Next]_vars => AllEntitled'
  BY NextMoves, StutterMoves
<1>3. IInv /\ AllEntitled /\ [Next]_vars =>
        [Promise!Next]_<<listed, fd, profile, Wanted, Due, Ending, Raced>>
  <2>1. ASSUME IInv, AllEntitled, Next PROVE Promise!Next
    BY <2>1, NextMoves, RacesAre DEF Moves, Promise!Next
  <2>2. QED
    BY <2>1, StutterMoves
<1>4. QED
  BY <1>1, <1>2, <1>3, Invariance, PTL DEF Spec, KeepsSessions, Promise!Spec

=============================================================================
