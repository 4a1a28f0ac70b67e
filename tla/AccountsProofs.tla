--------------------------- MODULE AccountsProofs ---------------------------
(***************************************************************************)
(* Proofs about Accounts, for every number of threads and every set of     *)
(* nicks, emails, passwords and requests.                                  *)
(*                                                                         *)
(* The argument.  Each property of the tables is inductive together with   *)
(* the conjunct of IInv that says what a handler relies on between its     *)
(* calls: that the nick it chose is still free, that the user id it read   *)
(* is still its own, that the row it inserted is there.  RacesNoted turns  *)
(* the handlers that could break such a reliance into an entry of noted.   *)
(***************************************************************************)
EXTENDS Accounts, TLAPS, SequenceTheorems

Others(t) == \A u \in Thread \ {t} : job'[u] = job[u]

\* The row i is one whose owner's digest the registration j came with.
CopiedFrom(j, i) ==
  /\ players[i].userid = j.userid
  /\ \E p \in Password : players[i].password = p /\ j.password = Hash[p]
  /\ \/ players[i].email = j.email
     \/ \E n \in Nick : Cut[n] = j.nick /\ Fold[n] = Fold[players[i].uniquenick]

NickIsFree(j) ==
  <<"nick", j.nick>> \in noted \/ \A i \in ProfileId : players[i].uniquenick # j.nick

IdIsOwn(j) ==
  \/ <<"userid", j.userid>> \in noted
  \/ \A i \in ProfileId : players[i].userid # j.userid
  \/ \E i \in ProfileId : CopiedFrom(j, i)

RowIsThere(j) ==
  \/ /\ j.pid \in ProfileId
     /\ players[j.pid].uniquenick = j.nick /\ players[j.pid].email = j.email
  \/ j.pid = -1 /\ <<"pid", -1>> \in noted

RowIsOwn(j) ==
  /\ players[j.pid].password = Hash[j.password]
  /\ Fold[players[j.pid].uniquenick] = Fold[Strip[j.nick]]

\* What a handler relies on between its calls.
Relies(t) ==
  /\ Choosing(t) => NickIsFree(job[t]) /\ job[t].pid = -1
  /\ At(t, "queryPlayerNewUserID") => job[t].userid = -1
  /\ Holding(t) => IdIsOwn(job[t])
  /\ At(t, "insertPlayerStats") => RowIsThere(job[t])
  /\ At(t, "updatePlayerLastLogin") => RowIsOwn(job[t])

RacesNoted == Cropped \subseteq noted /\ Races \subseteq noted

IInv ==
  /\ TypeOK
  /\ RacesNoted
  /\ \A t \in Thread : Relies(t)
  /\ UniqueNicksDiffer
  /\ UserIdsDiffer
  /\ StatsForEveryPlayer
  /\ AnswersAreTrue

-----------------------------------------------------------------------------
(***************************************************************************)
(* What the steps do, field by field.                                      *)
(***************************************************************************)
Quiet(t) ==
  /\ UNCHANGED <<players, stats, told>>
  /\ job' \in [Thread -> Job]
  /\ Others(t)

LEMMA FieldsOfJobs ==
  ASSUME NEW j \in Job
  PROVE  /\ j.next \in {"queryPlayerNewUserID", "insertPlayer", "insertPlayerStats"}
              => j \in RegistrationJob
         /\ j.next = "updatePlayerLastLogin" => j \in LoginJob
         /\ j = NoJob => j.next = "none"
  BY DEF Job, NoJob, RegistrationJob, LoginJob

LEMMA PlayersAre ==
  ASSUME TypeOK
  PROVE  /\ ProfileId = 1 .. Len(players) /\ Len(players) \in Nat
         /\ \A i \in ProfileId : players[i] \in Player /\ players[i].userid \in Int
<1>1. players \in Seq(Player)
  BY DEF TypeOK
<1>2. \A i \in 1 .. Len(players) : players[i] \in Player
  BY <1>1, ElementOfSeq
<1>3. \A r \in Player : r.userid \in Int
  BY DEF Player
<1>4. QED
  BY <1>1, <1>2, <1>3 DEF ProfileId

LEMMA StepNewUser ==
  ASSUME TypeOK, NEW t \in Thread, NewUser(t)
  PROVE  /\ Quiet(t) /\ job[t] = NoJob
         /\ job'[t] \in RegistrationJob /\ Choosing(t)' /\ job'[t].pid = -1
         /\ \/ <<"nick", job'[t].nick>> \in Cropped
            \/ \A i \in ProfileId : players[i].uniquenick # job'[t].nick
         /\ At(t, "queryPlayerNewUserID")' => job'[t].userid = -1
         /\ Holding(t)' => \E i \in ProfileId : CopiedFrom(job'[t], i)
<1>1. PICK r \in NewUserRequest :
        LET n == Strip[r.nick]
            e == Filed[r.email]
            found == queryPlayersByEmailOrUniquenick(e, n)
            Going(next, id) == job' = [job EXCEPT ![t] =
                                 Registering(next, Cut[n], e, Hash[r.password], id, -1)]
        IN  /\ job[t] = NoJob
            /\ \A i \in found : players[i].uniquenick # n
            /\ \/ found = {} /\ Going("queryPlayerNewUserID", -1)
               \/ \E i \in found :
                    players[i].password = r.password /\ Going("insertPlayer", players[i].userid)
            /\ UNCHANGED <<players, stats, told>>
  BY DEF NewUser
<1> DEFINE n == Strip[r.nick]
           e == Filed[r.email]
           J(next, id) == Registering(next, Cut[n], e, Hash[r.password], id, -1)
<1>2. /\ r.nick \in Nick /\ r.email \in Email /\ r.password \in Password
      /\ n \in Nick /\ e \in Email /\ Cut[n] \in Nick /\ Hash[r.password] \in Digest
  BY AccountsAssumption
<1>3. ASSUME NEW next \in {"queryPlayerNewUserID", "insertPlayer"}, NEW id \in Int
      PROVE  /\ J(next, id) \in RegistrationJob /\ J(next, id) \in Job
             /\ J(next, id).next = next /\ J(next, id).nick = Cut[n]
             /\ J(next, id).email = e /\ J(next, id).password = Hash[r.password]
             /\ J(next, id).userid = id /\ J(next, id).pid = -1
  BY <1>2 DEF Registering, RegistrationJob, Job
<1>4. \/ <<"nick", Cut[n]>> \in Cropped
      \/ \A i \in ProfileId : players[i].uniquenick # Cut[n]
  <2>1. SUFFICES ASSUME Cut[n] = n, NEW i \in ProfileId, players[i].uniquenick = n
                 PROVE  FALSE
    BY <1>2 DEF Cropped
  <2>2. i \in queryPlayersByEmailOrUniquenick(e, n)
    BY <2>1 DEF queryPlayersByEmailOrUniquenick
  <2>3. QED
    BY <1>1, <2>1, <2>2
<1> HIDE DEF J
<1>5. CASE job' = [job EXCEPT ![t] = J("queryPlayerNewUserID", -1)]
  <2>1. job'[t] = J("queryPlayerNewUserID", -1) /\ Quiet(t)
    BY <1>1, <1>3, <1>5 DEF Quiet, Others, TypeOK
  <2>2. QED
    BY <1>1, <1>3, <1>4, <2>1 DEF Choosing, Holding, At
<1>6. CASE \E i \in queryPlayersByEmailOrUniquenick(e, n) :
             /\ players[i].password = r.password
             /\ job' = [job EXCEPT ![t] = J("insertPlayer", players[i].userid)]
  <2>1. PICK i \in queryPlayersByEmailOrUniquenick(e, n) :
             /\ players[i].password = r.password
             /\ job' = [job EXCEPT ![t] = J("insertPlayer", players[i].userid)]
    BY <1>6
  <2>2. i \in ProfileId /\ players[i] \in Player /\ players[i].userid \in Int
    BY PlayersAre DEF queryPlayersByEmailOrUniquenick
  <2>3. job'[t] = J("insertPlayer", players[i].userid) /\ Quiet(t)
    BY <1>1, <1>3, <2>1, <2>2 DEF Quiet, Others, TypeOK
  <2>4. players[i].email = e \/ Fold[players[i].uniquenick] = Fold[n]
    BY DEF queryPlayersByEmailOrUniquenick
  <2>5. CopiedFrom(job'[t], i)
    BY <1>2, <1>3, <2>1, <2>2, <2>3, <2>4 DEF CopiedFrom
  <2>6. QED
    BY <1>1, <1>3, <1>4, <2>2, <2>3, <2>5 DEF Choosing, Holding, At
<1>7. QED
  BY <1>1, <1>5, <1>6 DEF J

LEMMA StepNewUserBlindly ==
  ASSUME TypeOK, NEW t \in Thread, NewUserBlindly(t)
  PROVE  /\ Quiet(t) /\ job[t] = NoJob
         /\ job'[t] \in RegistrationJob /\ At(t, "queryPlayerNewUserID")'
         /\ job'[t].pid = -1 /\ job'[t].userid = -1
<1>1. PICK r \in NewUserRequest :
        /\ job[t] = NoJob
        /\ job' = [job EXCEPT ![t] = Registering("queryPlayerNewUserID", Cut[Strip[r.nick]],
                                                 Filed[r.email], Hash[r.password], -1, -1)]
        /\ UNCHANGED <<players, stats, told>>
  BY DEF NewUserBlindly
<1> DEFINE j == Registering("queryPlayerNewUserID", Cut[Strip[r.nick]],
                            Filed[r.email], Hash[r.password], -1, -1)
<1>2. r.nick \in Nick /\ r.email \in Email /\ r.password \in Password
  BY AccountsAssumption
<1>3. Cut[Strip[r.nick]] \in Nick /\ Filed[r.email] \in Email /\ Hash[r.password] \in Digest
  BY <1>2, AccountsAssumption
<1>4. /\ j \in RegistrationJob /\ j \in Job
      /\ j.next = "queryPlayerNewUserID" /\ j.pid = -1 /\ j.userid = -1
  BY <1>3 DEF Registering, RegistrationJob, Job
<1> HIDE DEF j
<1>5. job'[t] = j /\ Quiet(t)
  BY <1>1, <1>4 DEF Quiet, Others, TypeOK, j
<1>6. QED
  BY <1>1, <1>4, <1>5 DEF At

\* A registration that goes on, knowing what it knew but its user or profile id.
GoesOn(t, next) ==
  /\ job' \in [Thread -> Job]
  /\ Others(t)
  /\ job'[t] \in RegistrationJob
  /\ job'[t].next = next /\ job'[t].nick = job[t].nick /\ job'[t].email = job[t].email
  /\ job'[t].password = job[t].password

LEMMA StepNewUserID ==
  ASSUME TypeOK, NEW t \in Thread, NewUserID(t)
  PROVE  /\ Quiet(t) /\ At(t, "queryPlayerNewUserID") /\ GoesOn(t, "insertPlayer")
         /\ job'[t].pid = job[t].pid
         /\ \A i \in ProfileId : players[i].userid # job'[t].userid
<1>1. PICK id \in queryPlayerNewUserID :
        job' = [job EXCEPT ![t].userid = id, ![t].next = "insertPlayer"]
  BY DEF NewUserID
<1>2. At(t, "queryPlayerNewUserID") /\ UNCHANGED <<players, stats, told>>
  BY DEF NewUserID
<1>3. job[t] \in RegistrationJob
  BY <1>2, FieldsOfJobs DEF TypeOK, At
<1>4. /\ ProfileId = 1 .. Len(players)
      /\ \A i \in ProfileId : players[i].userid \in Int
  BY PlayersAre
<1>5. id \in Int /\ \A i \in ProfileId : players[i].userid # id
  <2>1. CASE players = <<>>
    BY <2>1, AccountsAssumption DEF queryPlayerNewUserID, ProfileId
  <2>2. CASE players # <<>>
    <3>1. PICK m \in Highest : id = m + 1
      BY <2>2 DEF queryPlayerNewUserID
    <3>2. m \in Int /\ \A i \in ProfileId : players[i].userid <= m
      BY <1>4, <3>1 DEF Highest, UserIds
    <3>3. QED
      BY <1>4, <3>1, <3>2
  <2>3. QED
    BY <2>1, <2>2
<1>6. [job[t] EXCEPT !.userid = id, !.next = "insertPlayer"] \in RegistrationJob
  BY <1>3, <1>5 DEF RegistrationJob
<1>7. job'[t] = [job[t] EXCEPT !.userid = id, !.next = "insertPlayer"]
  BY <1>1 DEF TypeOK
<1>8. /\ job'[t].next = "insertPlayer" /\ job'[t].nick = job[t].nick
      /\ job'[t].email = job[t].email /\ job'[t].password = job[t].password
      /\ job'[t].pid = job[t].pid /\ job'[t].userid = id
  BY <1>3, <1>7 DEF RegistrationJob
<1>9. job' \in [Thread -> Job] /\ Others(t)
  BY <1>1, <1>6 DEF TypeOK, Job, Others
<1>10. QED
  BY <1>2, <1>5, <1>6, <1>7, <1>8, <1>9 DEF Quiet, GoesOn

LEMMA StepNewUserIDFails ==
  ASSUME TypeOK, NEW t \in Thread, NewUserIDFails(t)
  PROVE  /\ Quiet(t) /\ At(t, "queryPlayerNewUserID") /\ GoesOn(t, "insertPlayer")
         /\ job'[t].pid = job[t].pid /\ job'[t].userid = job[t].userid
<1>1. /\ At(t, "queryPlayerNewUserID") /\ UNCHANGED <<players, stats, told>>
      /\ job' = [job EXCEPT ![t].next = "insertPlayer"]
  BY DEF NewUserIDFails
<1>2. job[t] \in RegistrationJob
  BY <1>1, FieldsOfJobs DEF TypeOK, At
<1>3. [job[t] EXCEPT !.next = "insertPlayer"] \in RegistrationJob
  BY <1>2 DEF RegistrationJob
<1>4. job'[t] = [job[t] EXCEPT !.next = "insertPlayer"]
  BY <1>1 DEF TypeOK
<1>5. /\ job'[t].next = "insertPlayer" /\ job'[t].nick = job[t].nick
      /\ job'[t].email = job[t].email /\ job'[t].password = job[t].password
      /\ job'[t].pid = job[t].pid /\ job'[t].userid = job[t].userid
  BY <1>2, <1>4 DEF RegistrationJob
<1>6. job' \in [Thread -> Job] /\ Others(t)
  BY <1>1, <1>3 DEF TypeOK, Job, Others
<1>7. QED
  BY <1>1, <1>3, <1>4, <1>5, <1>6 DEF Quiet, GoesOn

LEMMA NewPlayerIs ==
  ASSUME NEW j
  PROVE  /\ NewPlayer(j).uniquenick = j.nick /\ NewPlayer(j).email = j.email
         /\ NewPlayer(j).userid = j.userid /\ NewPlayer(j).password = j.password
  BY DEF NewPlayer

LEMMA StepInsertPlayer ==
  ASSUME TypeOK, NEW t \in Thread, InsertPlayer(t)
  PROVE  /\ Holding(t) /\ GoesOn(t, "insertPlayerStats") /\ UNCHANGED <<stats, told>>
         /\ job[t] \in RegistrationJob
         /\ job'[t].pid = Len(players) + 1
         /\ players' \in Seq(Player)
         /\ ProfileId' = ProfileId \union {Len(players) + 1}
         /\ \A i \in ProfileId : players'[i] = players[i]
         /\ players'[Len(players) + 1] = NewPlayer(job[t])
<1>1. /\ At(t, "insertPlayer") /\ UNCHANGED <<stats, told>>
      /\ players' = Append(players, NewPlayer(job[t]))
      /\ job' = [job EXCEPT ![t].pid = Len(players) + 1, ![t].next = "insertPlayerStats"]
  BY DEF InsertPlayer, mysql_stmt_insert_id
<1>2. job[t] \in RegistrationJob
  BY <1>1, FieldsOfJobs DEF TypeOK, At
<1>3. Len(players) \in Nat /\ ProfileId = 1 .. Len(players)
  BY PlayersAre
<1>4. NewPlayer(job[t]) \in Player
  BY <1>2 DEF NewPlayer, Player, RegistrationJob
<1>5. /\ players' \in Seq(Player)
      /\ ProfileId' = ProfileId \union {Len(players) + 1}
      /\ \A i \in ProfileId : players'[i] = players[i]
      /\ players'[Len(players) + 1] = NewPlayer(job[t])
  <2>1. players \in Seq(Player)
    BY DEF TypeOK
  <2>2. /\ players' \in Seq(Player) /\ Len(players') = Len(players) + 1
        /\ \A i \in 1 .. Len(players) : players'[i] = players[i]
        /\ players'[Len(players) + 1] = NewPlayer(job[t])
    BY <1>1, <1>4, <2>1, AppendProperties
  <2>3. ProfileId' = 1 .. Len(players')
    BY <2>2 DEF ProfileId
  <2>4. QED
    BY <1>3, <2>2, <2>3
<1>6. [job[t] EXCEPT !.pid = Len(players) + 1, !.next = "insertPlayerStats"] \in RegistrationJob
  <2>1. ASSUME NEW j \in RegistrationJob, NEW k \in Int
        PROVE  [j EXCEPT !.pid = k, !.next = "insertPlayerStats"] \in RegistrationJob
    BY DEF RegistrationJob
  <2>2. Len(players) + 1 \in Int
    BY <1>3
  <2>3. QED
    BY <1>2, <2>1, <2>2
<1>7. job'[t] = [job[t] EXCEPT !.pid = Len(players) + 1, !.next = "insertPlayerStats"]
  BY <1>1 DEF TypeOK
<1>8. /\ job'[t].next = "insertPlayerStats" /\ job'[t].nick = job[t].nick
      /\ job'[t].email = job[t].email /\ job'[t].password = job[t].password
      /\ job'[t].pid = Len(players) + 1
  BY <1>2, <1>7 DEF RegistrationJob
<1>9. job' \in [Thread -> Job] /\ Others(t)
  BY <1>1, <1>6 DEF TypeOK, Job, Others
<1>10. QED
  BY <1>1, <1>2, <1>5, <1>6, <1>7, <1>8, <1>9 DEF GoesOn, Holding

LEMMA StepInsertPlayerFails ==
  ASSUME TypeOK, NEW t \in Thread, InsertPlayerFails(t)
  PROVE  /\ Quiet(t) /\ Holding(t) /\ GoesOn(t, "insertPlayerStats")
         /\ job'[t].pid = job[t].pid
<1>1. /\ At(t, "insertPlayer") /\ UNCHANGED <<players, stats, told>>
      /\ job' = [job EXCEPT ![t].next = "insertPlayerStats"]
  BY DEF InsertPlayerFails
<1>2. job[t] \in RegistrationJob
  BY <1>1, FieldsOfJobs DEF TypeOK, At
<1>3. [job[t] EXCEPT !.next = "insertPlayerStats"] \in RegistrationJob
  BY <1>2 DEF RegistrationJob
<1>4. job'[t] = [job[t] EXCEPT !.next = "insertPlayerStats"]
  BY <1>1 DEF TypeOK
<1>5. /\ job'[t].next = "insertPlayerStats" /\ job'[t].nick = job[t].nick
      /\ job'[t].email = job[t].email /\ job'[t].password = job[t].password
      /\ job'[t].pid = job[t].pid
  BY <1>2, <1>4 DEF RegistrationJob
<1>6. job' \in [Thread -> Job] /\ Others(t)
  BY <1>1, <1>3 DEF TypeOK, Job, Others
<1>7. QED
  BY <1>1, <1>3, <1>4, <1>5, <1>6 DEF Quiet, GoesOn, Holding

Over(t) == job' \in [Thread -> Job] /\ Others(t) /\ job'[t] = NoJob

LEMMA StepAnswer ==
  ASSUME TypeOK, NEW t \in Thread, Answer(t), At(t, "insertPlayerStats")
  PROVE  /\ Over(t) /\ job[t] \in RegistrationJob
         /\ told' = told \union {[pid |-> job[t].pid, nick |-> job[t].nick,
                                  email |-> job[t].email]}
         /\ told' \subseteq [pid : Int, nick : Nick, email : Email]
<1>1. job[t] \in RegistrationJob
  BY FieldsOfJobs DEF TypeOK, At
<1>2. [pid |-> job[t].pid, nick |-> job[t].nick, email |-> job[t].email]
        \in [pid : Int, nick : Nick, email : Email]
  BY <1>1 DEF RegistrationJob
<1>3. QED
  BY <1>1, <1>2 DEF Answer, Over, Others, TypeOK, Job

LEMMA StepLogin ==
  ASSUME TypeOK, NEW t \in Thread, Login(t)
  PROVE  /\ Quiet(t) /\ job[t] = NoJob
         /\ At(t, "updatePlayerLastLogin")' /\ job'[t].pid \in ProfileId
         /\ RowIsOwn(job'[t])
<1>0. PICK r \in LoginRequest : \E i \in queryPlayerByUniquenick(Strip[r.nick]) :
        /\ job[t] = NoJob
        /\ players[i].password = Hash[r.password]
        /\ job' = [job EXCEPT ![t] = LoggingIn(i, r)]
        /\ UNCHANGED <<players, stats, told>>
  BY DEF Login
<1>1. PICK i \in queryPlayerByUniquenick(Strip[r.nick]) :
        /\ job[t] = NoJob
        /\ players[i].password = Hash[r.password]
        /\ job' = [job EXCEPT ![t] = LoggingIn(i, r)]
        /\ UNCHANGED <<players, stats, told>>
  BY <1>0
<1>2. /\ i \in ProfileId /\ Fold[players[i].uniquenick] = Fold[Strip[r.nick]]
      /\ i \in Nat
  BY PlayersAre DEF queryPlayerByUniquenick
<1>3. r.nick \in Nick /\ r.password \in Password /\ r.ip \in Ip
  BY AccountsAssumption
<1>4. /\ LoggingIn(i, r) \in LoginJob /\ LoggingIn(i, r) \in Job
      /\ LoggingIn(i, r).next = "updatePlayerLastLogin" /\ LoggingIn(i, r).pid = i
      /\ LoggingIn(i, r).nick = r.nick /\ LoggingIn(i, r).password = r.password
  BY <1>2, <1>3 DEF LoggingIn, LoginJob, Job
<1>5. job'[t] = LoggingIn(i, r) /\ Quiet(t)
  BY <1>1, <1>4 DEF Quiet, Others, TypeOK
<1>6. QED
  BY <1>1, <1>2, <1>4, <1>5 DEF At, RowIsOwn

LEMMA RowReplaced ==
  ASSUME NEW s \in Seq(Player), NEW i \in 1 .. Len(s), NEW r \in Player
  PROVE  /\ [s EXCEPT ![i] = r] \in Seq(Player) /\ Len([s EXCEPT ![i] = r]) = Len(s)
         /\ \A k \in 1 .. Len(s) : k # i => [s EXCEPT ![i] = r][k] = s[k]
         /\ [s EXCEPT ![i] = r][i] = r
  BY ExceptSeq

LEMMA StepLastLogin ==
  ASSUME TypeOK, NEW t \in Thread, LastLogin(t)
  PROVE  /\ Over(t) /\ UNCHANGED <<stats, told>> /\ At(t, "updatePlayerLastLogin")
         /\ job[t].pid \in ProfileId
         /\ players' \in Seq(Player) /\ ProfileId' = ProfileId
         /\ \A i \in ProfileId :
              /\ players'[i].userid = players[i].userid
              /\ players'[i].uniquenick = players[i].uniquenick
              /\ players'[i].email = players[i].email
              /\ players'[i].password = players[i].password
              /\ i # job[t].pid => players'[i] = players[i]
<1> DEFINE i == job[t].pid
<1>1. /\ At(t, "updatePlayerLastLogin") /\ UNCHANGED <<stats, told>>
      /\ players' = [players EXCEPT ![i].last_login_ip = job[t].ip]
      /\ job' = [job EXCEPT ![t] = NoJob]
  BY DEF LastLogin, updatePlayerLastLogin
<1>2. Over(t)
  BY <1>1 DEF Over, Others, TypeOK, Job
<1>3. job[t] \in LoginJob /\ i \in ProfileId
  BY <1>1, FieldsOfJobs DEF TypeOK, At
<1>4. job[t].ip \in Ip
  BY <1>3 DEF LoginJob
<1>5. players \in Seq(Player) /\ players[i] \in Player /\ i \in 1 .. Len(players)
  BY <1>3, PlayersAre DEF TypeOK
<1>6. [players[i] EXCEPT !.last_login_ip = job[t].ip] \in Player
  BY <1>4, <1>5 DEF Player
<1>7. players' = [players EXCEPT ![i] = [players[i] EXCEPT !.last_login_ip = job[t].ip]]
  BY <1>1
<1>8. /\ players' \in Seq(Player) /\ Len(players') = Len(players)
      /\ \A k \in 1 .. Len(players) : k # i => players'[k] = players[k]
      /\ players'[i] = [players[i] EXCEPT !.last_login_ip = job[t].ip]
  BY <1>5, <1>6, <1>7, RowReplaced
<1>9. ProfileId' = ProfileId /\ ProfileId = 1 .. Len(players)
  BY <1>5, <1>8 DEF ProfileId
<1>10. /\ players'[i].userid = players[i].userid
       /\ players'[i].uniquenick = players[i].uniquenick
       /\ players'[i].email = players[i].email
       /\ players'[i].password = players[i].password
  BY <1>5, <1>8 DEF Player
<1>11. QED
  BY <1>1, <1>2, <1>3, <1>8, <1>9, <1>10

LEMMA StepBar ==
  ASSUME TypeOK, Bar
  PROVE  /\ UNCHANGED <<stats, job, told>>
         /\ players' \in Seq(Player) /\ ProfileId' = ProfileId
         /\ \A i \in ProfileId :
              /\ players'[i].userid = players[i].userid
              /\ players'[i].uniquenick = players[i].uniquenick
              /\ players'[i].email = players[i].email
              /\ players'[i].password = players[i].password
              /\ players'[i].last_login_ip = players[i].last_login_ip
<1>1. PICK i \in ProfileId : players' = [players EXCEPT ![i].verified = FALSE]
  BY DEF Bar
<1>2. UNCHANGED <<stats, job, told>>
  BY DEF Bar
<1>3. players \in Seq(Player) /\ players[i] \in Player /\ i \in 1 .. Len(players)
  BY <1>1, PlayersAre DEF TypeOK
<1>4. [players[i] EXCEPT !.verified = FALSE] \in Player
  BY <1>3 DEF Player
<1>5. players' = [players EXCEPT ![i] = [players[i] EXCEPT !.verified = FALSE]]
  BY <1>1
<1>6. /\ players' \in Seq(Player) /\ Len(players') = Len(players)
      /\ \A k \in 1 .. Len(players) : k # i => players'[k] = players[k]
      /\ players'[i] = [players[i] EXCEPT !.verified = FALSE]
  <2> DEFINE r == [players[i] EXCEPT !.verified = FALSE]
  <2>1. r \in Player /\ players' = [players EXCEPT ![i] = r]
    BY <1>4, <1>5
  <2> HIDE DEF r
  <2>2. /\ players' \in Seq(Player) /\ Len(players') = Len(players)
        /\ \A k \in 1 .. Len(players) : k # i => players'[k] = players[k]
        /\ players'[i] = r
    BY <1>3, <2>1, RowReplaced
  <2>3. QED
    BY <2>2 DEF r
<1>7. ProfileId' = ProfileId /\ ProfileId = 1 .. Len(players)
  BY <1>3, <1>6 DEF ProfileId
<1>8. /\ players'[i].userid = players[i].userid
      /\ players'[i].uniquenick = players[i].uniquenick
      /\ players'[i].email = players[i].email
      /\ players'[i].password = players[i].password
      /\ players'[i].last_login_ip = players[i].last_login_ip
  BY <1>3, <1>6 DEF Player
<1>9. QED
  BY <1>2, <1>6, <1>7, <1>8

-----------------------------------------------------------------------------
(***************************************************************************)
(* What every step keeps.                                                  *)
(***************************************************************************)
\* A step of a thread.
Moves(t) == Step(t) \/ Failure(t) \/ NewUserBlindly(t)

\* A step of a thread, with what Next makes it note at least.
Recorded(t) ==
  /\ noted \subseteq noted'
  /\ \/ Step(t)
     \/ Failure(t) /\ Spoiled(t) \subseteq noted'
     \/ NewUserBlindly(t) /\ <<"nick", job'[t].nick>> \in noted'

LEMMA RecordedMoves ==
  ASSUME NEW t \in Thread, Recorded(t)
  PROVE  Moves(t) /\ noted \subseteq noted'
  BY DEF Recorded, Moves

LEMMA RacesTypes ==
  ASSUME job' \in [Thread -> Job]
  PROVE  Races' \subseteq ({"nick"} \X Nick) \union ({"userid", "pid"} \X Int)
<1>1. \A t \in Thread : Choosing(t)' => job'[t] \in RegistrationJob
  BY FieldsOfJobs DEF Choosing
<1>2. \A t \in Thread : Holding(t)' => job'[t] \in RegistrationJob
  BY FieldsOfJobs DEF Holding, At
<1>3. \A j \in RegistrationJob : j.nick \in Nick /\ j.userid \in Int
  BY DEF RegistrationJob
<1>4. QED
  BY <1>1, <1>2, <1>3 DEF Races

LEMMA SpoiledTypes ==
  ASSUME job \in [Thread -> Job], NEW t \in Thread
  PROVE  /\ Spoiled(t) \subseteq ({"nick"} \X Nick) \union ({"userid", "pid"} \X Int)
         /\ Interrupted(t) \subseteq ({"nick"} \X Nick) \union ({"userid", "pid"} \X Int)
<1>1. job[t].next \in {"insertPlayer", "insertPlayerStats"} => job[t].pid \in Int
  BY FieldsOfJobs DEF RegistrationJob
<1>2. QED
  BY <1>1 DEF Spoiled, Interrupted, At

\* What races means for two handlers.
LEMMA RacesMean ==
  ASSUME RacesNoted, NEW t \in Thread, NEW u \in Thread, t # u
  PROVE  /\ Choosing(t) /\ Choosing(u) /\ job[t].nick = job[u].nick
              => <<"nick", job[t].nick>> \in noted
         /\ Holding(t) /\ Holding(u) => <<"userid", job[t].userid>> \in noted
  BY DEF RacesNoted, Races

\* The step of a thread ends in these rows, these answers and this job.
LEMMA Shapes ==
  ASSUME TypeOK, NEW t \in Thread, Moves(t)
  PROVE  /\ job' \in [Thread -> Job] /\ Others(t)
         /\ players' \in Seq(Player) /\ ProfileId \subseteq ProfileId'
         /\ \A i \in ProfileId :
              /\ players'[i].userid = players[i].userid
              /\ players'[i].uniquenick = players[i].uniquenick
              /\ players'[i].email = players[i].email
              /\ players'[i].password = players[i].password
         /\ stats \subseteq stats' /\ stats' \subseteq ProfileId'
         /\ told' \subseteq [pid : Int, nick : Nick, email : Email]
         /\ At(t, "updatePlayerLastLogin")' => job'[t].pid \in ProfileId'
<1>1. CASE NewUser(t)
  BY <1>1, StepNewUser DEF Quiet, TypeOK, At, Choosing, ProfileId
<1>2. CASE NewUserBlindly(t)
  BY <1>2, StepNewUserBlindly DEF Quiet, TypeOK, At, ProfileId
<1>3. CASE NewUserID(t)
  BY <1>3, StepNewUserID DEF Quiet, GoesOn, TypeOK, At, ProfileId
<1>4. CASE NewUserIDFails(t)
  BY <1>4, StepNewUserIDFails DEF Quiet, GoesOn, TypeOK, At, ProfileId
<1>5. CASE InsertPlayer(t)
  BY <1>5, StepInsertPlayer DEF GoesOn, TypeOK, At, ProfileId
<1>6. CASE InsertPlayerFails(t)
  BY <1>6, StepInsertPlayerFails DEF Quiet, GoesOn, TypeOK, At, ProfileId
<1>7. CASE InsertPlayerStats(t)
  BY <1>7, StepAnswer DEF InsertPlayerStats, insertPlayerStats, Over, TypeOK, At, NoJob, ProfileId
<1>8. CASE InsertPlayerStatsFails(t)
  BY <1>8, StepAnswer DEF InsertPlayerStatsFails, Over, TypeOK, At, NoJob, ProfileId
<1>9. CASE Login(t)
  BY <1>9, StepLogin DEF Quiet, TypeOK, ProfileId
<1>10. CASE LastLogin(t)
  BY <1>10, StepLastLogin DEF Over, TypeOK, At, NoJob, ProfileId
<1>11. CASE LastLoginFails(t)
  BY <1>11 DEF LastLoginFails, Others, TypeOK, Job, At, NoJob, ProfileId
<1>12. QED
  BY <1>1, <1>2, <1>3, <1>4, <1>5, <1>6, <1>7, <1>8, <1>9, <1>10, <1>11
  DEF Moves, Step, Failure

LEMMA TypesKept ==
  ASSUME TypeOK, NEW t \in Thread, Moves(t),
         noted' \subseteq ({"nick"} \X Nick) \union ({"userid", "pid"} \X Int)
  PROVE  TypeOK'
<1>1. \A u \in Thread : At(u, "updatePlayerLastLogin")' => job'[u].pid \in ProfileId'
  BY Shapes DEF Others, At, TypeOK
<1>2. QED
  BY <1>1, Shapes DEF TypeOK

\* Only an insertion adds a row.
LEMMA RowsOnlyInserted ==
  ASSUME TypeOK, NEW t \in Thread, Moves(t)
  PROVE  InsertPlayer(t) \/ ProfileId' = ProfileId
<1>1. NewUser(t) \/ NewUserBlindly(t) \/ NewUserID(t) \/ NewUserIDFails(t)
        \/ InsertPlayerFails(t) \/ InsertPlayerStats(t) \/ InsertPlayerStatsFails(t)
        \/ Login(t) \/ LastLoginFails(t) => UNCHANGED players
  BY DEF NewUser, NewUserBlindly, NewUserID, NewUserIDFails, InsertPlayerFails,
         InsertPlayerStats, InsertPlayerStatsFails, Login, LastLoginFails
<1>2. LastLogin(t) => ProfileId' = ProfileId
  BY StepLastLogin
<1>3. QED
  BY <1>1, <1>2 DEF Moves, Step, Failure, ProfileId

\* What a row says of a handler, it goes on saying.
LEMMA RowsKept ==
  ASSUME TypeOK, NEW t \in Thread, Moves(t), noted \subseteq noted', NEW j \in Job
  PROVE  /\ \A i \in ProfileId : CopiedFrom(j, i) => CopiedFrom(j, i)'
         /\ RowIsThere(j) => RowIsThere(j)'
         /\ j.pid \in ProfileId /\ RowIsOwn(j) => RowIsOwn(j)'
<1>1. /\ ProfileId \subseteq ProfileId'
      /\ \A i \in ProfileId :
           /\ players'[i].userid = players[i].userid
           /\ players'[i].uniquenick = players[i].uniquenick
           /\ players'[i].email = players[i].email
           /\ players'[i].password = players[i].password
  BY Shapes
<1>2. QED
  BY <1>1 DEF CopiedFrom, RowIsThere, RowIsOwn

LEMMA NicksNext ==
  ASSUME IInv, NEW t \in Thread, Moves(t), noted \subseteq noted'
  PROVE  UniqueNicksDiffer'
<1>1. TypeOK /\ UniqueNicksDiffer
  BY DEF IInv
<1>2. CASE ProfileId' = ProfileId
  BY <1>1, <1>2, Shapes DEF UniqueNicksDiffer
<1>3. CASE InsertPlayer(t)
  <2>1. Holding(t) /\ NickIsFree(job[t])
    BY <1>1, <1>3, StepInsertPlayer DEF IInv, Relies, Holding, Choosing, At
  <2>2. players'[Len(players) + 1].uniquenick = job[t].nick
    BY <1>1, <1>3, StepInsertPlayer, NewPlayerIs
  <2>3. /\ ProfileId' = ProfileId \union {Len(players) + 1}
        /\ \A i \in ProfileId : players'[i] = players[i]
    BY <1>1, <1>3, StepInsertPlayer
  <2>4. QED
    BY <1>1, <2>1, <2>2, <2>3 DEF UniqueNicksDiffer, NickIsFree
<1>4. QED
  BY <1>1, <1>2, <1>3, RowsOnlyInserted

LEMMA IdsNext ==
  ASSUME IInv, NEW t \in Thread, Moves(t), noted \subseteq noted'
  PROVE  UserIdsDiffer'
<1>1. TypeOK /\ UserIdsDiffer
  BY DEF IInv
<1>2. ProfileId = 1 .. Len(players) /\ Len(players) \in Nat
  BY <1>1, PlayersAre
<1>3. SUFFICES ASSUME NEW k \in ProfileId', <<"userid", players'[k].userid>> \notin noted',
                      NEW i \in 1 .. k - 1, players'[i].userid = players'[k].userid
               PROVE  \E m \in 1 .. k - 1 :
                        /\ players'[m].userid = players'[k].userid
                        /\ \E p \in Password :
                             players'[m].password = p /\ players'[k].password = Hash[p]
                        /\ \/ players'[m].email = players'[k].email
                           \/ \E n \in Nick : Cut[n] = players'[k].uniquenick
                                                /\ Fold[n] = Fold[players'[m].uniquenick]
  BY DEF UserIdsDiffer
<1>4. CASE k \in ProfileId
  <2>1. \A m \in 1 .. k : m \in ProfileId
    BY <1>2, <1>4
  <2>2. /\ i \in ProfileId /\ <<"userid", players[k].userid>> \notin noted
        /\ players[i].userid = players[k].userid
    <3>1. i \in ProfileId
      BY <1>2, <1>4, <2>1
    <3>2. players'[i].userid = players[i].userid /\ players'[k].userid = players[k].userid
      BY <1>1, <1>4, <3>1, Shapes
    <3>3. QED
      BY <1>3, <3>1, <3>2
  <2>3. PICK m \in 1 .. k - 1 :
          /\ players[m].userid = players[k].userid
          /\ \E p \in Password : players[m].password = p /\ players[k].password = Hash[p]
          /\ \/ players[m].email = players[k].email
             \/ \E n \in Nick : Cut[n] = players[k].uniquenick
                                  /\ Fold[n] = Fold[players[m].uniquenick]
    BY <1>1, <1>4, <2>2 DEF UserIdsDiffer
  <2>4. m \in ProfileId
    BY <1>2, <1>4, <2>1
  <2>5. /\ players'[m].userid = players[m].userid /\ players'[k].userid = players[k].userid
        /\ players'[m].password = players[m].password
        /\ players'[k].password = players[k].password
        /\ players'[m].email = players[m].email /\ players'[k].email = players[k].email
        /\ players'[m].uniquenick = players[m].uniquenick
        /\ players'[k].uniquenick = players[k].uniquenick
    BY <1>1, <1>4, <2>4, Shapes
  <2>6. QED
    BY <2>3, <2>5
<1>5. CASE k \notin ProfileId
  <2>1. InsertPlayer(t)
    BY <1>1, <1>3, <1>5, RowsOnlyInserted
  <2>2. /\ ProfileId' = ProfileId \union {Len(players) + 1}
        /\ \A m \in ProfileId : players'[m] = players[m]
        /\ k = Len(players) + 1 /\ players'[k] = NewPlayer(job[t])
    BY <1>1, <1>3, <1>5, <2>1, StepInsertPlayer
  <2>3. /\ players'[k].userid = job[t].userid /\ players'[k].email = job[t].email
        /\ players'[k].password = job[t].password /\ players'[k].uniquenick = job[t].nick
    BY <2>2 DEF NewPlayer
  <2>4. IdIsOwn(job[t])
    BY <1>1, <2>1, StepInsertPlayer DEF IInv, Relies
  <2>5. i \in ProfileId /\ players[i].userid = job[t].userid
    <3>1. i \in ProfileId
      BY <1>2, <2>2
    <3>2. QED
      BY <1>3, <2>2, <2>3, <3>1
  <2>6. PICK m \in ProfileId : CopiedFrom(job[t], m)
    BY <1>3, <2>3, <2>4, <2>5 DEF IdIsOwn
  <2>7. m \in 1 .. k - 1 /\ players'[m] = players[m]
    BY <1>2, <2>2
  <2>8. QED
    BY <2>3, <2>6, <2>7 DEF CopiedFrom
<1>6. QED
  BY <1>4, <1>5

LEMMA StatsNext ==
  ASSUME IInv, NEW t \in Thread, Recorded(t)
  PROVE  StatsForEveryPlayer'
<1>1. TypeOK /\ StatsForEveryPlayer /\ Moves(t) /\ noted \subseteq noted'
  BY RecordedMoves DEF IInv
<1>2. SUFFICES ASSUME NEW i \in ProfileId', i \notin stats', <<"pid", i>> \notin noted'
               PROVE  \E u \in Thread : At(u, "insertPlayerStats")' /\ job'[u].pid = i
  BY DEF StatsForEveryPlayer
<1>3. CASE i \notin ProfileId
  <2>1. InsertPlayer(t)
    BY <1>1, <1>2, <1>3, RowsOnlyInserted
  <2>2. QED
    BY <1>1, <1>2, <1>3, <2>1, StepInsertPlayer DEF GoesOn, At
<1>4. CASE i \in ProfileId
  <2>1. PICK u \in Thread : At(u, "insertPlayerStats") /\ job[u].pid = i
    BY <1>1, <1>2, <1>4, Shapes DEF StatsForEveryPlayer
  <2>2. CASE u # t
    BY <1>1, <2>1, <2>2, Shapes DEF Others, At
  <2>3. CASE u = t
    <3>1. \/ InsertPlayerStats(t)
          \/ InsertPlayerStatsFails(t) /\ Spoiled(t) \subseteq noted'
      <4>1. ~ NewUser(t) /\ ~ NewUserBlindly(t) /\ ~ Login(t)
        BY <2>1, <2>3 DEF NewUser, NewUserBlindly, Login, At, NoJob
      <4>2. /\ ~ NewUserID(t) /\ ~ NewUserIDFails(t) /\ ~ InsertPlayer(t)
            /\ ~ InsertPlayerFails(t) /\ ~ LastLogin(t) /\ ~ LastLoginFails(t)
        BY <2>1, <2>3 DEF NewUserID, NewUserIDFails, InsertPlayer, InsertPlayerFails, LastLogin,
           LastLoginFails, At
      <4>3. QED
        BY <4>1, <4>2 DEF Recorded, Step, Failure
    <3>2. CASE InsertPlayerStats(t)
      BY <1>2, <1>4, <2>1, <2>3, <3>2 DEF InsertPlayerStats, insertPlayerStats
    <3>3. CASE Spoiled(t) \subseteq noted'
      BY <1>2, <2>1, <2>3, <3>3 DEF Spoiled, At
    <3>4. QED
      BY <3>1, <3>2, <3>3
  <2>4. QED
    BY <2>2, <2>3
<1>5. QED
  BY <1>3, <1>4

LEMMA AnswersNext ==
  ASSUME IInv, NEW t \in Thread, Moves(t), noted \subseteq noted'
  PROVE  AnswersAreTrue'
<1>1. TypeOK /\ AnswersAreTrue
  BY DEF IInv
<1>2. \A a \in told :
        \/ /\ a.pid \in ProfileId'
           /\ players'[a.pid].uniquenick = a.nick /\ players'[a.pid].email = a.email
        \/ a.pid = -1 /\ <<"pid", -1>> \in noted'
  BY <1>1, Shapes DEF AnswersAreTrue
<1>3. CASE told' = told
  BY <1>2, <1>3 DEF AnswersAreTrue
<1>4. CASE At(t, "insertPlayerStats") /\ Answer(t) /\ UNCHANGED players
  <2>1. told' = told \union {[pid |-> job[t].pid, nick |-> job[t].nick, email |-> job[t].email]}
    BY <1>1, <1>4, StepAnswer
  <2>2. RowIsThere(job[t])
    BY <1>4 DEF IInv, Relies
  <2>3. ProfileId' = ProfileId
    BY <1>4 DEF ProfileId
  <2>4. QED
    BY <1>2, <1>4, <2>1, <2>2, <2>3 DEF AnswersAreTrue, RowIsThere
<1>5. QED
  BY <1>3, <1>4 DEF Moves, Step, Failure, NewUser, NewUserBlindly, NewUserID, NewUserIDFails,
     InsertPlayer, InsertPlayerFails, InsertPlayerStats, InsertPlayerStatsFails, Login,
     LastLogin, LastLoginFails

\* The other handlers go on as they could before.
LEMMA OthersRely ==
  ASSUME IInv, NEW t \in Thread, Moves(t), noted \subseteq noted', NEW u \in Thread, u # t
  PROVE  Relies(u)'
<1>1. TypeOK /\ RacesNoted /\ Relies(u)
  BY DEF IInv
<1>2. job'[u] = job[u] /\ job[u] \in Job
  BY <1>1, Shapes DEF Others, TypeOK
<1>3. Choosing(u) /\ NickIsFree(job[u]) => NickIsFree(job[u])'
  <2>1. CASE ProfileId' = ProfileId
    BY <1>1, <1>2, <2>1, Shapes DEF NickIsFree
  <2>2. CASE InsertPlayer(t)
    <3>1. /\ Choosing(t) /\ ProfileId' = ProfileId \union {Len(players) + 1}
          /\ \A i \in ProfileId : players'[i] = players[i]
          /\ players'[Len(players) + 1].uniquenick = job[t].nick
      BY <1>1, <2>2, StepInsertPlayer, NewPlayerIs DEF Choosing, Holding, At
    <3>2. Choosing(u) /\ job[t].nick = job[u].nick => <<"nick", job[u].nick>> \in noted
      BY <1>1, <3>1, RacesMean
    <3>3. QED
      BY <1>2, <3>1, <3>2 DEF NickIsFree
  <2>3. QED
    BY <1>1, <2>1, <2>2, RowsOnlyInserted
<1>4. Holding(u) /\ IdIsOwn(job[u]) => IdIsOwn(job[u])'
  <2>1. (\E i \in ProfileId : CopiedFrom(job[u], i))
          => (\E i \in ProfileId' : CopiedFrom(job[u], i)')
    BY <1>1, <1>2, RowsKept, Shapes
  <2>2. CASE ProfileId' = ProfileId
    BY <1>1, <1>2, <2>1, <2>2, Shapes DEF IdIsOwn
  <2>3. CASE InsertPlayer(t)
    <3>1. Holding(t)
      BY <1>1, <2>3, StepInsertPlayer
    <3>2. Holding(u) => <<"userid", job[u].userid>> \in noted
      BY <1>1, <3>1, RacesMean
    <3>3. QED
      BY <1>2, <3>2 DEF IdIsOwn
  <2>4. QED
    BY <1>1, <2>2, <2>3, RowsOnlyInserted
<1>5. RowIsThere(job[u]) => RowIsThere(job[u])'
  BY <1>1, <1>2, RowsKept
<1>6. At(u, "updatePlayerLastLogin") /\ RowIsOwn(job[u]) => RowIsOwn(job[u])'
  BY <1>1, <1>2, RowsKept DEF TypeOK
<1>7. QED
  BY <1>1, <1>2, <1>3, <1>4, <1>5, <1>6 DEF Relies, Choosing, Holding, At

\* The handler that takes the step can rely on what it has just read.
LEMMA ItselfRelies ==
  ASSUME IInv, NEW t \in Thread, Recorded(t)
  PROVE  Relies(t)'
<1>1. TypeOK /\ RacesNoted /\ Relies(t) /\ noted \subseteq noted'
  BY RecordedMoves DEF IInv
<1>2. CASE NewUser(t)
  <2>1. /\ Quiet(t) /\ Choosing(t)' /\ job'[t].pid = -1
        /\ \/ <<"nick", job'[t].nick>> \in Cropped
           \/ \A i \in ProfileId : players[i].uniquenick # job'[t].nick
        /\ At(t, "queryPlayerNewUserID")' => job'[t].userid = -1
        /\ Holding(t)' => \E i \in ProfileId : CopiedFrom(job'[t], i)
    BY <1>1, <1>2, StepNewUser
  <2>2. NickIsFree(job[t])'
    BY <1>1, <2>1 DEF NickIsFree, Quiet, RacesNoted, ProfileId
  <2>3. Holding(t)' => IdIsOwn(job[t])'
    BY <2>1 DEF IdIsOwn, CopiedFrom, Quiet, ProfileId
  <2>4. QED
    BY <2>1, <2>2, <2>3 DEF Relies, Choosing, At
<1>3. CASE NewUserBlindly(t) /\ <<"nick", job'[t].nick>> \in noted'
  BY <1>1, <1>3, StepNewUserBlindly DEF Relies, Choosing, Holding, At, NickIsFree
<1>4. CASE NewUserID(t)
  <2>1. /\ Quiet(t) /\ At(t, "queryPlayerNewUserID") /\ GoesOn(t, "insertPlayer")
        /\ job'[t].pid = job[t].pid
        /\ \A i \in ProfileId : players[i].userid # job'[t].userid
    BY <1>1, <1>4, StepNewUserID
  <2>2. NickIsFree(job[t]) /\ job[t].pid = -1
    BY <1>1, <2>1 DEF Relies, Choosing, At
  <2>3. NickIsFree(job[t])'
    <3>1. job'[t].nick = job[t].nick /\ players' = players /\ noted \subseteq noted'
      BY <1>1, <2>1 DEF Quiet, GoesOn
    <3>2. QED
      BY <2>2, <3>1 DEF NickIsFree, ProfileId
  <2>4. IdIsOwn(job[t])'
    BY <2>1 DEF IdIsOwn, Quiet, ProfileId
  <2>5. QED
    BY <2>1, <2>2, <2>3, <2>4 DEF Relies, GoesOn, At
<1>5. CASE NewUserIDFails(t) /\ Spoiled(t) \subseteq noted'
  <2>1. /\ Quiet(t) /\ At(t, "queryPlayerNewUserID") /\ GoesOn(t, "insertPlayer")
        /\ job'[t].pid = job[t].pid /\ job'[t].userid = job[t].userid
    BY <1>1, <1>5, StepNewUserIDFails
  <2>2. NickIsFree(job[t]) /\ job[t].pid = -1 /\ job[t].userid = -1
    BY <1>1, <2>1 DEF Relies, Choosing, At
  <2>3. NickIsFree(job[t])'
    <3>1. job'[t].nick = job[t].nick /\ players' = players /\ noted \subseteq noted'
      BY <1>1, <2>1 DEF Quiet, GoesOn
    <3>2. QED
      BY <2>2, <3>1 DEF NickIsFree, ProfileId
  <2>4. IdIsOwn(job[t])'
    BY <1>5, <2>1, <2>2 DEF IdIsOwn, Spoiled, At
  <2>5. QED
    BY <2>1, <2>2, <2>3, <2>4 DEF Relies, GoesOn, At
<1>6. CASE InsertPlayer(t)
  <2>1. /\ GoesOn(t, "insertPlayerStats") /\ job'[t].pid = Len(players) + 1
        /\ Len(players) + 1 \in ProfileId'
        /\ players'[Len(players) + 1].uniquenick = job[t].nick
        /\ players'[Len(players) + 1].email = job[t].email
    BY <1>1, <1>6, StepInsertPlayer, NewPlayerIs
  <2>2. RowIsThere(job[t])'
    BY <2>1 DEF RowIsThere, GoesOn
  <2>3. QED
    BY <2>1, <2>2 DEF Relies, GoesOn, Choosing, Holding, At
<1>7. CASE InsertPlayerFails(t) /\ Spoiled(t) \subseteq noted'
  <2>1. /\ Quiet(t) /\ Holding(t) /\ GoesOn(t, "insertPlayerStats")
        /\ job'[t].pid = job[t].pid
    BY <1>1, <1>7, StepInsertPlayerFails
  <2>2. job[t].pid = -1
    BY <1>1, <2>1 DEF Relies, Choosing, Holding, At
  <2>3. RowIsThere(job[t])'
    BY <1>7, <2>1, <2>2 DEF RowIsThere, Spoiled, Holding, At
  <2>4. QED
    BY <2>1, <2>3 DEF Relies, GoesOn, Choosing, Holding, At
<1>8. CASE InsertPlayerStats(t) \/ InsertPlayerStatsFails(t)
  BY <1>1, <1>8, StepAnswer
  DEF InsertPlayerStats, InsertPlayerStatsFails, Over, NoJob, Relies, Choosing, Holding, At
<1>9. CASE Login(t)
  <2>1. Quiet(t) /\ At(t, "updatePlayerLastLogin")' /\ RowIsOwn(job'[t])
    BY <1>1, <1>9, StepLogin
  <2>2. RowIsOwn(job[t])'
    BY <2>1 DEF RowIsOwn, Quiet
  <2>3. QED
    BY <2>1, <2>2 DEF Relies, Choosing, Holding, At
<1>10. CASE LastLogin(t)
  BY <1>1, <1>10, StepLastLogin DEF Over, NoJob, Relies, Choosing, Holding, At
<1>11. CASE LastLoginFails(t)
  BY <1>1, <1>11 DEF LastLoginFails, NoJob, Relies, Choosing, Holding, At, TypeOK
<1>12. QED
  BY <1>2, <1>3, <1>4, <1>5, <1>6, <1>7, <1>8, <1>9, <1>10, <1>11 DEF Recorded, Step, Failure

LEMMA MovesKeep ==
  ASSUME IInv, NEW t \in Thread, Recorded(t), Races' \subseteq noted',
         noted' \subseteq ({"nick"} \X Nick) \union ({"userid", "pid"} \X Int)
  PROVE  IInv'
<1>0. Moves(t) /\ noted \subseteq noted'
  BY RecordedMoves
<1>1. TypeOK'
  BY <1>0, TypesKept DEF IInv
<1>2. RacesNoted'
  BY <1>0 DEF IInv, RacesNoted, Cropped
<1>3. \A u \in Thread : Relies(u)'
  BY <1>0, ItselfRelies, OthersRely
<1>4. UniqueNicksDiffer' /\ UserIdsDiffer' /\ StatsForEveryPlayer' /\ AnswersAreTrue'
  BY <1>0, NicksNext, IdsNext, StatsNext, AnswersNext
<1>5. QED
  BY <1>1, <1>2, <1>3, <1>4 DEF IInv

\* A step that keeps the handlers and the columns they are about keeps IInv.
LEMMA BarKeeps ==
  ASSUME IInv, Bar, noted' = noted \union Races'
  PROVE  IInv'
<1>1. /\ UNCHANGED <<stats, job, told>>
      /\ players' \in Seq(Player) /\ ProfileId' = ProfileId
      /\ \A i \in ProfileId :
           /\ players'[i].userid = players[i].userid
           /\ players'[i].uniquenick = players[i].uniquenick
           /\ players'[i].email = players[i].email
           /\ players'[i].password = players[i].password
  BY StepBar DEF IInv
<1>2. Races' = Races
  BY <1>1 DEF Races, Choosing, Holding, At
<1>3. noted' = noted
  BY <1>2 DEF IInv, RacesNoted
<1>4. TypeOK'
  BY <1>1, <1>3 DEF IInv, TypeOK, At
<1>5. RacesNoted'
  BY <1>2, <1>3 DEF IInv, RacesNoted, Cropped
<1>6. \A t \in Thread : Relies(t)'
  <2>1. TAKE t \in Thread
  <2>2. Relies(t)
    BY DEF IInv
  <2>3. NickIsFree(job[t]) => NickIsFree(job[t])'
    BY <1>1, <1>3 DEF NickIsFree
  <2>4. IdIsOwn(job[t]) => IdIsOwn(job[t])'
    BY <1>1, <1>3 DEF IdIsOwn, CopiedFrom
  <2>5. RowIsThere(job[t]) => RowIsThere(job[t])'
    BY <1>1, <1>3 DEF RowIsThere
  <2>6. At(t, "updatePlayerLastLogin") /\ RowIsOwn(job[t]) => RowIsOwn(job[t])'
    BY <1>1 DEF RowIsOwn, IInv, TypeOK
  <2>7. QED
    BY <1>1, <2>2, <2>3, <2>4, <2>5, <2>6 DEF Relies, Choosing, Holding, At
<1>7. UniqueNicksDiffer' /\ StatsForEveryPlayer' /\ AnswersAreTrue'
  BY <1>1, <1>3 DEF IInv, UniqueNicksDiffer, StatsForEveryPlayer, AnswersAreTrue, At
<1>8. UserIdsDiffer'
  <2>1. \A k \in ProfileId : \A i \in 1 .. k - 1 : i \in ProfileId
    BY PlayersAre DEF IInv
  <2>2. SUFFICES ASSUME NEW k \in ProfileId
                 PROVE  \/ <<"userid", players'[k].userid>> \in noted
                        \/ \A i \in 1 .. k - 1 : players'[i].userid # players'[k].userid
                        \/ \E i \in 1 .. k - 1 :
                             /\ players'[i].userid = players'[k].userid
                             /\ \E p \in Password :
                                  players'[i].password = p /\ players'[k].password = Hash[p]
                             /\ \/ players'[i].email = players'[k].email
                                \/ \E n \in Nick : Cut[n] = players'[k].uniquenick
                                                     /\ Fold[n] = Fold[players'[i].uniquenick]
    BY <1>1, <1>3 DEF UserIdsDiffer
  <2>3. /\ players'[k].userid = players[k].userid /\ players'[k].email = players[k].email
        /\ players'[k].password = players[k].password
        /\ players'[k].uniquenick = players[k].uniquenick
    BY <1>1
  <2>4. \A i \in 1 .. k - 1 :
          /\ players'[i].userid = players[i].userid /\ players'[i].email = players[i].email
          /\ players'[i].password = players[i].password
          /\ players'[i].uniquenick = players[i].uniquenick
    BY <1>1, <2>1
  <2>5. QED
    BY <2>3, <2>4 DEF IInv, UserIdsDiffer
<1>9. QED
  BY <1>4, <1>5, <1>6, <1>7, <1>8 DEF IInv

LEMMA CrashKeeps ==
  ASSUME IInv, Crash, noted' = noted \union UNION {Interrupted(t) : t \in Thread}
  PROVE  IInv'
<1>1. /\ job' = [t \in Thread |-> NoJob] /\ UNCHANGED <<players, stats, told>>
      /\ noted \subseteq noted'
  BY DEF Crash
<1>2. \A t \in Thread : job'[t] = NoJob
  BY <1>1
<1>3. \A t \in Thread : ~ Choosing(t)' /\ ~ Holding(t)'
  BY <1>2 DEF Choosing, Holding, At, NoJob
<1>4. TypeOK'
  <2>1. noted' \subseteq ({"nick"} \X Nick) \union ({"userid", "pid"} \X Int)
    BY SpoiledTypes DEF IInv, TypeOK
  <2>2. job' \in [Thread -> Job]
    BY <1>1 DEF Job
  <2>3. QED
    BY <1>1, <1>2, <2>1, <2>2 DEF IInv, TypeOK, At, NoJob, ProfileId
<1>5. RacesNoted'
  BY <1>1, <1>3 DEF IInv, RacesNoted, Cropped, Races
<1>6. \A t \in Thread : Relies(t)'
  BY <1>2, <1>3 DEF Relies, At, NoJob
<1>7. UniqueNicksDiffer' /\ AnswersAreTrue' /\ UserIdsDiffer'
  BY <1>1 DEF IInv, UniqueNicksDiffer, AnswersAreTrue, UserIdsDiffer, ProfileId
<1>8. StatsForEveryPlayer'
  <2>1. \A t \in Thread : At(t, "insertPlayerStats") => <<"pid", job[t].pid>> \in noted'
    BY DEF Interrupted
  <2>2. QED
    BY <1>1, <2>1 DEF IInv, StatsForEveryPlayer, ProfileId
<1>9. QED
  BY <1>4, <1>5, <1>6, <1>7, <1>8 DEF IInv

LEMMA InitHolds == Init => IInv
<1> SUFFICES ASSUME Init PROVE IInv
  OBVIOUS
<1>1. players = <<>> /\ ProfileId = {} /\ \A t \in Thread : job[t] = NoJob
  BY DEF Init, ProfileId
<1>2. \A t \in Thread : ~ Choosing(t) /\ ~ Holding(t)
  BY <1>1 DEF Choosing, Holding, At, NoJob
<1>3. TypeOK
  BY <1>1, AccountsAssumption DEF Init, TypeOK, Job, At, NoJob, Cropped
<1>4. RacesNoted
  BY <1>2 DEF Init, RacesNoted, Races
<1>5. \A t \in Thread : Relies(t)
  BY <1>1, <1>2 DEF Relies, At, NoJob
<1>6. QED
  BY <1>1, <1>3, <1>4, <1>5
  DEF Init, IInv, UniqueNicksDiffer, UserIdsDiffer, StatsForEveryPlayer, AnswersAreTrue

LEMMA NextKeeps == IInv /\ Next => IInv'
<1> SUFFICES ASSUME IInv, Next PROVE IInv'
  OBVIOUS
<1> DEFINE T == ({"nick"} \X Nick) \union ({"userid", "pid"} \X Int)
<1>1. noted \subseteq T
  BY DEF IInv, TypeOK
<1>2. ASSUME NEW t \in Thread, Recorded(t),
             noted' \subseteq noted \union Races' \union Spoiled(t) \union
                              {<<"nick", n>> : n \in Nick},
             Races' \subseteq noted'
      PROVE  IInv'
  <2>1. Races' \subseteq T /\ Spoiled(t) \subseteq T
    <3>1. TypeOK /\ Moves(t) /\ job \in [Thread -> Job]
      BY <1>2, RecordedMoves DEF IInv, TypeOK
    <3>2. job' \in [Thread -> Job]
      BY <3>1, Shapes
    <3>3. Races' \subseteq T
      BY <3>2, RacesTypes
    <3>4. Spoiled(t) \subseteq T
      BY <3>1, SpoiledTypes
    <3>5. QED
      BY <3>3, <3>4
  <2>2. QED
    BY <1>1, <1>2, <2>1, MovesKeep
<1>3. CASE Bar /\ noted' = noted \union Races'
  BY <1>3, BarKeeps
<1>4. CASE \E t \in Thread : Step(t) /\ noted' = noted \union Races'
  <2>1. PICK t \in Thread : Step(t) /\ noted' = noted \union Races'
    BY <1>4
  <2>2. QED
    BY <1>2, <2>1 DEF Recorded
<1>5. CASE \E t \in Thread : Failure(t) /\ noted' = noted \union Races' \union Spoiled(t)
  <2>1. PICK t \in Thread : Failure(t) /\ noted' = noted \union Races' \union Spoiled(t)
    BY <1>5
  <2>2. QED
    BY <1>2, <2>1 DEF Recorded
<1>6. CASE \E t \in Thread :
         NewUserBlindly(t) /\ noted' = noted \union {<<"nick", job'[t].nick>>} \union Races'
  <2>1. PICK t \in Thread :
         NewUserBlindly(t) /\ noted' = noted \union {<<"nick", job'[t].nick>>} \union Races'
    BY <1>6
  <2>2. job'[t].nick \in Nick
    BY <2>1, StepNewUserBlindly DEF IInv, RegistrationJob
  <2>3. QED
    BY <1>2, <2>1, <2>2 DEF Recorded
<1>7. CASE Crash /\ noted' = noted \union UNION {Interrupted(t) : t \in Thread}
  BY <1>7, CrashKeeps
<1>8. QED
  BY <1>3, <1>4, <1>5, <1>6, <1>7 DEF Next

LEMMA StutterKeeps == IInv /\ UNCHANGED vars => IInv'
  BY DEF vars, IInv, TypeOK, RacesNoted, Cropped, Races, Relies, NickIsFree, IdIsOwn, CopiedFrom,
     RowIsThere, RowIsOwn, UniqueNicksDiffer, UserIdsDiffer, StatsForEveryPlayer, AnswersAreTrue,
     Choosing, Holding, At, ProfileId

LEMMA Invariance == Spec => []IInv
<1>1. IInv /\ [Next]_vars => IInv'
  BY NextKeeps, StutterKeeps
<1>2. QED
  BY InitHolds, <1>1, PTL DEF Spec

-----------------------------------------------------------------------------
(***************************************************************************)
(* The theorems.                                                           *)
(***************************************************************************)
\* Rows, jobs and answers are well typed; statistics and logins are of players
\* that exist (the tables and the handlers of gpsp/client.cpp).
THEOREM AccountTypes == Spec => []TypeOK
  BY Invariance, PTL DEF IInv

\* Without an overlap, a failed look-up or a nick too long, no two players have
\* one unique nick, although no key of table Players says so.
THEOREM NicksDiffer == Spec => []UniqueNicksDiffer
  BY Invariance, PTL DEF IInv

\* MAX(userid) + 1 is nobody else's user id unless two registrations overlap or
\* the query fails.  A later player has an earlier one's id otherwise only if it
\* was registered with the email or the nick of that player and its stored digest
\* as the password (gpsp/client.cpp:367): the email may then differ.
THEOREM IdsDiffer == Spec => []UserIdsDiffer
  BY Invariance, PTL DEF IInv

\* Only a crash or a failure in mid-registration leaves a player without statistics.
THEOREM PlayersHaveStats == Spec => []StatsForEveryPlayer
  BY Invariance, PTL DEF IInv

\* A registration is answered with the profile id of the very row it inserted.
THEOREM RegistrationsAreTold == Spec => []AnswersAreTrue
  BY Invariance, PTL DEF IInv

\* The row that requestLogin stamps is the one whose nick and password were
\* checked, however many rows came and went before updatePlayerLastLogin.
THEOREM LoginsStampTheirOwn == Spec => LastLoginIsOwn
<1> DEFINE Stamp ==
      \A i \in ProfileId :
        players'[i].last_login_ip # players[i].last_login_ip =>
          \E t \in Thread :
            /\ At(t, "updatePlayerLastLogin")
            /\ players[i].password = Hash[job[t].password]
            /\ Fold[players[i].uniquenick] = Fold[Strip[job[t].nick]]
<1>1. IInv /\ [Next]_vars => [Stamp]_vars
  <2>1. SUFFICES ASSUME IInv, Next, NEW i \in ProfileId,
                        players'[i].last_login_ip # players[i].last_login_ip
                 PROVE  \E t \in Thread :
                          /\ At(t, "updatePlayerLastLogin")
                          /\ players[i].password = Hash[job[t].password]
                          /\ Fold[players[i].uniquenick] = Fold[Strip[job[t].nick]]
    OBVIOUS
  <2>2. PICK t \in Thread : LastLogin(t)
    <3>1. ~ Bar
      BY <2>1, StepBar DEF IInv
    <3>2. ~ \E t \in Thread : InsertPlayer(t)
      BY <2>1, StepInsertPlayer DEF IInv
    <3>3. ~ Crash
      BY <2>1 DEF Crash
    <3>4. players' # players
      BY <2>1
    <3>5. \E t \in Thread : Step(t) \/ Failure(t) \/ NewUserBlindly(t)
      BY <2>1, <3>1, <3>3 DEF Next
    <3>6. QED
      BY <3>2, <3>4, <3>5 DEF Step, Failure, NewUser, NewUserBlindly, NewUserID,
         NewUserIDFails, InsertPlayerFails, InsertPlayerStats, InsertPlayerStatsFails, Login,
         LastLoginFails
  <2>3. At(t, "updatePlayerLastLogin") /\ i = job[t].pid
    <3>1. TypeOK
      BY <2>1 DEF IInv
    <3>2. /\ At(t, "updatePlayerLastLogin")
          /\ i # job[t].pid => players'[i] = players[i]
      BY <2>1, <2>2, <3>1, StepLastLogin
    <3>3. QED
      BY <2>1, <3>2
  <2>4. RowIsOwn(job[t])
    BY <2>1, <2>3 DEF IInv, Relies
  <2>5. /\ players[i].password = Hash[job[t].password]
        /\ Fold[players[i].uniquenick] = Fold[Strip[job[t].nick]]
    BY <2>3, <2>4 DEF RowIsOwn
  <2>6. QED
    BY <2>3, <2>5
<1>2. QED
  BY Invariance, <1>1, PTL DEF Spec, LastLoginIsOwn

=============================================================================
