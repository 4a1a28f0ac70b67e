---------------------------- MODULE ClansProofs ----------------------------
(***************************************************************************)
(* Proofs about Clans, for every number of players, clans, names, tags and *)
(* workers.                                                                *)
(*                                                                         *)
(* The argument.  Base (types, filled-in frames, and that a clan being     *)
(* founded is known to its founder alone) is inductive by itself.  Each of *)
(* the four invariants of the tables is inductive together with the        *)
(* conjunct of IInv that says what a handler relies on between its calls   *)
(* for it; when a second handler breaks that reliance, RacesNoted has put  *)
(* the clan, player, name or tag into noted in the same step, and when a   *)
(* failed call does, the failure has (FailureKeeps); the invariant says    *)
(* nothing of it any more.                                                 *)
(***************************************************************************)
EXTENDS Clans, TLAPS

(***************************************************************************)
(* What a step does to the handler that takes it, field by field.          *)
(***************************************************************************)
Others(w) == \A v \in Worker \ {w} : job'[v] = job[v]

Begins(w, op, next) ==
  /\ UNCHANGED tables
  /\ job[w] = NoJob
  /\ job' \in [Worker -> Job]
  /\ Others(w)
  /\ At(w, op, next)'
  /\ job'[w].from = None

\* The handler is over.
Over(w) == job' \in [Worker -> Job] /\ Others(w) /\ job'[w] = NoJob

\* The handler goes on, all it knows being what it knew.
On(w, next) ==
  /\ job' \in [Worker -> Job]
  /\ Others(w)
  /\ job'[w].op = job[w].op /\ job'[w].next = next
  /\ job'[w].me = job[w].me /\ job'[w].target = job[w].target
  /\ job'[w].clan = job[w].clan /\ job'[w].from = job[w].from
  /\ job'[w].rank = job[w].rank
  /\ job'[w].name = job[w].name /\ job'[w].tag = job[w].tag

Ends(w) == UNCHANGED tables /\ Over(w)

Continues(w, next) == UNCHANGED tables /\ On(w, next)

\* No two handlers that race for something are at work unless noted says so.
NoRaces ==
  /\ \A c \in Clan, v, w \in Worker :
       (<<"rank", c>> \notin noted /\ v # w) =>
          ~ (/\ job[v].op = "ChangeRank" /\ job[v].clan = c
             /\ job[w].op = "ChangeRank" /\ job[w].clan = c)
  /\ \A c \in Clan, v, w \in Worker : <<"close", c>> \notin noted =>
          ~ (/\ job[v].op = "Disband" /\ job[v].clan = c
             /\ job[w].op = "AddMember" /\ job[w].clan = c)
  /\ \A p \in Player, v, w \in Worker :
       (<<"enrol", p>> \notin noted /\ v # w) => ~ (Enrols(job[v], p) /\ Enrols(job[w], p))
  /\ \A x \in Name \union TagText, v, w \in Worker :
       (<<"name", x>> \notin noted /\ v # w) => ~ (Spells(job[v], x) /\ Spells(job[w], x))

\* The player has a row in the clan.
KnownIn(p, c) == p \in Player /\ c \in Clan /\ \E r \in ranks : r.player = p /\ r.clan = c

\* The player leads the clan.
Leads(p, c) == [clan |-> c, player |-> p, rank |-> Leader] \in ranks

LEMMA ClanOfPlayer ==
  ASSUME TypeOK, NEW p \in Player, NEW c \in GetSessionPlayerAndClan(p)
  PROVE  c # None => KnownIn(p, c)
  BY ClansAssumption
  DEF TypeOK, RankRow, KnownIn, GetSessionPlayerAndClan, FirstOf, queryClanByProfileId, RowsOf

LEMMA FinishIsOver ==
  ASSUME TypeOK, NEW w \in Worker, Finish(w)
  PROVE  Over(w)
  BY DEF Finish, Over, Others, TypeOK, Job, NoJob, Op, Call

LEMMA GoIsOn ==
  ASSUME TypeOK, NEW w \in Worker, NEW n \in Call, Go(w, n)
  PROVE  On(w, n)
  BY DEF Go, On, Others, TypeOK, Job

LEMMA StartCreateClan ==
  ASSUME TypeOK, NEW w \in Worker, CreateClan(w)
  PROVE  /\ Begins(w, "CreateClan", "queryClanByNameOrTag")
         /\ job'[w].me \in Player /\ job'[w].name \in Name /\ job'[w].tag \in Tag
         /\ job'[w].clan = None /\ RowsOf(job'[w].me) = {}
<1>1. PICK p \in Player, n \in Name, t \in Tag :
        /\ None \in GetSessionPlayerAndClan(p)
        /\ Begin(w, [NoJob EXCEPT !.op = "CreateClan", !.next = "queryClanByNameOrTag",
                            !.me = p, !.name = n, !.tag = t])
  BY DEF CreateClan
<1> DEFINE j == [NoJob EXCEPT !.op = "CreateClan", !.next = "queryClanByNameOrTag",
                            !.me = p, !.name = n, !.tag = t]
<1>4. /\ j \in Job
      /\ j.op = "CreateClan" /\ j.next = "queryClanByNameOrTag" /\ j.from = None
      /\ j.me = p /\ j.name = n /\ j.tag = t /\ j.clan = None
  BY DEF NoJob, Job, Op, Call, TagText
<1>5. job[w] = NoJob /\ job' = [job EXCEPT ![w] = j] /\ job'[w] = j /\ UNCHANGED tables
  BY <1>1 DEF Begin, TypeOK
<1> HIDE DEF j
<1>6. QED
  BY <1>1, <1>4, <1>5, ClansAssumption
  DEF Begins, Others, At, TypeOK, GetSessionPlayerAndClan, FirstOf, queryClanByProfileId,
      RowsOf, RankRow

LEMMA StartUpdateClan ==
  ASSUME TypeOK, NEW w \in Worker, UpdateClan(w)
  PROVE  /\ Begins(w, "UpdateClan", "queryClanByClanId")
         /\ KnownIn(job'[w].me, job'[w].clan)
<1>1. PICK p \in Player, t \in Tag \union {None} : \E c \in GetSessionPlayerAndClan(p) :
        /\ c # None
        /\ Begin(w, [NoJob EXCEPT !.op = "UpdateClan", !.next = "queryClanByClanId",
                            !.me = p, !.clan = c, !.tag = t])
  BY DEF UpdateClan
<1>2. PICK c \in GetSessionPlayerAndClan(p) :
        /\ c # None
        /\ Begin(w, [NoJob EXCEPT !.op = "UpdateClan", !.next = "queryClanByClanId",
                            !.me = p, !.clan = c, !.tag = t])
  BY <1>1
<1>3. KnownIn(p, c)
  BY <1>2, ClanOfPlayer
<1> DEFINE j == [NoJob EXCEPT !.op = "UpdateClan", !.next = "queryClanByClanId",
                            !.me = p, !.clan = c, !.tag = t]
<1>4. /\ j \in Job
      /\ j.op = "UpdateClan" /\ j.next = "queryClanByClanId" /\ j.from = None
      /\ j.me = p /\ j.clan = c /\ j.tag = t
  BY <1>3 DEF NoJob, Job, Op, Call, KnownIn, TagText
<1>5. job[w] = NoJob /\ job' = [job EXCEPT ![w] = j] /\ job'[w] = j /\ UNCHANGED tables
  BY <1>2 DEF Begin, TypeOK
<1> HIDE DEF j
<1>6. QED
  BY <1>3, <1>4, <1>5, ClansAssumption DEF Begins, Others, At, TypeOK, KnownIn

LEMMA StartDisband ==
  ASSUME TypeOK, NEW w \in Worker, Disband(w)
  PROVE  /\ Begins(w, "Disband", "queryClanRanksByClanId")
         /\ KnownIn(job'[w].me, job'[w].clan)
<1>1. PICK p \in Player : \E c \in GetSessionPlayerAndClan(p) :
        /\ c # None
        /\ Begin(w, [NoJob EXCEPT !.op = "Disband", !.next = "queryClanRanksByClanId",
                            !.me = p, !.clan = c])
  BY DEF Disband
<1>2. PICK c \in GetSessionPlayerAndClan(p) :
        /\ c # None
        /\ Begin(w, [NoJob EXCEPT !.op = "Disband", !.next = "queryClanRanksByClanId",
                            !.me = p, !.clan = c])
  BY <1>1
<1>3. KnownIn(p, c)
  BY <1>2, ClanOfPlayer
<1> DEFINE j == [NoJob EXCEPT !.op = "Disband", !.next = "queryClanRanksByClanId",
                            !.me = p, !.clan = c]
<1>4. /\ j \in Job
      /\ j.op = "Disband" /\ j.next = "queryClanRanksByClanId" /\ j.from = None
      /\ j.me = p /\ j.clan = c
  BY <1>3 DEF NoJob, Job, Op, Call, KnownIn
<1>5. job[w] = NoJob /\ job' = [job EXCEPT ![w] = j] /\ job'[w] = j /\ UNCHANGED tables
  BY <1>2 DEF Begin, TypeOK
<1> HIDE DEF j
<1>6. QED
  BY <1>3, <1>4, <1>5, ClansAssumption DEF Begins, Others, At, TypeOK, KnownIn

LEMMA StartChangeRank ==
  ASSUME TypeOK, NEW w \in Worker, ChangeRank(w)
  PROVE  /\ Begins(w, "ChangeRank", "queryClanByProfileId")
         /\ KnownIn(job'[w].me, job'[w].clan)
         /\ job'[w].target \in Player
<1>1. PICK p, q \in Player, n \in RankText : \E c \in GetSessionPlayerAndClan(p) :
        /\ c # None
        /\ Begin(w, [NoJob EXCEPT !.op = "ChangeRank", !.next = "queryClanByProfileId",
                            !.me = p, !.clan = c, !.target = q,
                            !.rank = convertRank(n)])
  BY DEF ChangeRank
<1>2. PICK c \in GetSessionPlayerAndClan(p) :
        /\ c # None
        /\ Begin(w, [NoJob EXCEPT !.op = "ChangeRank", !.next = "queryClanByProfileId",
                            !.me = p, !.clan = c, !.target = q,
                            !.rank = convertRank(n)])
  BY <1>1
<1>3. KnownIn(p, c)
  BY <1>2, ClanOfPlayer
<1> DEFINE j == [NoJob EXCEPT !.op = "ChangeRank", !.next = "queryClanByProfileId",
                            !.me = p, !.clan = c, !.target = q,
                            !.rank = convertRank(n)]
<1>4. /\ j \in Job
      /\ j.op = "ChangeRank" /\ j.next = "queryClanByProfileId" /\ j.from = None
      /\ j.me = p /\ j.clan = c /\ j.target = q
  BY <1>3 DEF NoJob, Job, Op, Call, convertRank, KnownIn
<1>5. job[w] = NoJob /\ job' = [job EXCEPT ![w] = j] /\ job'[w] = j /\ UNCHANGED tables
  BY <1>2 DEF Begin, TypeOK
<1> HIDE DEF j
<1>6. QED
  BY <1>3, <1>4, <1>5, ClansAssumption DEF Begins, Others, At, TypeOK, KnownIn

LEMMA StartAddMember ==
  ASSUME TypeOK, NEW w \in Worker, AddMember(w)
  PROVE  /\ Begins(w, "AddMember", "queryClanRanksByClanId")
         /\ job'[w].me \in Player /\ job'[w].target \in Player
         /\ job'[w].clan # None => KnownIn(job'[w].me, job'[w].clan)
<1>1. PICK p, q \in Player : \E c \in GetSessionPlayerAndClan(p) :
        /\ Begin(w, [NoJob EXCEPT !.op = "AddMember", !.next = "queryClanRanksByClanId",
                            !.me = p, !.clan = c, !.target = q])
  BY DEF AddMember
<1>2. PICK c \in GetSessionPlayerAndClan(p) :
        /\ Begin(w, [NoJob EXCEPT !.op = "AddMember", !.next = "queryClanRanksByClanId",
                            !.me = p, !.clan = c, !.target = q])
  BY <1>1
<1>3. c # None => KnownIn(p, c)
  BY ClanOfPlayer
<1> DEFINE j == [NoJob EXCEPT !.op = "AddMember", !.next = "queryClanRanksByClanId",
                            !.me = p, !.clan = c, !.target = q]
<1>4. /\ j \in Job
      /\ j.op = "AddMember" /\ j.next = "queryClanRanksByClanId" /\ j.from = None
      /\ j.me = p /\ j.clan = c /\ j.target = q
  BY <1>3 DEF NoJob, Job, Op, Call, KnownIn
<1>5. job[w] = NoJob /\ job' = [job EXCEPT ![w] = j] /\ job'[w] = j /\ UNCHANGED tables
  BY <1>2 DEF Begin, TypeOK
<1> HIDE DEF j
<1>6. QED
  BY <1>3, <1>4, <1>5, ClansAssumption DEF Begins, Others, At, TypeOK, KnownIn

LEMMA StartDeleteMember ==
  ASSUME TypeOK, NEW w \in Worker, DeleteMember(w)
  PROVE  /\ Begins(w, "DeleteMember", "queryClanByProfileId")
         /\ KnownIn(job'[w].me, job'[w].clan)
         /\ job'[w].target \in Player
<1>1. PICK p, q \in Player : \E c \in GetSessionPlayerAndClan(p) :
        /\ c # None
        /\ Begin(w, [NoJob EXCEPT !.op = "DeleteMember", !.next = "queryClanByProfileId",
                            !.me = p, !.clan = c, !.target = q])
  BY DEF DeleteMember
<1>2. PICK c \in GetSessionPlayerAndClan(p) :
        /\ c # None
        /\ Begin(w, [NoJob EXCEPT !.op = "DeleteMember", !.next = "queryClanByProfileId",
                            !.me = p, !.clan = c, !.target = q])
  BY <1>1
<1>3. KnownIn(p, c)
  BY <1>2, ClanOfPlayer
<1> DEFINE j == [NoJob EXCEPT !.op = "DeleteMember", !.next = "queryClanByProfileId",
                            !.me = p, !.clan = c, !.target = q]
<1>4. /\ j \in Job
      /\ j.op = "DeleteMember" /\ j.next = "queryClanByProfileId" /\ j.from = None
      /\ j.me = p /\ j.clan = c /\ j.target = q
  BY <1>3 DEF NoJob, Job, Op, Call, KnownIn
<1>5. job[w] = NoJob /\ job' = [job EXCEPT ![w] = j] /\ job'[w] = j /\ UNCHANGED tables
  BY <1>2 DEF Begin, TypeOK
<1> HIDE DEF j
<1>6. QED
  BY <1>3, <1>4, <1>5, ClansAssumption DEF Begins, Others, At, TypeOK, KnownIn

(***************************************************************************)
(* What a handler has learnt when it goes on after a query that decides    *)
(* whether it does.                                                        *)
(***************************************************************************)
LEMMA RankHeld ==
  ASSUME TypeOK, NEW c \in Clan \union {None}, NEW p \in Player, NEW k \in GetRank(c, p)
  PROVE  \/ k = Unknown
         \/ c \in Clan /\ [clan |-> c, player |-> p, rank |-> k] \in ranks
  BY ClansAssumption DEF GetRank, queryClanRanksByClanId, TypeOK, RankRow

LEMMA ReadCreateClanCheck ==
  ASSUME TypeOK, FrameInv, NEW w \in Worker, CreateClanCheck(w)
  PROVE  /\ At(w, "CreateClan", "queryClanByNameOrTag")
         /\ \/ Ends(w)
            \/ /\ Continues(w, "insertClan")
               /\ queryClanByNameOrTag(job[w].name, job[w].tag) = {}
  BY FinishIsOver, GoIsOn DEF CreateClanCheck, Ends, Continues, Call

LEMMA ReadUpdateClanRanks ==
  ASSUME TypeOK, FrameInv, NEW w \in Worker, UpdateClanRanks(w)
  PROVE  /\ At(w, "UpdateClan", "queryClanRanksByClanId")
         /\ Ends(w) \/ Continues(w, "queryClanByNameOrTag")
  BY FinishIsOver, GoIsOn DEF UpdateClanRanks, Ends, Continues, Call

LEMMA ReadUpdateClanCheck ==
  ASSUME TypeOK, FrameInv, NEW w \in Worker, UpdateClanCheck(w)
  PROVE  /\ At(w, "UpdateClan", "queryClanByNameOrTag")
         /\ \/ Ends(w)
            \/ /\ Continues(w, "updateClan")
               /\ \/ queryClanByNameOrTag(NoName, job[w].tag) = {}
                  \/ job[w].clan \in queryClanByNameOrTag(NoName, job[w].tag)
<1> DEFINE Q == queryClanByNameOrTag(NoName, job[w].tag)
<1>1. PICK c \in FirstOf(Q) :
        IF c \in {None, job[w].clan} THEN Go(w, "updateClan") ELSE Finish(w)
  BY DEF UpdateClanCheck
<1>2. At(w, "UpdateClan", "queryClanByNameOrTag") /\ UNCHANGED tables
  BY DEF UpdateClanCheck
<1>3. Q \subseteq Clan
  BY DEF queryClanByNameOrTag
<1> HIDE DEF Q
<1>4. (c = None /\ Q = {}) \/ (c \in Q /\ c # None)
  BY <1>3, ClansAssumption DEF FirstOf
<1>5. QED
  BY <1>1, <1>2, <1>4, FinishIsOver, GoIsOn DEF Q, Ends, Continues, Call

LEMMA ReadDisbandRanks ==
  ASSUME TypeOK, FrameInv, NEW w \in Worker, DisbandRanks(w)
  PROVE  /\ At(w, "Disband", "queryClanRanksByClanId")
         /\ Ends(w) \/ Continues(w, "removeClanRanksByClanId")
  BY FinishIsOver, GoIsOn DEF DisbandRanks, Ends, Continues, Call

LEMMA ReadChangeRankTarget ==
  ASSUME TypeOK, FrameInv, NEW w \in Worker, ChangeRankTarget(w)
  PROVE  /\ At(w, "ChangeRank", "queryClanByProfileId")
         /\ \/ Ends(w)
            \/ /\ Continues(w, "queryClanRanksByClanId")
               /\ job[w].rank \in Rank
  BY FinishIsOver, GoIsOn DEF ChangeRankTarget, TypeOK, Job, Ends, Continues, Call

LEMMA ReadChangeRankRanks ==
  ASSUME TypeOK, FrameInv, NEW w \in Worker, ChangeRankRanks(w)
  PROVE  /\ At(w, "ChangeRank", "queryClanRanksByClanId")
         /\ \/ Ends(w)
            \/ /\ Continues(w, FirstRankCall(job[w].rank))
               /\ Leads(job[w].me, job[w].clan)
<1>1. PICK k \in GetRank(job[w].clan, job[w].me) :
        IF k = Leader THEN Go(w, FirstRankCall(job[w].rank)) ELSE Finish(w)
  BY DEF ChangeRankRanks
<1>2. At(w, "ChangeRank", "queryClanRanksByClanId") /\ UNCHANGED tables
  BY DEF ChangeRankRanks
<1>3. job[w].clan \in Clan /\ job[w].me \in Player
  BY <1>2 DEF FrameInv, Filled, At
<1>4. QED
  BY <1>1, <1>2, <1>3, RankHeld, FinishIsOver, GoIsOn
  DEF Leads, Ends, Continues, Leader, Unknown, Call, FirstRankCall

LEMMA ReadAddMemberRanks ==
  ASSUME TypeOK, FrameInv, NEW w \in Worker, AddMemberRanks(w)
  PROVE  /\ At(w, "AddMember", "queryClanRanksByClanId")
         /\ \/ Ends(w)
            \/ /\ Continues(w, "queryClanByProfileId")
               /\ KnownIn(job[w].me, job[w].clan)
<1>1. PICK k \in GetRank(job[w].clan, job[w].me) :
        IF k <= Co_Leader THEN Go(w, "queryClanByProfileId") ELSE Finish(w)
  BY DEF AddMemberRanks
<1>2. At(w, "AddMember", "queryClanRanksByClanId") /\ UNCHANGED tables
  BY DEF AddMemberRanks
<1>3. job[w].clan \in Clan \union {None} /\ job[w].me \in Player
  BY <1>2 DEF FrameInv, Filled, At, TypeOK, Job
<1>4. k <= Co_Leader => k # Unknown
  BY DEF Co_Leader, Unknown
<1>5. k # Unknown => KnownIn(job[w].me, job[w].clan)
  BY <1>1, <1>3, RankHeld DEF KnownIn
<1>6. QED
  BY <1>1, <1>2, <1>4, <1>5, FinishIsOver, GoIsOn DEF Ends, Continues, Call

LEMMA ReadDeleteMemberTarget ==
  ASSUME TypeOK, FrameInv, NEW w \in Worker, DeleteMemberTarget(w)
  PROVE  /\ At(w, "DeleteMember", "queryClanByProfileId")
         /\ Ends(w) \/ Continues(w, "queryClanRanksByClanId")
  BY FinishIsOver, GoIsOn DEF DeleteMemberTarget, Ends, Continues, Call

LEMMA ReadDeleteMemberRanks ==
  ASSUME TypeOK, FrameInv, NEW w \in Worker, DeleteMemberRanks(w)
  PROVE  /\ At(w, "DeleteMember", "queryClanRanksByClanId")
         /\ Ends(w) \/ Continues(w, "removeClanRank")
  BY FinishIsOver, GoIsOn DEF DeleteMemberRanks, Ends, Continues, Call

LEMMA ReadUpdateClanRead ==
  ASSUME TypeOK, FrameInv, FoundingInv, NEW w \in Worker, UpdateClanRead(w)
  PROVE  /\ At(w, "UpdateClan", "queryClanByClanId")
         /\ UNCHANGED tables
         /\ job' \in [Worker -> Job]
         /\ Others(w)
         /\ At(w, "UpdateClan", "queryClanRanksByClanId")'
         /\ job'[w].me = job[w].me /\ job'[w].clan = job[w].clan
         /\ job'[w].from = job[w].from /\ job'[w].tag \in TagText
<1>1. At(w, "UpdateClan", "queryClanByClanId") /\ UNCHANGED tables
  BY DEF UpdateClanRead
<1> DEFINE t == IF job[w].tag = None THEN clans[job[w].clan].tag ELSE job[w].tag
<1>2. job' = [job EXCEPT ![w].tag = t, ![w].next = "queryClanRanksByClanId"]
  BY DEF UpdateClanRead
<1>3. job[w] \in Job
  BY DEF TypeOK
<1>4. job[w].clan \in Clan /\ clans[job[w].clan].state # "absent"
  BY <1>1 DEF FrameInv, Filled, FoundingInv, At
<1>5. clans[job[w].clan].tag \in TagText
  BY <1>4 DEF FrameInv
<1>6. t \in TagText
  BY <1>3, <1>5 DEF Job
<1> HIDE DEF t
<1>7. QED
  BY <1>1, <1>2, <1>3, <1>6 DEF TypeOK, At, Others, Job, Call

LEMMA ReadAddMemberTarget ==
  ASSUME TypeOK, FrameInv, NEW w \in Worker, AddMemberTarget(w)
  PROVE  /\ At(w, "AddMember", "queryClanByProfileId")
         /\ UNCHANGED tables
         /\ job' \in [Worker -> Job]
         /\ Others(w)
         /\ job'[w].op = "AddMember"
         /\ job'[w].me = job[w].me /\ job'[w].clan = job[w].clan
         /\ job'[w].target = job[w].target
         /\ \/ /\ job'[w].next = "insertClanRank" /\ job'[w].from = None
               /\ RowsOf(job[w].target) = {}
            \/ /\ job'[w].next = "removeClanRank"
               /\ KnownIn(job[w].target, job'[w].from)
<1>1. PICK c \in FirstOf(queryClanByProfileId(job[w].target)) :
        job' = [job EXCEPT ![w].from = c,
                           ![w].next = IF c = None THEN "insertClanRank" ELSE "removeClanRank"]
  BY DEF AddMemberTarget
<1>2. At(w, "AddMember", "queryClanByProfileId") /\ UNCHANGED tables
  BY DEF AddMemberTarget
<1>3. job[w].target \in Player
  BY <1>2 DEF FrameInv, Filled, At
<1>4. (c = None /\ RowsOf(job[w].target) = {}) \/ (c # None /\ KnownIn(job[w].target, c))
  BY <1>3, ClansAssumption
  DEF FirstOf, queryClanByProfileId, RowsOf, KnownIn, TypeOK, RankRow
<1>5. c \in Clan \union {None}
  BY <1>4 DEF KnownIn
<1> DEFINE n == IF c = None THEN "insertClanRank" ELSE "removeClanRank"
<1>6. n \in Call /\ job' = [job EXCEPT ![w].from = c, ![w].next = n]
  BY <1>1 DEF Call
<1> HIDE DEF n
<1>7. /\ job' \in [Worker -> Job] /\ Others(w)
      /\ job'[w].op = "AddMember" /\ job'[w].next = n
      /\ job'[w].me = job[w].me /\ job'[w].clan = job[w].clan
      /\ job'[w].target = job[w].target /\ job'[w].from = c
  <2>1. job[w] \in Job /\ [job[w] EXCEPT !.from = c, !.next = n] \in Job
    <3>1. ASSUME NEW g \in Job, NEW d \in Clan \union {None}, NEW m \in Call
          PROVE  [g EXCEPT !.from = d, !.next = m] \in Job
      BY DEF Job
    <3>2. job[w] \in Job /\ n \in Call
      BY <1>6 DEF TypeOK
    <3>3. QED
      BY <1>5, <3>1, <3>2
  <2>2. job' = [job EXCEPT ![w] = [job[w] EXCEPT !.from = c, !.next = n]]
    BY <1>6 DEF TypeOK
  <2>3. job' \in [Worker -> Job] /\ Others(w)
    <3>1. job \in [Worker -> Job]
      BY DEF TypeOK
    <3> DEFINE new == [job[w] EXCEPT !.from = c, !.next = n]
    <3>2. job' = [job EXCEPT ![w] = new] /\ new \in Job
      BY <2>1, <2>2
    <3> HIDE DEF new
    <3>3. QED
      BY <3>1, <3>2 DEF Others
  <2>4. job'[w] = [job[w] EXCEPT !.from = c, !.next = n]
    BY <2>2 DEF TypeOK
  <2>5. /\ job'[w].op = job[w].op /\ job'[w].next = n
        /\ job'[w].me = job[w].me /\ job'[w].clan = job[w].clan
        /\ job'[w].target = job[w].target /\ job'[w].from = c
    BY <2>1, <2>4 DEF Job
  <2>6. QED
    BY <1>2, <2>3, <2>5 DEF At
<1>8. QED
  BY <1>2, <1>4, <1>7 DEF n

(***************************************************************************)
(* The steps that change no table.                                         *)
(***************************************************************************)
Queries(w) ==
  \/ CreateClan(w) \/ CreateClanCheck(w)
  \/ UpdateClan(w) \/ UpdateClanRead(w) \/ UpdateClanRanks(w) \/ UpdateClanCheck(w)
  \/ Disband(w) \/ DisbandRanks(w)
  \/ ChangeRank(w) \/ ChangeRankTarget(w) \/ ChangeRankRanks(w)
  \/ AddMember(w) \/ AddMemberRanks(w) \/ AddMemberTarget(w)
  \/ DeleteMember(w) \/ DeleteMemberTarget(w) \/ DeleteMemberRanks(w)

LEMMA QueriesWriteNothing ==
  ASSUME TypeOK, FrameInv, FoundingInv, NEW w \in Worker, Queries(w)
  PROVE  UNCHANGED tables /\ Others(w) /\ job' \in [Worker -> Job]
<1> USE DEF Begins, Ends, Continues, Over, On
<1>1. CASE CreateClan(w)
  BY <1>1, StartCreateClan
<1>2. CASE CreateClanCheck(w)
  BY <1>2, ReadCreateClanCheck
<1>3. CASE UpdateClan(w)
  BY <1>3, StartUpdateClan
<1>4. CASE UpdateClanRead(w)
  BY <1>4, ReadUpdateClanRead
<1>5. CASE UpdateClanRanks(w)
  BY <1>5, ReadUpdateClanRanks
<1>6. CASE UpdateClanCheck(w)
  BY <1>6, ReadUpdateClanCheck
<1>7. CASE Disband(w)
  BY <1>7, StartDisband
<1>8. CASE DisbandRanks(w)
  BY <1>8, ReadDisbandRanks
<1>9. CASE ChangeRank(w)
  BY <1>9, StartChangeRank
<1>10. CASE ChangeRankTarget(w)
  BY <1>10, ReadChangeRankTarget
<1>11. CASE ChangeRankRanks(w)
  BY <1>11, ReadChangeRankRanks
<1>12. CASE AddMember(w)
  BY <1>12, StartAddMember
<1>13. CASE AddMemberRanks(w)
  BY <1>13, ReadAddMemberRanks
<1>14. CASE AddMemberTarget(w)
  BY <1>14, ReadAddMemberTarget
<1>15. CASE DeleteMember(w)
  BY <1>15, StartDeleteMember
<1>16. CASE DeleteMemberTarget(w)
  BY <1>16, ReadDeleteMemberTarget
<1>17. CASE DeleteMemberRanks(w)
  BY <1>17, ReadDeleteMemberRanks
<1>18. QED
  BY <1>1, <1>2, <1>3, <1>4, <1>5, <1>6, <1>7, <1>8, <1>9, <1>10, <1>11, <1>12,
     <1>13, <1>14, <1>15, <1>16, <1>17 DEF Queries

LEMMA CreateClanInserts ==
  ASSUME TypeOK, FrameInv, NEW w \in Worker, CreateClanInsert(w)
  PROVE  /\ At(w, "CreateClan", "insertClan")
         /\ ranks' = ranks
         /\ job' \in [Worker -> Job] /\ Others(w)
         /\ At(w, "CreateClan", "insertClanRank")'
         /\ job'[w].me = job[w].me /\ job'[w].name = job[w].name
         /\ job'[w].tag = job[w].tag /\ job'[w].from = job[w].from
         /\ job'[w].clan \in Clan /\ clans[job'[w].clan].state = "absent"
         /\ clans' \in [Clan -> ClanRow]
         /\ clans'[job'[w].clan].state = "enabled"
         /\ clans'[job'[w].clan].name = job[w].name /\ clans'[job'[w].clan].tag = job[w].tag
         /\ \A c \in Clan \ {job'[w].clan} : clans'[c] = clans[c]
<1>1. PICK c \in Clan :
        /\ clans[c].state = "absent"
        /\ clans' = insertClan(c, job[w].name, job[w].tag)
        /\ job' = [job EXCEPT ![w].clan = c, ![w].next = "insertClanRank"]
  BY DEF CreateClanInsert
<1>2. At(w, "CreateClan", "insertClan") /\ ranks' = ranks
  BY DEF CreateClanInsert
<1>3. /\ job' \in [Worker -> Job] /\ Others(w) /\ At(w, "CreateClan", "insertClanRank")'
      /\ job'[w].me = job[w].me /\ job'[w].name = job[w].name
      /\ job'[w].tag = job[w].tag /\ job'[w].from = job[w].from /\ job'[w].clan = c
  BY <1>1, <1>2 DEF TypeOK, Job, Call, Others, At
<1>4. job[w].name \in Name /\ job[w].tag \in Tag
  BY <1>2 DEF FrameInv, Filled, At
<1>5. /\ clans' \in [Clan -> ClanRow]
      /\ clans'[c].state = "enabled"
      /\ clans'[c].name = job[w].name /\ clans'[c].tag = job[w].tag
      /\ \A d \in Clan \ {c} : clans'[d] = clans[d]
  BY <1>1, <1>4 DEF TypeOK, insertClan, ClanRow, ClanState, TagText
<1>6. QED
  BY <1>1, <1>2, <1>3, <1>5

LEMMA UpdateClanWrites ==
  ASSUME TypeOK, FrameInv, NEW w \in Worker, UpdateClanWrite(w)
  PROVE  /\ At(w, "UpdateClan", "updateClan")
         /\ ranks' = ranks
         /\ Over(w)
         /\ job[w].clan \in Clan /\ job[w].tag \in TagText
         /\ clans' \in [Clan -> ClanRow]
         /\ \A c \in Clan : /\ clans'[c].state = clans[c].state
                            /\ clans'[c].name = clans[c].name
                            /\ c # job[w].clan => clans'[c].tag = clans[c].tag
         /\ clans'[job[w].clan].tag = job[w].tag
<1>1. At(w, "UpdateClan", "updateClan") /\ ranks' = ranks /\ Over(w)
  BY FinishIsOver DEF UpdateClanWrite
<1>2. job[w].clan \in Clan /\ job[w].tag \in TagText
  BY <1>1 DEF FrameInv, Filled, At
<1>3. clans' = [clans EXCEPT ![job[w].clan].tag = job[w].tag]
  BY DEF UpdateClanWrite, updateClan
<1>4. QED
  BY <1>1, <1>2, <1>3 DEF TypeOK, ClanRow

LEMMA DisbandDisables ==
  ASSUME TypeOK, FrameInv, NEW w \in Worker, DisbandDisable(w)
  PROVE  /\ At(w, "Disband", "disableClan")
         /\ ranks' = ranks
         /\ Over(w)
         /\ job[w].clan \in Clan
         /\ clans' \in [Clan -> ClanRow]
         /\ \A c \in Clan : /\ c # job[w].clan => clans'[c].state = clans[c].state
                            /\ clans'[c].name = clans[c].name
                            /\ clans'[c].tag = clans[c].tag
         /\ clans'[job[w].clan].state = "disabled"
<1>1. At(w, "Disband", "disableClan") /\ ranks' = ranks /\ Over(w)
  BY FinishIsOver DEF DisbandDisable
<1>2. job[w].clan \in Clan
  BY <1>1 DEF FrameInv, Filled, At
<1>3. clans' = [clans EXCEPT ![job[w].clan].state = "disabled"]
  BY DEF DisbandDisable, disableClan
<1>4. QED
  BY <1>1, <1>2, <1>3 DEF TypeOK, ClanRow, ClanState

LEMMA UpdatingARank ==
  ASSUME ranks \in SUBSET RankRow, NEW c, NEW p, NEW k \in Rank
  PROVE  /\ updateClanRank(c, p, k) \in SUBSET RankRow
         /\ \A r \in updateClanRank(c, p, k) :
              \E s \in ranks : /\ r.clan = s.clan /\ r.player = s.player
                               /\ IF r.clan = c /\ r.player = p THEN r.rank = k ELSE r = s
         /\ \A s \in ranks : \E r \in updateClanRank(c, p, k) :
              r.clan = s.clan /\ r.player = s.player
<1> DEFINE new(s) == IF s.clan = c /\ s.player = p THEN [s EXCEPT !.rank = k] ELSE s
<1>1. \A s \in ranks : /\ new(s) \in RankRow
                       /\ new(s).clan = s.clan /\ new(s).player = s.player
                       /\ IF s.clan = c /\ s.player = p THEN new(s).rank = k ELSE new(s) = s
  BY DEF RankRow
<1>2. updateClanRank(c, p, k) = {new(s) : s \in ranks}
  BY DEF updateClanRank
<1> HIDE DEF new
<1>3. QED
  BY <1>1, <1>2

LEMMA ChangeRankDemotes ==
  ASSUME TypeOK, FrameInv, NEW w \in Worker, ChangeRankDemote(w)
  PROVE  /\ At(w, "ChangeRank", "demote")
         /\ clans' = clans
         /\ On(w, "updateClanRank")
         /\ ranks' = updateClanRank(job[w].clan, job[w].me, Co_Leader)
  BY GoIsOn DEF ChangeRankDemote, Call

LEMMA ChangeRankSets ==
  ASSUME TypeOK, FrameInv, NEW w \in Worker, ChangeRankSet(w)
  PROVE  /\ At(w, "ChangeRank", "updateClanRank")
         /\ clans' = clans
         /\ Over(w)
         /\ job[w].rank \in Rank
         /\ ranks' = updateClanRank(job[w].clan, job[w].target, job[w].rank)
  BY FinishIsOver DEF ChangeRankSet, FrameInv, Filled, At

(***************************************************************************)
(* Base is inductive.                                                      *)
(***************************************************************************)
Base == TypeOK /\ FrameInv /\ FoundingInv

LEMMA TypesNext ==
  ASSUME Base, NEW w \in Worker, Step(w)
  PROVE  clans' \in [Clan -> ClanRow] /\ ranks' \in SUBSET RankRow /\ job' \in [Worker -> Job]
<1> USE DEF Base
<1>1. CASE Queries(w)
  BY <1>1, QueriesWriteNothing DEF tables, TypeOK
<1>2. CASE CreateClanInsert(w)
  BY <1>2, CreateClanInserts DEF TypeOK
<1>3. CASE CreateClanLeader(w)
  BY <1>3, FinishIsOver
  DEF CreateClanLeader, insertClanRank, TypeOK, FoundingInv, FoundedBy, Founding, FrameInv,
      Filled, At, Over, RankRow, Rank
<1>4. CASE UpdateClanWrite(w)
  BY <1>4, UpdateClanWrites DEF TypeOK, Over
<1>5. CASE DisbandClear(w)
  BY <1>5, GoIsOn DEF DisbandClear, removeClanRanksByClanId, TypeOK, On, Call
<1>6. CASE DisbandDisable(w)
  BY <1>6, DisbandDisables DEF TypeOK, Over
<1>7. CASE ChangeRankDemote(w)
  BY <1>7, ChangeRankDemotes, UpdatingARank DEF TypeOK, On, Rank
<1>8. CASE ChangeRankSet(w)
  BY <1>8, ChangeRankSets, UpdatingARank DEF TypeOK, Over
<1>9. CASE AddMemberRemove(w)
  BY <1>9, GoIsOn DEF AddMemberRemove, removeClanRank, TypeOK, On, Call
<1>10. CASE AddMemberInsert(w)
  BY <1>10, FinishIsOver
  DEF AddMemberInsert, insertClanRank, TypeOK, FrameInv, Filled, At, Over, RankRow, Rank
<1>11. CASE DeleteMemberRemove(w)
  BY <1>11, FinishIsOver DEF DeleteMemberRemove, removeClanRank, TypeOK, Over
<1>12. QED
  BY <1>1, <1>2, <1>3, <1>4, <1>5, <1>6, <1>7, <1>8, <1>9, <1>10, <1>11 DEF Step, Queries

LEMMA FrameNext ==
  ASSUME Base, NEW w \in Worker, Step(w)
  PROVE  FrameInv'
<1> USE DEF Base
<1>1. ASSUME Others(w), Filled(w)',
             \A c \in Clan : IF clans'[c].state = "absent"
                           THEN clans'[c].name = None
                           ELSE clans'[c].name \in Name /\ clans'[c].tag \in TagText
      PROVE  FrameInv'
  <2>1. ASSUME NEW v \in Worker \ {w} PROVE Filled(v)'
    BY <1>1 DEF FrameInv, Filled, Others, At
  <2>2. QED
    BY <1>1, <2>1 DEF FrameInv
<1>2. Over(w) => Filled(w)'
  BY DEF Over, Filled, At, NoJob
<1>3. CASE Queries(w)
  <2>a. UNCHANGED tables /\ Others(w)
    BY <1>3, QueriesWriteNothing
  <2> SUFFICES Filled(w)'
    BY <1>1, <2>a DEF tables, FrameInv
  <2> USE DEF Ends, Continues, On, Begins, FrameInv, Filled, At
  <2>1. CASE CreateClan(w)
    BY <1>2, <2>1, StartCreateClan, ClansAssumption
  <2>2. CASE CreateClanCheck(w)
    BY <1>2, <2>2, ReadCreateClanCheck, ClansAssumption
  <2>3. CASE UpdateClan(w)
    BY <1>2, <2>3, StartUpdateClan, ClansAssumption DEF KnownIn
  <2>4. CASE UpdateClanRead(w)
    BY <1>2, <2>4, ReadUpdateClanRead, ClansAssumption
  <2>5. CASE UpdateClanRanks(w)
    BY <1>2, <2>5, ReadUpdateClanRanks, ClansAssumption
  <2>6. CASE UpdateClanCheck(w)
    BY <1>2, <2>6, ReadUpdateClanCheck, ClansAssumption
  <2>7. CASE Disband(w)
    BY <1>2, <2>7, StartDisband, ClansAssumption DEF KnownIn
  <2>8. CASE DisbandRanks(w)
    BY <1>2, <2>8, ReadDisbandRanks, ClansAssumption
  <2>9. CASE ChangeRank(w)
    BY <1>2, <2>9, StartChangeRank, ClansAssumption DEF KnownIn
  <2>10. CASE ChangeRankTarget(w)
    BY <1>2, <2>10, ReadChangeRankTarget, ClansAssumption
  <2>11. CASE ChangeRankRanks(w)
    BY <1>2, <2>11, ReadChangeRankRanks, ClansAssumption DEF FirstRankCall, Leader
  <2>12. CASE AddMember(w)
    BY <1>2, <2>12, StartAddMember, ClansAssumption DEF KnownIn
  <2>13. CASE AddMemberRanks(w)
    BY <1>2, <2>13, ReadAddMemberRanks, ClansAssumption DEF KnownIn
  <2>14. CASE AddMemberTarget(w)
    BY <1>2, <2>14, ReadAddMemberTarget, ClansAssumption DEF KnownIn
  <2>15. CASE DeleteMember(w)
    BY <1>2, <2>15, StartDeleteMember, ClansAssumption DEF KnownIn
  <2>16. CASE DeleteMemberTarget(w)
    BY <1>2, <2>16, ReadDeleteMemberTarget, ClansAssumption
  <2>17. CASE DeleteMemberRanks(w)
    BY <1>2, <2>17, ReadDeleteMemberRanks, ClansAssumption
  <2>18. QED
    BY <1>3, <2>1, <2>2, <2>3, <2>4, <2>5, <2>6, <2>7, <2>8, <2>9, <2>10, <2>11, <2>12, <2>13,
       <2>14, <2>15, <2>16, <2>17 DEF Queries
<1>4. CASE CreateClanInsert(w)
  <2>1. Filled(w)'
    BY <1>4, CreateClanInserts DEF FrameInv, Filled, At
  <2>2. QED
    BY <1>1, <1>4, <2>1, CreateClanInserts DEF FrameInv, Filled, At, TagText
<1>5. CASE CreateClanLeader(w)
  BY <1>1, <1>2, <1>5, FinishIsOver DEF CreateClanLeader, Over, FrameInv
<1>6. CASE UpdateClanWrite(w)
  BY <1>1, <1>2, <1>6, UpdateClanWrites DEF Over, FrameInv
<1>7. CASE DisbandClear(w)
  <2>1. On(w, "disableClan") /\ At(w, "Disband", "removeClanRanksByClanId") /\ clans' = clans
    BY <1>7, GoIsOn DEF DisbandClear, Call
  <2>2. Filled(w)'
    BY <2>1 DEF FrameInv, Filled, At, On
  <2>3. QED
    BY <1>1, <2>1, <2>2 DEF FrameInv, On
<1>8. CASE DisbandDisable(w)
  BY <1>1, <1>2, <1>8, DisbandDisables DEF Over, FrameInv, FoundingInv
<1>9. CASE ChangeRankDemote(w)
  <2>1. Filled(w)'
    BY <1>9, ChangeRankDemotes DEF FrameInv, Filled, At, On
  <2>2. QED
    BY <1>1, <1>9, <2>1, ChangeRankDemotes DEF FrameInv, On
<1>10. CASE ChangeRankSet(w)
  BY <1>1, <1>2, <1>10, ChangeRankSets DEF Over, FrameInv
<1>11. CASE AddMemberRemove(w)
  <2>1. On(w, "insertClanRank") /\ At(w, "AddMember", "removeClanRank") /\ clans' = clans
    BY <1>11, GoIsOn DEF AddMemberRemove, Call
  <2>2. Filled(w)'
    BY <2>1 DEF FrameInv, Filled, At, On
  <2>3. QED
    BY <1>1, <2>1, <2>2 DEF FrameInv, On
<1>12. CASE AddMemberInsert(w)
  BY <1>1, <1>2, <1>12, FinishIsOver DEF AddMemberInsert, Over, FrameInv
<1>13. CASE DeleteMemberRemove(w)
  BY <1>1, <1>2, <1>13, FinishIsOver DEF DeleteMemberRemove, Over, FrameInv
<1>14. QED
  BY <1>3, <1>4, <1>5, <1>6, <1>7, <1>8, <1>9, <1>10, <1>11, <1>12, <1>13 DEF Step, Queries

\* A query shows a handler only clans that have a row.
LEMMA QueriesFindRows ==
  ASSUME Base, NEW w \in Worker, Queries(w)
  PROVE  /\ ~ Founding(w)'
         /\ \A c \in Clan :
              c \in {job'[w].clan, job'[w].from} =>
                 c \in {job[w].clan, job[w].from} \/ InClan(c) # {}
<1>1. \A p, c : KnownIn(p, c) => InClan(c) # {}
  BY DEF KnownIn, InClan
<1>2. Over(w) => ~ Founding(w)' /\ job'[w].clan = None /\ job'[w].from = None
  BY DEF Over, NoJob, Founding, At
<1>3. \A n : On(w, n) => job'[w].clan = job[w].clan /\ job'[w].from = job[w].from
                         /\ (Founding(w)' => job[w].op = "CreateClan" /\ n = "insertClanRank")
  BY DEF On, Founding, At
<1> USE ClansAssumption DEF Base, Ends, Continues, Begins, At, Founding
<1>4. CASE CreateClan(w)
  BY <1>1, <1>2, <1>3, <1>4, StartCreateClan
<1>5. CASE CreateClanCheck(w)
  BY <1>1, <1>2, <1>3, <1>5, ReadCreateClanCheck
<1>6. CASE UpdateClan(w)
  BY <1>1, <1>2, <1>3, <1>6, StartUpdateClan
<1>7. CASE UpdateClanRead(w)
  BY <1>1, <1>2, <1>3, <1>7, ReadUpdateClanRead
<1>8. CASE UpdateClanRanks(w)
  BY <1>1, <1>2, <1>3, <1>8, ReadUpdateClanRanks
<1>9. CASE UpdateClanCheck(w)
  BY <1>1, <1>2, <1>3, <1>9, ReadUpdateClanCheck
<1>10. CASE Disband(w)
  BY <1>1, <1>2, <1>3, <1>10, StartDisband
<1>11. CASE DisbandRanks(w)
  BY <1>1, <1>2, <1>3, <1>11, ReadDisbandRanks
<1>12. CASE ChangeRank(w)
  BY <1>1, <1>2, <1>3, <1>12, StartChangeRank
<1>13. CASE ChangeRankTarget(w)
  BY <1>1, <1>2, <1>3, <1>13, ReadChangeRankTarget
<1>14. CASE ChangeRankRanks(w)
  BY <1>1, <1>2, <1>3, <1>14, ReadChangeRankRanks DEF FirstRankCall
<1>15. CASE AddMember(w)
  BY <1>1, <1>2, <1>3, <1>15, StartAddMember
<1>16. CASE AddMemberRanks(w)
  BY <1>1, <1>2, <1>3, <1>16, ReadAddMemberRanks
<1>17. CASE AddMemberTarget(w)
  BY <1>1, <1>2, <1>3, <1>17, ReadAddMemberTarget
<1>18. CASE DeleteMember(w)
  BY <1>1, <1>2, <1>3, <1>18, StartDeleteMember
<1>19. CASE DeleteMemberTarget(w)
  BY <1>1, <1>2, <1>3, <1>19, ReadDeleteMemberTarget
<1>20. CASE DeleteMemberRanks(w)
  BY <1>1, <1>2, <1>3, <1>20, ReadDeleteMemberRanks
<1>21. QED
  BY <1>4, <1>5, <1>6, <1>7, <1>8, <1>9, <1>10, <1>11, <1>12, <1>13, <1>14, <1>15, <1>16,
     <1>17, <1>18, <1>19, <1>20 DEF Queries

\* A step that leaves the clans as they are, empties none that was full, and
\* whose handler neither founds nor learns of a clan.
LEMMA FoundingKept ==
  ASSUME FoundingInv, NEW w \in Worker, clans' = clans, Others(w),
         \A c \in Clan : InClan(c) = {} => InClan(c)' = {},
         ~ Founding(w)',
         \A c \in Clan : c \in {job'[w].clan, job'[w].from} => c \in {job[w].clan, job[w].from}
  PROVE  FoundingInv'
<1>1. ASSUME NEW c \in Clan, clans'[c].state = "absent"
      PROVE  InClan(c)' = {} /\ \A v \in Worker : c \notin {job'[v].clan, job'[v].from}
  BY <1>1 DEF FoundingInv, Others
<1>2. ASSUME NEW v \in Worker PROVE FoundedBy(v)'
  <2> SUFFICES ASSUME Founding(v)'
               PROVE  /\ job'[v].clan \in Clan
                      /\ Enabled(job[v].clan)'
                      /\ InClan(job[v].clan)' = {}
                      /\ \A u \in Worker \ {v} : job'[v].clan \notin {job'[u].clan, job'[u].from}
    BY DEF FoundedBy
  <2>1. v # w /\ job'[v] = job[v]
    BY DEF Others
  <2>2. Founding(v) /\ FoundedBy(v)
    BY <2>1 DEF Founding, At, FoundingInv
  <2>3. job[v].clan \in Clan /\ Enabled(job[v].clan) /\ InClan(job[v].clan) = {}
    BY <2>2 DEF FoundedBy
  <2>4. ASSUME NEW u \in Worker \ {v}
        PROVE  job'[v].clan \notin {job'[u].clan, job'[u].from}
    <3>1. job[v].clan \notin {job[u].clan, job[u].from}
      BY <2>2 DEF FoundedBy
    <3>2. QED
      BY <2>1, <2>3, <3>1 DEF Others
  <2>5. Enabled(job[v].clan)'
    BY <2>1, <2>3 DEF Enabled
  <2>6. InClan(job[v].clan)' = {}
    BY <2>1, <2>3 DEF InClan
  <2>7. QED
    BY <2>1, <2>3, <2>4, <2>5, <2>6
<1>3. QED
  BY <1>1, <1>2 DEF FoundingInv

LEMMA FoundingNext ==
  ASSUME Base, NEW w \in Worker, Step(w)
  PROVE  FoundingInv'
<1> USE DEF Base
\* What is left to show once the clans and rows that come and go are known.
<1>1. ASSUME Others(w),
             \A c \in Clan : clans'[c].state = "absent" =>
                /\ clans[c].state = "absent" /\ InClan(c)' = {}
                /\ c \notin {job'[w].clan, job'[w].from},
             \A v \in Worker : FoundedBy(v)'
      PROVE  FoundingInv'
  BY <1>1 DEF FoundingInv, Others
<1>2. CASE Queries(w)
  <2>1. clans' = clans /\ ranks' = ranks /\ Others(w)
    BY <1>2, QueriesWriteNothing DEF tables
  <2>2. ASSUME NEW c \in Clan, clans[c].state = "absent"
        PROVE  c \notin {job'[w].clan, job'[w].from}
    BY <1>2, <2>2, QueriesFindRows DEF FoundingInv
  <2>3. ASSUME NEW v \in Worker PROVE FoundedBy(v)'
    <3>1. CASE v = w
      BY <1>2, <3>1, QueriesFindRows DEF FoundedBy
    <3>2. CASE v # w
      BY <1>2, <2>1, <3>2, QueriesFindRows
      DEF FoundedBy, Founding, FoundingInv, InClan, Enabled, Others, At
    <3>3. QED
      BY <3>1, <3>2
  <2>4. QED
    BY <1>1, <2>1, <2>2, <2>3 DEF FoundingInv, InClan
<1>3. CASE CreateClanInsert(w)
  <2>1. ASSUME NEW v \in Worker PROVE FoundedBy(v)'
    <3>1. CASE v = w
      BY <1>3, <3>1, CreateClanInserts
      DEF FoundedBy, Founding, FoundingInv, InClan, Enabled, Others, At
    <3>2. CASE v # w
      BY <1>3, <3>2, CreateClanInserts
      DEF FoundedBy, Founding, FoundingInv, InClan, Enabled, Others, At
    <3>3. QED
      BY <3>1, <3>2
  <2>2. QED
    BY <1>1, <1>3, <2>1, CreateClanInserts, ClansAssumption DEF FoundingInv, InClan
<1>4. CASE CreateClanLeader(w)
  <2>1. /\ clans' = clans /\ Over(w) /\ Founding(w)
        /\ ranks' = ranks \union {[clan |-> job[w].clan, player |-> job[w].me, rank |-> Leader]}
    BY <1>4, FinishIsOver DEF CreateClanLeader, insertClanRank, Founding
  <2>2. QED
    BY <1>1, <2>1, ClansAssumption
    DEF FoundedBy, Founding, FoundingInv, InClan, Enabled, Over, Others, NoJob, At
<1>5. CASE UpdateClanWrite(w)
  BY <1>1, <1>5, UpdateClanWrites, ClansAssumption
  DEF FoundedBy, Founding, FoundingInv, InClan, Enabled, Over, Others, NoJob, At
<1>6. CASE DisbandClear(w)
  <2>1. /\ clans' = clans /\ On(w, "disableClan") /\ At(w, "Disband", "removeClanRanksByClanId")
        /\ ranks' \subseteq ranks
    BY <1>6, GoIsOn DEF DisbandClear, removeClanRanksByClanId, Call
  <2>2. QED
    BY <1>1, <2>1 DEF FoundedBy, Founding, FoundingInv, InClan, Enabled, On, Others, At
<1>7. CASE DisbandDisable(w)
  BY <1>1, <1>7, DisbandDisables, ClansAssumption
  DEF FoundedBy, Founding, FoundingInv, InClan, Enabled, Over, Others, NoJob, At
<1>8. CASE ChangeRankDemote(w)
  <2>1. \A c \in Clan : InClan(c) = {} => InClan(c)' = {}
    BY <1>8, ChangeRankDemotes, UpdatingARank DEF TypeOK, InClan, Rank
  <2>2. /\ clans' = clans /\ Others(w) /\ job'[w].next = "updateClanRank"
        /\ job'[w].clan = job[w].clan /\ job'[w].from = job[w].from
    BY <1>8, ChangeRankDemotes DEF On
  <2>3. ~ Founding(w)'
    BY <2>2 DEF Founding, At
  <2>4. QED
    BY <2>1, <2>2, <2>3, FoundingKept
<1>9. CASE ChangeRankSet(w)
  <2>1. \A c \in Clan : InClan(c) = {} => InClan(c)' = {}
    BY <1>9, ChangeRankSets, UpdatingARank DEF TypeOK, InClan
  <2>2. clans' = clans /\ Others(w) /\ job'[w] = NoJob
    BY <1>9, ChangeRankSets DEF Over
  <2>3. ~ Founding(w)'
    BY <2>2 DEF Founding, At, NoJob
  <2>4. \A c \in Clan : c \notin {job'[w].clan, job'[w].from}
    BY <2>2, ClansAssumption DEF NoJob
  <2>5. QED
    BY <2>1, <2>2, <2>3, <2>4, FoundingKept
<1>10. CASE AddMemberRemove(w)
  <2>1. /\ clans' = clans /\ On(w, "insertClanRank") /\ At(w, "AddMember", "removeClanRank")
        /\ ranks' \subseteq ranks
    BY <1>10, GoIsOn DEF AddMemberRemove, removeClanRank, Call
  <2>2. QED
    BY <1>1, <2>1 DEF FoundedBy, Founding, FoundingInv, InClan, Enabled, On, Others, At
<1>11. CASE AddMemberInsert(w)
  <2>1. /\ clans' = clans /\ Over(w) /\ At(w, "AddMember", "insertClanRank")
        /\ ranks' = ranks \union {[clan |-> job[w].clan, player |-> job[w].target,
                                   rank |-> Member]}
    BY <1>11, FinishIsOver DEF AddMemberInsert, insertClanRank
  <2>2. QED
    BY <1>1, <2>1, ClansAssumption
    DEF FoundedBy, Founding, FoundingInv, InClan, Enabled, Over, Others, NoJob, At
<1>12. CASE DeleteMemberRemove(w)
  <2>1. /\ clans' = clans /\ Over(w) /\ ranks' \subseteq ranks
    BY <1>12, FinishIsOver DEF DeleteMemberRemove, removeClanRank
  <2>2. QED
    BY <1>1, <2>1, ClansAssumption
    DEF FoundedBy, Founding, FoundingInv, InClan, Enabled, Over, Others, NoJob, At
<1>13. QED
  BY <1>2, <1>3, <1>4, <1>5, <1>6, <1>7, <1>8, <1>9, <1>10, <1>11, <1>12 DEF Step, Queries

(***************************************************************************)
(* AtMostOneLeader, with HandOver.                                         *)
(***************************************************************************)
LEMMA LeaderNext ==
  ASSUME Base, NoRaces, \A v \in Worker : HandOver(v), AtMostOneLeader,
         noted \subseteq noted', NEW w \in Worker, Step(w)
  PROVE  (\A v \in Worker : HandOver(v)') /\ AtMostOneLeader'
<1> USE DEF Base
\* A step that makes nobody a leader.
<1>1. ASSUME \A r \in ranks' : r.rank = Leader => r \in ranks, Others(w), HandOver(w)'
      PROVE  (\A v \in Worker : HandOver(v)') /\ AtMostOneLeader'
  BY <1>1 DEF HandOver, AtMostOneLeader, InClan, Others, At
<1>2. Over(w) => HandOver(w)'
  BY DEF Over, NoJob, HandOver, At
<1>3. CASE Queries(w)
  <2>1. ranks' = ranks /\ Others(w)
    BY <1>3, QueriesWriteNothing DEF tables
  <2>2. ASSUME ChangeRankRanks(w) PROVE HandOver(w)'
    <3>1. /\ At(w, "ChangeRank", "queryClanRanksByClanId")
          /\ \/ Ends(w)
             \/ /\ Continues(w, FirstRankCall(job[w].rank))
                /\ Leads(job[w].me, job[w].clan)
      BY <2>2, ReadChangeRankRanks
    <3>2. CASE Ends(w)
      BY <1>2, <3>2 DEF Ends
    <3>3. CASE /\ Continues(w, FirstRankCall(job[w].rank))
               /\ Leads(job[w].me, job[w].clan)
      BY <2>1, <3>1, <3>3
      DEF Continues, On, FirstRankCall, Leads, HandOver, AtMostOneLeader, InClan, At
    <3>4. QED
      BY <3>1, <3>2, <3>3
  <2>3. ASSUME ~ ChangeRankRanks(w) PROVE HandOver(w)'
    <3> SUFFICES ~ At(w, "ChangeRank", "demote")' /\ ~ At(w, "ChangeRank", "updateClanRank")'
      BY DEF HandOver
    <3> USE DEF Begins, Ends, Continues, Over, On, At, NoJob
    <3>1. CASE CreateClan(w)
      BY <3>1, StartCreateClan
    <3>2. CASE CreateClanCheck(w)
      BY <3>2, ReadCreateClanCheck
    <3>3. CASE UpdateClan(w)
      BY <3>3, StartUpdateClan
    <3>4. CASE UpdateClanRead(w)
      BY <3>4, ReadUpdateClanRead
    <3>5. CASE UpdateClanRanks(w)
      BY <3>5, ReadUpdateClanRanks
    <3>6. CASE UpdateClanCheck(w)
      BY <3>6, ReadUpdateClanCheck
    <3>7. CASE Disband(w)
      BY <3>7, StartDisband
    <3>8. CASE DisbandRanks(w)
      BY <3>8, ReadDisbandRanks
    <3>9. CASE ChangeRank(w)
      BY <3>9, StartChangeRank
    <3>10. CASE ChangeRankTarget(w)
      BY <3>10, ReadChangeRankTarget
    <3>12. CASE AddMember(w)
      BY <3>12, StartAddMember
    <3>13. CASE AddMemberRanks(w)
      BY <3>13, ReadAddMemberRanks
    <3>14. CASE AddMemberTarget(w)
      BY <3>14, ReadAddMemberTarget
    <3>15. CASE DeleteMember(w)
      BY <3>15, StartDeleteMember
    <3>16. CASE DeleteMemberTarget(w)
      BY <3>16, ReadDeleteMemberTarget
    <3>17. CASE DeleteMemberRanks(w)
      BY <3>17, ReadDeleteMemberRanks
    <3>18. QED
      BY <1>3, <2>3, <3>1, <3>2, <3>3, <3>4, <3>5, <3>6, <3>7, <3>8, <3>9, <3>10, <3>12,
         <3>13, <3>14, <3>15, <3>16, <3>17 DEF Queries
  <2>4. QED
    BY <1>1, <2>1, <2>2, <2>3
<1>4. CASE CreateClanInsert(w)
  BY <1>1, <1>4, CreateClanInserts DEF HandOver, At
<1>5. CASE CreateClanLeader(w)
  <2>1. /\ clans' = clans /\ Over(w) /\ Founding(w)
        /\ ranks' = ranks \union {[clan |-> job[w].clan, player |-> job[w].me, rank |-> Leader]}
    BY <1>5, FinishIsOver DEF CreateClanLeader, insertClanRank, Founding
  <2>2. /\ InClan(job[w].clan) = {}
        /\ \A v \in Worker \ {w} : job[v].clan # job[w].clan
    BY <2>1 DEF FoundingInv, FoundedBy
  <2>3. AtMostOneLeader'
    BY <2>1, <2>2 DEF AtMostOneLeader, InClan
  <2>4. ASSUME NEW v \in Worker \ {w} PROVE HandOver(v)'
    BY <2>1, <2>2, <2>4 DEF HandOver, InClan, Over, Others, At
  <2>5. QED
    BY <1>2, <2>1, <2>3, <2>4
<1>6. CASE UpdateClanWrite(w)
  BY <1>1, <1>2, <1>6, UpdateClanWrites DEF Over
<1>7. CASE DisbandClear(w)
  <2>1. On(w, "disableClan") /\ ranks' \subseteq ranks
    BY <1>7, GoIsOn DEF DisbandClear, removeClanRanksByClanId, Call
  <2>2. QED
    BY <1>1, <2>1 DEF On, HandOver, At
<1>8. CASE DisbandDisable(w)
  BY <1>1, <1>2, <1>8, DisbandDisables DEF Over
<1>9. CASE ChangeRankDemote(w)
  <2>1. \A r \in ranks' : r.rank = Leader =>
           r \in ranks /\ ~ (r.clan = job[w].clan /\ r.player = job[w].me)
    BY <1>9, ChangeRankDemotes, UpdatingARank DEF TypeOK, Rank, Leader, Co_Leader
  <2>2. HandOver(w)'
    BY <1>9, <2>1, ChangeRankDemotes DEF HandOver, InClan, On, At
  <2>3. QED
    BY <1>1, <1>9, <2>1, <2>2, ChangeRankDemotes DEF On
<1>10. CASE ChangeRankSet(w)
  <2>1. /\ ranks' = updateClanRank(job[w].clan, job[w].target, job[w].rank)
        /\ Over(w) /\ job[w].rank \in Rank /\ At(w, "ChangeRank", "updateClanRank")
        /\ job[w].clan \in Clan
    BY <1>10, ChangeRankSets DEF FrameInv, Filled, At
  <2>2. CASE job[w].rank # Leader
    <3>1. \A r \in ranks' : r.rank = Leader => r \in ranks
      BY <2>1, <2>2, UpdatingARank DEF TypeOK
    <3>2. QED
      BY <1>1, <1>2, <2>1, <3>1 DEF Over
  <2>3. CASE job[w].rank = Leader
    <3>1. \A r \in ranks' : r.rank = Leader =>
             r \in ranks \/ (r.clan = job[w].clan /\ r.player = job[w].target)
      BY <2>1, <2>3, UpdatingARank DEF TypeOK
    <3>2. <<"rank", job[w].clan>> \notin noted => \A r \in InClan(job[w].clan) : r.rank # Leader
      BY <2>1, <2>3 DEF HandOver
    <3>3. AtMostOneLeader'
      BY <3>1, <3>2 DEF AtMostOneLeader, InClan
    <3>4. ASSUME NEW v \in Worker \ {w} PROVE HandOver(v)'
      <4>1. job'[v] = job[v]
        BY <2>1 DEF Over, Others
      <4>2. CASE job[v].op = "ChangeRank" /\ job[v].clan = job[w].clan
        BY <2>1, <4>1, <4>2 DEF NoRaces, HandOver, At
      <4>3. CASE job[v].clan # job[w].clan
        BY <3>1, <4>1, <4>3 DEF HandOver, InClan, At
      <4>4. CASE job[v].op # "ChangeRank"
        BY <4>1, <4>4 DEF HandOver, At
      <4>5. QED
        BY <4>2, <4>3, <4>4
    <3>5. QED
      BY <1>2, <2>1, <3>3, <3>4
  <2>4. QED
    BY <2>2, <2>3
<1>11. CASE AddMemberRemove(w)
  <2>1. On(w, "insertClanRank") /\ ranks' \subseteq ranks
    BY <1>11, GoIsOn DEF AddMemberRemove, removeClanRank, Call
  <2>2. QED
    BY <1>1, <2>1 DEF On, HandOver, At
<1>12. CASE AddMemberInsert(w)
  <2>1. /\ Over(w)
        /\ ranks' = ranks \union {[clan |-> job[w].clan, player |-> job[w].target,
                                   rank |-> Member]}
    BY <1>12, FinishIsOver DEF AddMemberInsert, insertClanRank
  <2>2. QED
    BY <1>1, <1>2, <2>1 DEF Over, Leader, Member
<1>13. CASE DeleteMemberRemove(w)
  <2>1. Over(w) /\ ranks' \subseteq ranks
    BY <1>13, FinishIsOver DEF DeleteMemberRemove, removeClanRank
  <2>2. QED
    BY <1>1, <1>2, <2>1 DEF Over
<1>14. QED
  BY <1>3, <1>4, <1>5, <1>6, <1>7, <1>8, <1>9, <1>10, <1>11, <1>12, <1>13 DEF Step, Queries

(***************************************************************************)
(* OneMembership, with Enrolling.                                          *)
(***************************************************************************)
LEMMA MembershipNext ==
  ASSUME Base, NoRaces, \A v \in Worker : Enrolling(v), OneMembership,
         noted \subseteq noted', NEW w \in Worker, Step(w)
  PROVE  (\A v \in Worker : Enrolling(v)') /\ OneMembership'
<1> USE DEF Base
\* A step that gives nobody a clan.
<1>1. ASSUME ranks' \subseteq ranks, Others(w), Enrolling(w)'
      PROVE  (\A v \in Worker : Enrolling(v)') /\ OneMembership'
  BY <1>1 DEF Enrolling, OneMembership, RowsOf, Others
<1>2. Over(w) => Enrolling(w)'
  BY DEF Over, NoJob, Enrolling
\* A step that gives player p a row, and ends.
<1>3. ASSUME NEW p \in Player, NEW r, r.player = p, ranks' = ranks \union {r}, Over(w),
             Enrols(job[w], p), <<"enrol", p>> \notin noted => RowsOf(p) = {}
      PROVE  (\A v \in Worker : Enrolling(v)') /\ OneMembership'
  <2>1. OneMembership'
    BY <1>3 DEF OneMembership, RowsOf
  <2>2. ASSUME NEW v \in Worker \ {w} PROVE Enrolling(v)'
    <3>1. job'[v] = job[v]
      BY <1>3 DEF Over, Others
    <3>2. CASE Enrols(job[v], p)
      BY <1>3, <3>1, <3>2 DEF NoRaces, Enrolling, Enrols
    <3>3. CASE ~ Enrols(job[v], p)
      BY <1>3, <3>1, <3>3 DEF Enrolling, Enrols, RowsOf
    <3>4. QED
      BY <3>2, <3>3
  <2>3. QED
    BY <1>2, <1>3, <2>1, <2>2
\* A step that changes a rank.
<1>4. ASSUME NEW c, NEW p, NEW k \in Rank, ranks' = updateClanRank(c, p, k),
             Others(w), Enrolling(w)'
      PROVE  (\A v \in Worker : Enrolling(v)') /\ OneMembership'
  <2>1. /\ ranks' \in SUBSET RankRow
        /\ \A r \in ranks' :
             \E s \in ranks : /\ r.clan = s.clan /\ r.player = s.player
                              /\ IF r.clan = c /\ r.player = p THEN r.rank = k ELSE r = s
    BY <1>4, UpdatingARank DEF TypeOK
  <2>2. OneMembership'
    BY <2>1 DEF OneMembership, RankRow
  <2>3. ASSUME NEW v \in Worker \ {w} PROVE Enrolling(v)'
    BY <1>4, <2>1 DEF Enrolling, RowsOf, Others
  <2>4. QED
    BY <1>4, <2>2, <2>3
<1>5. CASE Queries(w)
  <2>1. ranks' = ranks /\ Others(w)
    BY <1>5, QueriesWriteNothing DEF tables
  <2>2. ASSUME CreateClan(w) PROVE Enrolling(w)'
    BY <2>1, <2>2, StartCreateClan DEF Begins, Enrolling, RowsOf, At
  <2>3. ASSUME CreateClanCheck(w) PROVE Enrolling(w)'
    <3>1. /\ At(w, "CreateClan", "queryClanByNameOrTag")
          /\ Ends(w) \/ Continues(w, "insertClan")
      BY <2>3, ReadCreateClanCheck
    <3>2. QED
      BY <1>2, <2>1, <3>1 DEF Ends, Continues, On, Enrolling, RowsOf, At
  <2>4. ASSUME AddMemberTarget(w) PROVE Enrolling(w)'
    <3>1. job[w].target \in Player /\ job'[w].target = job[w].target /\ job'[w].op = "AddMember"
      BY <2>4, ReadAddMemberTarget DEF FrameInv, Filled, At
    <3>2. CASE job'[w].next = "insertClanRank" /\ RowsOf(job[w].target) = {}
      BY <2>1, <3>1, <3>2 DEF Enrolling, RowsOf
    <3>3. CASE job'[w].next = "removeClanRank" /\ KnownIn(job[w].target, job'[w].from)
      BY <2>1, <3>1, <3>3 DEF KnownIn, Enrolling, RowsOf, OneMembership
    <3>4. QED
      BY <2>4, <3>2, <3>3, ReadAddMemberTarget
  <2>5. ASSUME ~ CreateClan(w), ~ CreateClanCheck(w), ~ AddMemberTarget(w)
        PROVE  Enrolling(w)'
    <3> SUFFICES /\ job'[w].op # "CreateClan"
                 /\ job'[w].op = "AddMember" =>
                       job'[w].next \notin {"removeClanRank", "insertClanRank"}
      BY DEF Enrolling
    <3> USE DEF Begins, Ends, Continues, Over, On, At, NoJob
    <3>3. CASE UpdateClan(w)
      BY <3>3, StartUpdateClan
    <3>4. CASE UpdateClanRead(w)
      BY <3>4, ReadUpdateClanRead
    <3>5. CASE UpdateClanRanks(w)
      BY <3>5, ReadUpdateClanRanks
    <3>6. CASE UpdateClanCheck(w)
      BY <3>6, ReadUpdateClanCheck
    <3>7. CASE Disband(w)
      BY <3>7, StartDisband
    <3>8. CASE DisbandRanks(w)
      BY <3>8, ReadDisbandRanks
    <3>9. CASE ChangeRank(w)
      BY <3>9, StartChangeRank
    <3>10. CASE ChangeRankTarget(w)
      BY <3>10, ReadChangeRankTarget
    <3>11. CASE ChangeRankRanks(w)
      BY <3>11, ReadChangeRankRanks DEF FirstRankCall
    <3>12. CASE AddMember(w)
      BY <3>12, StartAddMember
    <3>13. CASE AddMemberRanks(w)
      BY <3>13, ReadAddMemberRanks
    <3>15. CASE DeleteMember(w)
      BY <3>15, StartDeleteMember
    <3>16. CASE DeleteMemberTarget(w)
      BY <3>16, ReadDeleteMemberTarget
    <3>17. CASE DeleteMemberRanks(w)
      BY <3>17, ReadDeleteMemberRanks
    <3>18. QED
      BY <1>5, <2>5, <3>3, <3>4, <3>5, <3>6, <3>7, <3>8, <3>9, <3>10, <3>11, <3>12, <3>13,
         <3>15, <3>16, <3>17 DEF Queries
  <2>6. QED
    BY <1>1, <2>1, <2>2, <2>3, <2>4, <2>5
<1>6. CASE CreateClanInsert(w)
  <2>1. /\ ranks' = ranks /\ Others(w)
        /\ job[w].op = "CreateClan" /\ job'[w].op = "CreateClan" /\ job'[w].me = job[w].me
    BY <1>6, CreateClanInserts DEF At
  <2>2. Enrolling(w)'
    BY <2>1 DEF Enrolling, RowsOf
  <2>3. QED
    BY <1>1, <2>1, <2>2
<1>7. CASE CreateClanLeader(w)
  <2>1. /\ Over(w) /\ job[w].op = "CreateClan" /\ job[w].me \in Player
        /\ ranks' = ranks \union {[clan |-> job[w].clan, player |-> job[w].me, rank |-> Leader]}
    BY <1>7, FinishIsOver DEF CreateClanLeader, insertClanRank, At, FrameInv, Filled
  <2>2. QED
    BY <1>3, <2>1 DEF Enrolling, Enrols
<1>8. CASE UpdateClanWrite(w)
  BY <1>1, <1>2, <1>8, UpdateClanWrites DEF Over
<1>9. CASE DisbandClear(w)
  <2>1. On(w, "disableClan") /\ ranks' \subseteq ranks /\ At(w, "Disband", "removeClanRanksByClanId")
    BY <1>9, GoIsOn DEF DisbandClear, removeClanRanksByClanId, Call
  <2>2. QED
    BY <1>1, <2>1 DEF On, Enrolling, At
<1>10. CASE DisbandDisable(w)
  BY <1>1, <1>2, <1>10, DisbandDisables DEF Over
<1>11. CASE ChangeRankDemote(w)
  <2>1. On(w, "updateClanRank") /\ At(w, "ChangeRank", "demote")
    BY <1>11, ChangeRankDemotes
  <2>2. Others(w) /\ job'[w].op = "ChangeRank"
    BY <2>1 DEF On, At
  <2>3. ranks' = updateClanRank(job[w].clan, job[w].me, Co_Leader) /\ Co_Leader \in Rank
    BY <1>11, ChangeRankDemotes DEF Rank
  <2>4. Enrolling(w)'
    BY <2>2 DEF Enrolling
  <2>5. QED
    BY <1>4, <2>2, <2>3, <2>4
<1>12. CASE ChangeRankSet(w)
  BY <1>2, <1>4, <1>12, ChangeRankSets DEF Over
<1>13. CASE AddMemberRemove(w)
  <2>1. /\ On(w, "insertClanRank") /\ At(w, "AddMember", "removeClanRank")
        /\ ranks' = {r \in ranks : r.clan # job[w].from \/ r.player # job[w].target}
    BY <1>13, GoIsOn DEF AddMemberRemove, removeClanRank, Call
  <2>2. Enrolling(w)'
    BY <2>1 DEF On, Enrolling, RowsOf, At
  <2>3. QED
    BY <1>1, <2>1, <2>2 DEF On
<1>14. CASE AddMemberInsert(w)
  <2>1. /\ Over(w) /\ At(w, "AddMember", "insertClanRank") /\ job[w].target \in Player
        /\ ranks' = ranks \union {[clan |-> job[w].clan, player |-> job[w].target,
                                   rank |-> Member]}
    BY <1>14, FinishIsOver DEF AddMemberInsert, insertClanRank, At, FrameInv, Filled
  <2>2. QED
    BY <1>3, <2>1 DEF Enrolling, Enrols, At
<1>15. CASE DeleteMemberRemove(w)
  <2>1. Over(w) /\ ranks' \subseteq ranks
    BY <1>15, FinishIsOver DEF DeleteMemberRemove, removeClanRank
  <2>2. QED
    BY <1>1, <1>2, <2>1 DEF Over
<1>16. QED
  BY <1>5, <1>6, <1>7, <1>8, <1>9, <1>10, <1>11, <1>12, <1>13, <1>14, <1>15 DEF Step, Queries

(***************************************************************************)
(* MembersOfEnabledClans, with Closing.                                    *)
(***************************************************************************)
LEMMA EnabledNext ==
  ASSUME Base, NoRaces, \A v \in Worker : Closing(v), MembersOfEnabledClans,
         noted \subseteq noted', NEW w \in Worker, Step(w)
  PROVE  (\A v \in Worker : Closing(v)') /\ MembersOfEnabledClans'
<1> USE DEF Base
\* A step that disables no clan and puts nobody in one.
<1>1. ASSUME \A r \in ranks' : \E s \in ranks : s.clan = r.clan,
             \A c \in Clan : Enabled(c) => Enabled(c)', Others(w), Closing(w)'
      PROVE  (\A v \in Worker : Closing(v)') /\ MembersOfEnabledClans'
  <2>1. MembersOfEnabledClans'
    BY <1>1 DEF MembersOfEnabledClans, TypeOK, RankRow
  <2>2. ASSUME NEW v \in Worker \ {w} PROVE Closing(v)'
    <3>1. job'[v] = job[v] /\ job[v].clan \in Clan \union {None}
      BY <1>1 DEF Others, TypeOK, Job
    <3>2. InClan(job[v].clan) = {} => InClan(job[v].clan)' = {}
      BY <1>1, <3>1 DEF InClan
    <3>3. QED
      BY <1>1, <3>1, <3>2 DEF Closing, At, InClan
  <2>3. QED
    BY <1>1, <2>1, <2>2
<1>2. Over(w) => Closing(w)'
  BY DEF Over, NoJob, Closing, At
<1>3. CASE Queries(w)
  <2>1. clans' = clans /\ ranks' = ranks /\ Others(w)
    BY <1>3, QueriesWriteNothing DEF tables
  <2>2. ASSUME AddMember(w) PROVE Closing(w)'
    BY <2>1, <2>2, StartAddMember
    DEF Begins, At, Closing, KnownIn, MembersOfEnabledClans, Enabled
  <2>3. ASSUME AddMemberRanks(w) PROVE Closing(w)'
    <3>1. /\ At(w, "AddMember", "queryClanRanksByClanId")
          /\ Ends(w) \/ Continues(w, "queryClanByProfileId")
      BY <2>3, ReadAddMemberRanks
    <3>2. QED
      BY <1>2, <2>1, <3>1 DEF Ends, Continues, On, Closing, Enabled, At
  <2>4. ASSUME AddMemberTarget(w) PROVE Closing(w)'
    BY <2>1, <2>4, ReadAddMemberTarget DEF Closing, Enabled, At
  <2>5. ASSUME ~ AddMember(w), ~ AddMemberRanks(w), ~ AddMemberTarget(w)
        PROVE  Closing(w)'
    <3> SUFFICES job'[w].op # "AddMember" /\ ~ At(w, "Disband", "disableClan")'
      BY DEF Closing
    <3> USE DEF Begins, Ends, Continues, Over, On, At, NoJob
    <3>1. CASE CreateClan(w)
      BY <3>1, StartCreateClan
    <3>2. CASE CreateClanCheck(w)
      BY <3>2, ReadCreateClanCheck
    <3>3. CASE UpdateClan(w)
      BY <3>3, StartUpdateClan
    <3>4. CASE UpdateClanRead(w)
      BY <3>4, ReadUpdateClanRead
    <3>5. CASE UpdateClanRanks(w)
      BY <3>5, ReadUpdateClanRanks
    <3>6. CASE UpdateClanCheck(w)
      BY <3>6, ReadUpdateClanCheck
    <3>7. CASE Disband(w)
      BY <3>7, StartDisband
    <3>8. CASE DisbandRanks(w)
      BY <3>8, ReadDisbandRanks
    <3>9. CASE ChangeRank(w)
      BY <3>9, StartChangeRank
    <3>10. CASE ChangeRankTarget(w)
      BY <3>10, ReadChangeRankTarget
    <3>11. CASE ChangeRankRanks(w)
      BY <3>11, ReadChangeRankRanks DEF FirstRankCall
    <3>15. CASE DeleteMember(w)
      BY <3>15, StartDeleteMember
    <3>16. CASE DeleteMemberTarget(w)
      BY <3>16, ReadDeleteMemberTarget
    <3>17. CASE DeleteMemberRanks(w)
      BY <3>17, ReadDeleteMemberRanks
    <3>18. QED
      BY <1>3, <2>5, <3>1, <3>2, <3>3, <3>4, <3>5, <3>6, <3>7, <3>8, <3>9, <3>10, <3>11,
         <3>15, <3>16, <3>17 DEF Queries
  <2>6. QED
    BY <1>1, <2>1, <2>2, <2>3, <2>4, <2>5 DEF Enabled
<1>4. CASE CreateClanInsert(w)
  <2>1. \A c \in Clan : Enabled(c) => Enabled(c)'
    BY <1>4, CreateClanInserts DEF Enabled
  <2>2. Closing(w)'
    BY <1>4, CreateClanInserts DEF Closing, At
  <2>3. QED
    BY <1>1, <1>4, <2>1, <2>2, CreateClanInserts
<1>5. CASE CreateClanLeader(w)
  <2>1. /\ clans' = clans /\ Over(w) /\ Founding(w)
        /\ ranks' = ranks \union {[clan |-> job[w].clan, player |-> job[w].me, rank |-> Leader]}
    BY <1>5, FinishIsOver DEF CreateClanLeader, insertClanRank, Founding
  <2>2. /\ Enabled(job[w].clan)
        /\ \A v \in Worker \ {w} : job[v].clan # job[w].clan
    BY <2>1 DEF FoundingInv, FoundedBy
  <2>3. MembersOfEnabledClans'
    BY <2>1, <2>2 DEF MembersOfEnabledClans, Enabled
  <2>4. ASSUME NEW v \in Worker \ {w} PROVE Closing(v)'
    BY <2>1, <2>2, <2>4 DEF Closing, InClan, Enabled, Over, Others, At
  <2>5. QED
    BY <1>2, <2>1, <2>3, <2>4
<1>6. CASE UpdateClanWrite(w)
  <2>1. \A c \in Clan : Enabled(c) => Enabled(c)'
    BY <1>6, UpdateClanWrites DEF Enabled
  <2>2. QED
    BY <1>1, <1>2, <1>6, <2>1, UpdateClanWrites DEF Over
<1>7. CASE DisbandClear(w)
  <2>1. /\ clans' = clans /\ On(w, "disableClan") /\ At(w, "Disband", "removeClanRanksByClanId")
        /\ ranks' = {r \in ranks : r.clan # job[w].clan}
    BY <1>7, GoIsOn DEF DisbandClear, removeClanRanksByClanId, Call
  <2>2. Closing(w)'
    BY <2>1 DEF On, Closing, InClan, At
  <2>3. QED
    BY <1>1, <2>1, <2>2 DEF On, Enabled
<1>8. CASE DisbandDisable(w)
  <2>1. /\ ranks' = ranks /\ Over(w) /\ At(w, "Disband", "disableClan") /\ job[w].clan \in Clan
        /\ \A c \in Clan \ {job[w].clan} : Enabled(c) => Enabled(c)'
    BY <1>8, DisbandDisables DEF Enabled
  <2>2. <<"close", job[w].clan>> \notin noted => InClan(job[w].clan) = {}
    BY <2>1 DEF Closing
  <2>3. MembersOfEnabledClans'
    BY <2>1, <2>2 DEF MembersOfEnabledClans, InClan, TypeOK, RankRow
  <2>4. ASSUME NEW v \in Worker \ {w} PROVE Closing(v)'
    <3>1. job'[v] = job[v] /\ job[v].clan \in Clan \union {None}
      BY <2>1 DEF Over, Others, TypeOK, Job
    <3>2. CASE job[v].op = "AddMember" /\ job[v].clan = job[w].clan
      BY <2>1, <3>1, <3>2 DEF NoRaces, Closing, At
    <3>3. CASE ~ (job[v].op = "AddMember" /\ job[v].clan = job[w].clan)
      BY <2>1, <3>1, <3>3 DEF Closing, InClan, At
    <3>4. QED
      BY <3>2, <3>3
  <2>5. QED
    BY <1>2, <2>1, <2>3, <2>4
<1>9. CASE ChangeRankDemote(w)
  <2>1. \A r \in ranks' : \E s \in ranks : s.clan = r.clan
    BY <1>9, ChangeRankDemotes, UpdatingARank DEF TypeOK, Rank
  <2>2. Closing(w)'
    BY <1>9, ChangeRankDemotes DEF On, Closing, At
  <2>3. QED
    BY <1>1, <1>9, <2>1, <2>2, ChangeRankDemotes DEF On, Enabled
<1>10. CASE ChangeRankSet(w)
  <2>1. \A r \in ranks' : \E s \in ranks : s.clan = r.clan
    BY <1>10, ChangeRankSets, UpdatingARank DEF TypeOK
  <2>2. QED
    BY <1>1, <1>2, <1>10, <2>1, ChangeRankSets DEF Over, Enabled
<1>11. CASE AddMemberRemove(w)
  <2>1. /\ clans' = clans /\ On(w, "insertClanRank") /\ At(w, "AddMember", "removeClanRank")
        /\ ranks' \subseteq ranks
    BY <1>11, GoIsOn DEF AddMemberRemove, removeClanRank, Call
  <2>2. Closing(w)'
    BY <2>1 DEF On, Closing, Enabled, At
  <2>3. QED
    BY <1>1, <2>1, <2>2 DEF On, Enabled
<1>12. CASE AddMemberInsert(w)
  <2>1. /\ clans' = clans /\ Over(w) /\ At(w, "AddMember", "insertClanRank")
        /\ job[w].clan \in Clan
        /\ ranks' = ranks \union {[clan |-> job[w].clan, player |-> job[w].target,
                                   rank |-> Member]}
    BY <1>12, FinishIsOver DEF AddMemberInsert, insertClanRank, FrameInv, Filled, At
  <2>2. <<"close", job[w].clan>> \notin noted => Enabled(job[w].clan)
    BY <2>1, ClansAssumption DEF Closing, At
  <2>3. MembersOfEnabledClans'
    BY <2>1, <2>2 DEF MembersOfEnabledClans, Enabled
  <2>4. ASSUME NEW v \in Worker \ {w} PROVE Closing(v)'
    <3>1. job'[v] = job[v]
      BY <2>1 DEF Over, Others
    <3>2. CASE job[v].op = "Disband" /\ job[v].clan = job[w].clan
      BY <2>1, <3>1, <3>2 DEF NoRaces, Closing, At
    <3>3. CASE ~ (job[v].op = "Disband" /\ job[v].clan = job[w].clan)
      BY <2>1, <3>1, <3>3 DEF Closing, InClan, Enabled, At
    <3>4. QED
      BY <3>2, <3>3
  <2>5. QED
    BY <1>2, <2>1, <2>3, <2>4
<1>13. CASE DeleteMemberRemove(w)
  <2>1. clans' = clans /\ Over(w) /\ ranks' \subseteq ranks
    BY <1>13, FinishIsOver DEF DeleteMemberRemove, removeClanRank
  <2>2. QED
    BY <1>1, <1>2, <2>1 DEF Over, Enabled
<1>14. QED
  BY <1>3, <1>4, <1>5, <1>6, <1>7, <1>8, <1>9, <1>10, <1>11, <1>12, <1>13 DEF Step, Queries

(***************************************************************************)
(* UniqueNamesAndTags, with Naming.                                        *)
(***************************************************************************)
LEMMA NamesNext ==
  ASSUME Base, NoRaces, NoRaces', \A v \in Worker : Naming(v), UniqueNamesAndTags,
         noted \subseteq noted', NEW w \in Worker, Step(w)
  PROVE  (\A v \in Worker : Naming(v)') /\ UniqueNamesAndTags'
<1> USE DEF Base
\* A step that gives no clan a name or a tag.
<1>1. ASSUME \A c \in Clan : /\ Enabled(c)' => Enabled(c)
                             /\ clans'[c].name = clans[c].name
                             /\ clans'[c].tag = clans[c].tag,
             Others(w), Naming(w)'
      PROVE  (\A v \in Worker : Naming(v)') /\ UniqueNamesAndTags'
  <2>1. UniqueNamesAndTags'
    BY <1>1 DEF UniqueNamesAndTags
  <2>2. ASSUME NEW v \in Worker \ {w} PROVE Naming(v)'
    BY <1>1 DEF Naming, Others, At
  <2>3. QED
    BY <1>1, <2>1, <2>2
<1>2. Over(w) => Naming(w)'
  BY DEF Over, NoJob, Naming, At
<1>3. CASE Queries(w)
  <2>1. clans' = clans /\ Others(w)
    BY <1>3, QueriesWriteNothing DEF tables
  <2>2. ASSUME CreateClanCheck(w) PROVE Naming(w)'
    <3>1. /\ At(w, "CreateClan", "queryClanByNameOrTag")
          /\ \/ Ends(w)
             \/ /\ Continues(w, "insertClan")
                /\ queryClanByNameOrTag(job[w].name, job[w].tag) = {}
      BY <2>2, ReadCreateClanCheck
    <3>2. CASE /\ Continues(w, "insertClan")
               /\ queryClanByNameOrTag(job[w].name, job[w].tag) = {}
      BY <2>1, <3>1, <3>2 DEF Continues, On, Naming, queryClanByNameOrTag, Enabled, At
    <3>3. QED
      BY <1>2, <3>1, <3>2 DEF Ends
  <2>3. ASSUME UpdateClanCheck(w) PROVE Naming(w)'
    <3> DEFINE Q == queryClanByNameOrTag(NoName, job[w].tag)
    <3>1. /\ At(w, "UpdateClan", "queryClanByNameOrTag")
          /\ Ends(w) \/ (Continues(w, "updateClan") /\ (Q = {} \/ job[w].clan \in Q))
      BY <2>3, ReadUpdateClanCheck
    <3>2. CASE Continues(w, "updateClan") /\ (Q = {} \/ job[w].clan \in Q)
      <4>1. /\ At(w, "UpdateClan", "updateClan")'
            /\ job'[w].tag = job[w].tag /\ job'[w].clan = job[w].clan
        BY <3>1, <3>2 DEF Continues, On, At
      <4>2. ASSUME NEW d \in Clan, Enabled(d), d # job[w].clan,
                   \A c \in Clan : clans[c].name # NoName,
                   <<"name", job[w].tag>> \notin noted
            PROVE  clans[d].tag # job[w].tag
        <5>1. CASE Q = {}
          BY <4>2, <5>1 DEF queryClanByNameOrTag
        <5>2. CASE job[w].clan \in Q
          BY <4>2, <5>2 DEF queryClanByNameOrTag, UniqueNamesAndTags
        <5>3. QED
          BY <3>2, <5>1, <5>2
      <4>3. QED
        BY <2>1, <4>1, <4>2 DEF Naming, Enabled, At
    <3>3. QED
      BY <1>2, <3>1, <3>2 DEF Ends
  <2>4. ASSUME ~ CreateClanCheck(w), ~ UpdateClanCheck(w) PROVE Naming(w)'
    <3> SUFFICES ~ At(w, "CreateClan", "insertClan")' /\ ~ At(w, "UpdateClan", "updateClan")'
      BY DEF Naming
    <3> USE DEF Begins, Ends, Continues, Over, On, At, NoJob
    <3>1. CASE CreateClan(w)
      BY <3>1, StartCreateClan
    <3>3. CASE UpdateClan(w)
      BY <3>3, StartUpdateClan
    <3>4. CASE UpdateClanRead(w)
      BY <3>4, ReadUpdateClanRead
    <3>5. CASE UpdateClanRanks(w)
      BY <3>5, ReadUpdateClanRanks
    <3>7. CASE Disband(w)
      BY <3>7, StartDisband
    <3>8. CASE DisbandRanks(w)
      BY <3>8, ReadDisbandRanks
    <3>9. CASE ChangeRank(w)
      BY <3>9, StartChangeRank
    <3>10. CASE ChangeRankTarget(w)
      BY <3>10, ReadChangeRankTarget
    <3>11. CASE ChangeRankRanks(w)
      BY <3>11, ReadChangeRankRanks DEF FirstRankCall
    <3>12. CASE AddMember(w)
      BY <3>12, StartAddMember
    <3>13. CASE AddMemberRanks(w)
      BY <3>13, ReadAddMemberRanks
    <3>14. CASE AddMemberTarget(w)
      BY <3>14, ReadAddMemberTarget
    <3>15. CASE DeleteMember(w)
      BY <3>15, StartDeleteMember
    <3>16. CASE DeleteMemberTarget(w)
      BY <3>16, ReadDeleteMemberTarget
    <3>17. CASE DeleteMemberRanks(w)
      BY <3>17, ReadDeleteMemberRanks
    <3>18. QED
      BY <1>3, <2>4, <3>1, <3>3, <3>4, <3>5, <3>7, <3>8, <3>9, <3>10, <3>11, <3>12, <3>13,
         <3>14, <3>15, <3>16, <3>17 DEF Queries
  <2>5. QED
    BY <1>1, <2>1, <2>2, <2>3, <2>4 DEF Enabled
<1>4. CASE CreateClanInsert(w)
  <2> DEFINE c == job'[w].clan
             n == job[w].name
             t == job[w].tag
  <2>1. /\ At(w, "CreateClan", "insertClan") /\ Others(w)
        /\ At(w, "CreateClan", "insertClanRank")'
        /\ job'[w].name = n /\ job'[w].tag = t
        /\ c \in Clan /\ clans[c].state = "absent" /\ clans[c].name = None
        /\ clans'[c].name = n /\ clans'[c].tag = t
        /\ \A d \in Clan \ {c} : clans'[d] = clans[d]
        /\ n \in Name /\ t \in Tag
    BY <1>4, CreateClanInserts DEF FrameInv, Filled, At
  <2> HIDE DEF c, n, t
  <2>2. ASSUME \A d \in Clan : clans'[d].name # NoName
        PROVE  \A d \in Clan : clans[d].name # NoName
    BY <2>1, <2>2, ClansAssumption
  <2>3. \A d \in Clan \ {c} : Enabled(d)' =>
          /\ Enabled(d)
          /\ <<"name", n>> \notin noted' => clans'[d].name # n
          /\ <<"name", t>> \notin noted' => clans'[d].tag # t
    BY <2>1 DEF Naming, Enabled, n, t
  <2>4. UniqueNamesAndTags'
    <3>1. SUFFICES ASSUME \A d \in Clan : clans'[d].name # NoName,
                          NEW d \in Clan, NEW e \in Clan, Enabled(d)', Enabled(e)', d # e
                   PROVE  /\ <<"name", clans'[d].name>> \notin noted' =>
                               clans'[d].name # clans'[e].name
                          /\ <<"name", clans'[d].tag>> \notin noted' =>
                               clans'[d].tag # clans'[e].tag
      BY DEF UniqueNamesAndTags
    <3>2. CASE d = c \/ e = c
      BY <2>1, <2>3, <3>1, <3>2
    <3>3. CASE d # c /\ e # c
      BY <2>1, <2>2, <2>3, <3>1, <3>3 DEF UniqueNamesAndTags
    <3>4. QED
      BY <3>2, <3>3
  <2>5. Naming(w)'
    BY <2>1 DEF Naming, At
  <2>6. ASSUME NEW v \in Worker \ {w} PROVE Naming(v)'
    <3>1. job'[v] = job[v]
      BY <2>1 DEF Others
    <3>2. \A x \in {n, t} : <<"name", x>> \notin noted' => ~ Spells(job[v], x)
      BY <2>1, <3>1 DEF NoRaces, Spells, At, TagText
    <3>3. ASSUME NEW d \in Clan, Enabled(d)'
          PROVE  /\ At(v, "CreateClan", "insertClan") =>
                      /\ <<"name", job[v].name>> \notin noted' => clans'[d].name # job[v].name
                      /\ <<"name", job[v].tag>> \notin noted' => clans'[d].tag # job[v].tag
                 /\ (/\ At(v, "UpdateClan", "updateClan") /\ d # job[v].clan
                     /\ \A k \in Clan : clans'[k].name # NoName
                     /\ <<"name", job[v].tag>> \notin noted') => clans'[d].tag # job[v].tag
      <4>1. CASE d = c
        BY <2>1, <3>2, <4>1 DEF Spells, At
      <4>2. CASE d # c
        BY <2>1, <2>2, <2>3, <3>3, <4>2 DEF Naming
      <4>3. QED
        BY <4>1, <4>2
    <3>4. QED
      BY <3>1, <3>3 DEF Naming, At
  <2>7. QED
    BY <2>4, <2>5, <2>6
<1>5. CASE CreateClanLeader(w)
  BY <1>1, <1>2, <1>5, FinishIsOver DEF CreateClanLeader, Over, Enabled
<1>6. CASE UpdateClanWrite(w)
  <2> DEFINE k == job[w].clan
             t == job[w].tag
  <2>1. /\ At(w, "UpdateClan", "updateClan") /\ Over(w) /\ k \in Clan /\ t \in TagText
        /\ \A c \in Clan : /\ Enabled(c)' <=> Enabled(c)
                           /\ clans'[c].name = clans[c].name
                           /\ c # k => clans'[c].tag = clans[c].tag
        /\ clans'[k].tag = t
    BY <1>6, UpdateClanWrites DEF Enabled
  <2> HIDE DEF k, t
  <2>2. ASSUME \A c \in Clan : clans[c].name # NoName, <<"name", t>> \notin noted,
               NEW d \in Clan \ {k}, Enabled(d)
        PROVE  clans[d].tag # t
    BY <2>1, <2>2 DEF Naming, k, t
  <2>3. UniqueNamesAndTags'
    <3>1. SUFFICES ASSUME \A d \in Clan : clans[d].name # NoName,
                          NEW d \in Clan, NEW e \in Clan, Enabled(d), Enabled(e), d # e
                   PROVE  /\ <<"name", clans[d].name>> \notin noted =>
                               clans[d].name # clans[e].name
                          /\ <<"name", clans'[d].tag>> \notin noted =>
                               clans'[d].tag # clans'[e].tag
      BY <2>1 DEF UniqueNamesAndTags
    <3>2. CASE d = k \/ e = k
      BY <2>1, <2>2, <3>1, <3>2 DEF UniqueNamesAndTags
    <3>3. CASE d # k /\ e # k
      BY <2>1, <3>1, <3>3 DEF UniqueNamesAndTags
    <3>4. QED
      BY <3>2, <3>3
  <2>4. ASSUME NEW v \in Worker \ {w} PROVE Naming(v)'
    <3>1. job'[v] = job[v]
      BY <2>1 DEF Over, Others
    <3>2. <<"name", t>> \notin noted => ~ Spells(job[v], t)
      BY <2>1 DEF NoRaces, Spells, At, t
    <3>3. ASSUME NEW d \in Clan, Enabled(d)'
          PROVE  /\ At(v, "CreateClan", "insertClan") =>
                      /\ <<"name", job[v].name>> \notin noted' => clans'[d].name # job[v].name
                      /\ <<"name", job[v].tag>> \notin noted' => clans'[d].tag # job[v].tag
                 /\ (/\ At(v, "UpdateClan", "updateClan") /\ d # job[v].clan
                     /\ \A c \in Clan : clans'[c].name # NoName
                     /\ <<"name", job[v].tag>> \notin noted') => clans'[d].tag # job[v].tag
      <4>1. CASE d = k
        BY <2>1, <3>2, <3>3, <4>1 DEF Naming, Spells, At
      <4>2. CASE d # k
        BY <2>1, <3>3, <4>2 DEF Naming
      <4>3. QED
        BY <4>1, <4>2
    <3>4. QED
      BY <3>1, <3>3 DEF Naming, At
  <2>5. QED
    BY <1>2, <2>1, <2>3, <2>4
<1>7. CASE DisbandClear(w)
  <2>1. On(w, "disableClan") /\ clans' = clans
    BY <1>7, GoIsOn DEF DisbandClear, Call
  <2>2. QED
    BY <1>1, <2>1 DEF On, Naming, Enabled, At
<1>8. CASE DisbandDisable(w)
  BY <1>1, <1>2, <1>8, DisbandDisables DEF Over, Enabled
<1>9. CASE ChangeRankDemote(w)
  BY <1>1, <1>9, ChangeRankDemotes DEF On, Naming, Enabled, At
<1>10. CASE ChangeRankSet(w)
  BY <1>1, <1>2, <1>10, ChangeRankSets DEF Over, Enabled
<1>11. CASE AddMemberRemove(w)
  <2>1. On(w, "insertClanRank") /\ clans' = clans
    BY <1>11, GoIsOn DEF AddMemberRemove, Call
  <2>2. QED
    BY <1>1, <2>1 DEF On, Naming, Enabled, At
<1>12. CASE AddMemberInsert(w)
  BY <1>1, <1>2, <1>12, FinishIsOver DEF AddMemberInsert, Over, Enabled
<1>13. CASE DeleteMemberRemove(w)
  BY <1>1, <1>2, <1>13, FinishIsOver DEF DeleteMemberRemove, Over, Enabled
<1>14. QED
  BY <1>3, <1>4, <1>5, <1>6, <1>7, <1>8, <1>9, <1>10, <1>11, <1>12, <1>13 DEF Step, Queries

(***************************************************************************)
(* A crash leaves nobody at work.                                          *)
(***************************************************************************)
LEMMA CrashKeeps ==
  ASSUME Base, AtMostOneLeader, OneMembership, MembersOfEnabledClans, UniqueNamesAndTags,
         noted \subseteq noted', Crash
  PROVE  /\ clans' \in [Clan -> ClanRow] /\ ranks' \in SUBSET RankRow
         /\ job' \in [Worker -> Job]
         /\ FrameInv' /\ FoundingInv'
         /\ \A w \in Worker : HandOver(w)' /\ Enrolling(w)' /\ Closing(w)' /\ Naming(w)'
         /\ AtMostOneLeader' /\ OneMembership' /\ MembersOfEnabledClans' /\ UniqueNamesAndTags'
<1>1. clans' = clans /\ ranks' = ranks /\ \A w \in Worker : job'[w] = NoJob
  BY DEF Crash, tables
<1>2. NoJob \in Job
  BY DEF NoJob, Job, Op, Call
<1>3. clans' \in [Clan -> ClanRow] /\ ranks' \in SUBSET RankRow /\ job' \in [Worker -> Job]
  BY <1>1, <1>2 DEF Base, TypeOK, Crash
<1>4. FrameInv' /\ FoundingInv'
  BY <1>1, ClansAssumption
  DEF Base, FrameInv, Filled, FoundingInv, FoundedBy, Founding, InClan, NoJob, At
<1>5. \A w \in Worker : HandOver(w)' /\ Enrolling(w)' /\ Closing(w)' /\ Naming(w)'
  BY <1>1 DEF HandOver, Enrolling, Closing, Naming, NoJob, At
<1>6. AtMostOneLeader' /\ OneMembership' /\ MembersOfEnabledClans' /\ UniqueNamesAndTags'
  BY <1>1 DEF AtMostOneLeader, OneMembership, MembersOfEnabledClans, UniqueNamesAndTags, Enabled
<1>7. QED
  BY <1>3, <1>4, <1>5, <1>6

(***************************************************************************)
(* A call that fails changes no table, and lets its handler do something   *)
(* it should not only with a note of what it may spoil.                    *)
(***************************************************************************)
\* What a failure lets a handler go on with.
GoesOn(w) ==
  \/ /\ Begins(w, "CreateClan", "queryClanByNameOrTag")
     /\ job'[w].me \in Player /\ job'[w].name \in Name /\ job'[w].tag \in Tag
     /\ job'[w].clan = None /\ <<"enrol", job'[w].me>> \in noted'
  \/ /\ At(w, "CreateClan", "queryClanByNameOrTag") /\ On(w, "insertClan")
     /\ <<"name", job[w].name>> \in noted' /\ <<"name", job[w].tag>> \in noted'
  \/ /\ At(w, "UpdateClan", "queryClanByClanId")
     /\ At(w, "UpdateClan", "queryClanRanksByClanId")'
     /\ job'[w].me = job[w].me /\ job'[w].clan = job[w].clan
     /\ job'[w].from = job[w].from /\ job'[w].tag \in TagText
  \/ /\ At(w, "UpdateClan", "queryClanByNameOrTag") /\ On(w, "updateClan")
     /\ <<"name", job[w].tag>> \in noted'
  \/ /\ At(w, "Disband", "removeClanRanksByClanId") /\ On(w, "disableClan")
     /\ <<"close", job[w].clan>> \in noted'
  \/ /\ At(w, "ChangeRank", "demote") /\ On(w, "updateClanRank")
     /\ <<"rank", job[w].clan>> \in noted'
  \/ /\ At(w, "AddMember", "queryClanByProfileId") \/ At(w, "AddMember", "removeClanRank")
     /\ On(w, "insertClanRank")
     /\ <<"enrol", job[w].target>> \in noted'
  \/ At(w, "DeleteMember", "queryClanRanksByClanId") /\ On(w, "removeClanRank")

LEMMA FailureMeans ==
  ASSUME Base, NEW w \in Worker, Failure(w)
  PROVE  /\ UNCHANGED tables /\ Others(w) /\ job' \in [Worker -> Job]
         /\ Over(w) \/ GoesOn(w)
<1> USE DEF Base
<1>1. \A n \in Call : Go(w, n) => On(w, n) /\ Others(w) /\ job' \in [Worker -> Job]
  BY GoIsOn DEF On
<1>2. Finish(w) => Over(w) /\ Others(w) /\ job' \in [Worker -> Job]
  BY FinishIsOver DEF Over
<1>3. CASE CreateClanUnknown(w)
  <2>1. PICK p \in Player, n \in Name, t \in Tag :
          /\ Begin(w, [NoJob EXCEPT !.op = "CreateClan", !.next = "queryClanByNameOrTag",
                              !.me = p, !.name = n, !.tag = t])
          /\ Note({<<"enrol", p>>})
    BY <1>3 DEF CreateClanUnknown
  <2> DEFINE j == [NoJob EXCEPT !.op = "CreateClan", !.next = "queryClanByNameOrTag",
                              !.me = p, !.name = n, !.tag = t]
  <2>2. /\ j \in Job
        /\ j.op = "CreateClan" /\ j.next = "queryClanByNameOrTag" /\ j.from = None
        /\ j.me = p /\ j.name = n /\ j.tag = t /\ j.clan = None
    BY DEF NoJob, Job, Op, Call, TagText
  <2>3. job[w] = NoJob /\ job' = [job EXCEPT ![w] = j] /\ job'[w] = j /\ UNCHANGED tables
    BY <2>1 DEF Begin, TypeOK
  <2> HIDE DEF j
  <2>4. job' \in [Worker -> Job] /\ Others(w)
    BY <2>2, <2>3 DEF Others, TypeOK
  <2>5. <<"enrol", p>> \in noted'
    BY <2>1 DEF Note
  <2>6. QED
    BY <2>2, <2>3, <2>4, <2>5 DEF GoesOn, Begins, At
<1>4. CASE CreateClanCheckFails(w)
  BY <1>1, <1>4 DEF CreateClanCheckFails, GoesOn, Call, Note
<1>5. CASE UpdateClanReadFails(w)
  <2> DEFINE t == IF job[w].tag = None THEN NoTag ELSE job[w].tag
  <2>1. /\ At(w, "UpdateClan", "queryClanByClanId") /\ UNCHANGED tables
        /\ job' = [job EXCEPT ![w].tag = t, ![w].next = "queryClanRanksByClanId"]
    BY <1>5 DEF UpdateClanReadFails
  <2>2. job[w] \in Job /\ t \in TagText
    BY DEF TypeOK, Job, TagText
  <2> HIDE DEF t
  <2>3. QED
    BY <2>1, <2>2 DEF GoesOn, TypeOK, At, Others, Job, Call
<1>6. CASE UpdateClanCheckFails(w)
  BY <1>1, <1>6 DEF UpdateClanCheckFails, GoesOn, Call, Note
<1>7. CASE DisbandClearFails(w)
  BY <1>1, <1>7 DEF DisbandClearFails, GoesOn, Call, Note
<1>8. CASE ChangeRankDemoteFails(w)
  BY <1>1, <1>8 DEF ChangeRankDemoteFails, GoesOn, Call, Note
<1>9. CASE AddMemberTargetFails(w)
  BY <1>1, <1>9 DEF AddMemberTargetFails, GoesOn, Call, Note
<1>10. CASE DeleteMemberRanksFails(w)
  BY <1>1, <1>10 DEF DeleteMemberRanksFails, GoesOn, Call
<1>11. CASE LastCallFails(w)
  BY <1>2, <1>11 DEF LastCallFails
<1>12. QED
  BY <1>3, <1>4, <1>5, <1>6, <1>7, <1>8, <1>9, <1>10, <1>11 DEF Failure

LEMMA FailureKeeps ==
  ASSUME Base, AtMostOneLeader, OneMembership, MembersOfEnabledClans, UniqueNamesAndTags,
         \A v \in Worker : HandOver(v) /\ Enrolling(v) /\ Closing(v) /\ Naming(v),
         noted \subseteq noted', NEW w \in Worker, Failure(w)
  PROVE  /\ clans' \in [Clan -> ClanRow] /\ ranks' \in SUBSET RankRow
         /\ job' \in [Worker -> Job]
         /\ FrameInv' /\ FoundingInv'
         /\ \A v \in Worker : HandOver(v)' /\ Enrolling(v)' /\ Closing(v)' /\ Naming(v)'
         /\ AtMostOneLeader' /\ OneMembership' /\ MembersOfEnabledClans' /\ UniqueNamesAndTags'
<1>1. /\ clans' = clans /\ ranks' = ranks /\ Others(w) /\ job' \in [Worker -> Job]
      /\ Over(w) \/ GoesOn(w)
  BY FailureMeans DEF tables
<1>2. /\ clans' \in [Clan -> ClanRow] /\ ranks' \in SUBSET RankRow
      /\ AtMostOneLeader' /\ OneMembership' /\ MembersOfEnabledClans' /\ UniqueNamesAndTags'
  BY <1>1
  DEF Base, TypeOK, AtMostOneLeader, OneMembership, MembersOfEnabledClans, UniqueNamesAndTags,
      Enabled
<1>3. FrameInv'
  <2>1. Filled(w)'
    <3>1. CASE Over(w)
      BY <3>1 DEF Over, Filled, At, NoJob
    <3>2. CASE GoesOn(w)
      BY <3>2, ClansAssumption
      DEF GoesOn, Begins, On, Base, FrameInv, Filled, At, TagText
    <3>3. QED
      BY <1>1, <3>1, <3>2
  <2>2. ASSUME NEW v \in Worker \ {w} PROVE Filled(v)'
    BY <1>1 DEF Base, FrameInv, Filled, Others, At
  <2>3. QED
    BY <1>1, <2>1, <2>2 DEF Base, FrameInv
<1>4. FoundingInv'
  <2>1. /\ ~ Founding(w)'
        /\ \A c \in Clan : c \in {job'[w].clan, job'[w].from} => c \in {job[w].clan, job[w].from}
    <3>1. CASE Over(w)
      BY <3>1, ClansAssumption DEF Over, NoJob, Founding, At
    <3>2. CASE GoesOn(w)
      BY <3>2, ClansAssumption DEF GoesOn, Begins, On, Founding, At
    <3>3. QED
      BY <1>1, <3>1, <3>2
  <2>2. \A c \in Clan : InClan(c) = {} => InClan(c)' = {}
    BY <1>1 DEF InClan
  <2>3. QED
    BY <1>1, <2>1, <2>2, FoundingKept DEF Base
<1>5. ASSUME NEW v \in Worker \ {w}
      PROVE  HandOver(v)' /\ Enrolling(v)' /\ Closing(v)' /\ Naming(v)'
  <2>1. job'[v] = job[v]
    BY <1>1 DEF Others
  <2>2. HandOver(v)' /\ Enrolling(v)'
    BY <1>1, <2>1 DEF HandOver, Enrolling, InClan, RowsOf, At
  <2>3. Closing(v)' /\ Naming(v)'
    BY <1>1, <2>1 DEF Closing, Naming, InClan, Enabled, At
  <2>4. QED
    BY <2>2, <2>3
<1>6. HandOver(w)' /\ Enrolling(w)' /\ Closing(w)' /\ Naming(w)'
  <2>1. CASE Over(w)
    BY <2>1 DEF Over, NoJob, HandOver, Enrolling, Closing, Naming, At
  <2>2. CASE GoesOn(w)
    <3>1. HandOver(w)'
      BY <2>2 DEF GoesOn, Begins, On, HandOver, At
    <3>2. Enrolling(w)'
      BY <1>1, <2>2 DEF GoesOn, Begins, On, Enrolling, RowsOf, At
    <3>3. Closing(w)'
      BY <1>1, <2>2 DEF GoesOn, Begins, On, Closing, InClan, Enabled, At
    <3>4. Naming(w)'
      BY <1>1, <2>2 DEF GoesOn, Begins, On, Naming, Enabled, At
    <3>5. QED
      BY <3>1, <3>2, <3>3, <3>4
  <2>3. QED
    BY <1>1, <2>1, <2>2
<1>7. QED
  BY <1>1, <1>2, <1>3, <1>4, <1>5, <1>6

(***************************************************************************)
(* The history.                                                            *)
(***************************************************************************)
LEMMA RacesNotedMeans ==
  ASSUME RacesNoted PROVE NoRaces
  BY DEF RacesNoted, Races, RankRaces, CloseRaces, EnrolRaces, NameRaces, NoRaces

\* What noted may hold.
Notes == ({"rank", "close"} \X Clan) \union ({"enrol"} \X Player)
           \union ({"name"} \X (Name \union TagText))

LEMMA HistoryNext ==
  ASSUME Base, Next
  PROVE  noted \subseteq noted' /\ RacesNoted' /\ NoRaces' /\ noted' \in SUBSET Notes
<1> USE DEF Notes
<1>1. \E S \in SUBSET Notes : Note(S)
  <2>1. CASE Note({})
    BY <2>1
  <2>2. ASSUME NEW w \in Worker, Failure(w) PROVE \E S \in SUBSET Notes : Note(S)
    <3> USE DEF Base, FrameInv, Filled, At
    <3>1. CASE CreateClanUnknown(w)
      <4>1. PICK p \in Player : Note({<<"enrol", p>>})
        BY <3>1 DEF CreateClanUnknown
      <4>2. {<<"enrol", p>>} \in SUBSET Notes
        OBVIOUS
      <4>3. QED
        BY <4>1, <4>2
    <3>2. CASE CreateClanCheckFails(w)
      <4>1. Note({"name"} \X {job[w].name, job[w].tag})
        BY <3>2 DEF CreateClanCheckFails
      <4>2. job[w].name \in Name /\ job[w].tag \in TagText
        BY <3>2 DEF CreateClanCheckFails, TagText
      <4>3. {"name"} \X {job[w].name, job[w].tag} \in SUBSET Notes
        BY <4>2
      <4>4. QED
        BY <4>1, <4>3
    <3>3. CASE UpdateClanCheckFails(w)
      <4>1. Note({<<"name", job[w].tag>>}) /\ job[w].tag \in TagText
        BY <3>3 DEF UpdateClanCheckFails
      <4>2. {<<"name", job[w].tag>>} \in SUBSET Notes
        BY <4>1
      <4>3. QED
        BY <4>1, <4>2
    <3>4. CASE DisbandClearFails(w)
      <4>1. Note({<<"close", job[w].clan>>}) /\ job[w].clan \in Clan
        BY <3>4 DEF DisbandClearFails
      <4>2. {<<"close", job[w].clan>>} \in SUBSET Notes
        BY <4>1
      <4>3. QED
        BY <4>1, <4>2
    <3>5. CASE ChangeRankDemoteFails(w)
      <4>1. Note({<<"rank", job[w].clan>>}) /\ job[w].clan \in Clan
        BY <3>5 DEF ChangeRankDemoteFails
      <4>2. {<<"rank", job[w].clan>>} \in SUBSET Notes
        BY <4>1
      <4>3. QED
        BY <4>1, <4>2
    <3>6. CASE AddMemberTargetFails(w)
      <4>1. Note({<<"enrol", job[w].target>>}) /\ job[w].target \in Player
        BY <3>6 DEF AddMemberTargetFails
      <4>2. {<<"enrol", job[w].target>>} \in SUBSET Notes
        BY <4>1
      <4>3. QED
        BY <4>1, <4>2
    <3>7. CASE UpdateClanReadFails(w) \/ DeleteMemberRanksFails(w) \/ LastCallFails(w)
      BY <2>1, <3>7 DEF UpdateClanReadFails, DeleteMemberRanksFails, LastCallFails
    <3>8. QED
      BY <2>2, <3>1, <3>2, <3>3, <3>4, <3>5, <3>6, <3>7 DEF Failure
  <2>3. QED
    BY <2>1, <2>2 DEF Next
<1>2. PICK S \in SUBSET Notes : noted' = noted \union Races' \union S
  BY <1>1 DEF Note
<1>3. Races' \in SUBSET Notes
  BY DEF Races, RankRaces, CloseRaces, EnrolRaces, NameRaces
<1>4. RacesNoted'
  BY <1>2 DEF RacesNoted
<1>5. NoRaces'
  BY <1>4 DEF RacesNoted, Races, RankRaces, CloseRaces, EnrolRaces, NameRaces, NoRaces
<1>6. QED
  BY <1>2, <1>3, <1>4, <1>5 DEF Base, TypeOK

(***************************************************************************)
(* IInv is inductive.                                                      *)
(***************************************************************************)
LEMMA InitIInv == Init => IInv
<1> SUFFICES ASSUME Init PROVE IInv
  OBVIOUS
<1>1. /\ ranks = {} /\ noted = {} /\ \A w \in Worker : job[w] = NoJob
      /\ \A c \in Clan : clans[c] = [state |-> "absent", name |-> None, tag |-> None]
  BY DEF Init
<1>2. NoJob \in Job
  BY DEF NoJob, Job, Op, Call
<1>3. TypeOK
  BY <1>1, <1>2 DEF Init, TypeOK, ClanRow, ClanState
<1>4. FrameInv /\ FoundingInv
  BY <1>1, ClansAssumption
  DEF FrameInv, Filled, FoundingInv, FoundedBy, Founding, InClan, NoJob, At
<1>5. RacesNoted
  BY <1>1, ClansAssumption
  DEF RacesNoted, Races, RankRaces, CloseRaces, EnrolRaces, NameRaces, Enrols, Spells, NoJob
<1>6. \A w \in Worker : HandOver(w) /\ Enrolling(w) /\ Closing(w) /\ Naming(w)
  BY <1>1 DEF HandOver, Enrolling, Closing, Naming, NoJob, At
<1>7. AtMostOneLeader /\ OneMembership /\ MembersOfEnabledClans /\ UniqueNamesAndTags
  BY <1>1 DEF AtMostOneLeader, OneMembership, MembersOfEnabledClans, UniqueNamesAndTags, Enabled
<1>8. QED
  BY <1>3, <1>4, <1>5, <1>6, <1>7 DEF IInv

LEMMA NextIInv == IInv /\ [Next]_vars => IInv'
<1> SUFFICES ASSUME IInv, [Next]_vars PROVE IInv'
  OBVIOUS
<1>1. Base /\ NoRaces
  BY RacesNotedMeans DEF IInv, Base
<1>2. CASE Next
  <2>1. noted \subseteq noted' /\ RacesNoted' /\ NoRaces' /\ noted' \in SUBSET Notes
    BY <1>1, <1>2, HistoryNext
  <2>2. CASE Crash
    BY <1>1, <2>1, <2>2, CrashKeeps DEF IInv, TypeOK, Notes
  <2>3. ASSUME NEW w \in Worker, Step(w) PROVE IInv'
    <3>1. TypeOK'
      BY <1>1, <2>1, <2>3, TypesNext DEF TypeOK, Notes
    <3>2. FrameInv' /\ FoundingInv'
      BY <1>1, <2>3, FrameNext, FoundingNext
    <3>3. (\A v \in Worker : HandOver(v)') /\ AtMostOneLeader'
      BY <1>1, <2>1, <2>3, LeaderNext DEF IInv
    <3>4. (\A v \in Worker : Enrolling(v)') /\ OneMembership'
      BY <1>1, <2>1, <2>3, MembershipNext DEF IInv
    <3>5. (\A v \in Worker : Closing(v)') /\ MembersOfEnabledClans'
      BY <1>1, <2>1, <2>3, EnabledNext DEF IInv
    <3>6. (\A v \in Worker : Naming(v)') /\ UniqueNamesAndTags'
      BY <1>1, <2>1, <2>3, NamesNext DEF IInv
    <3>7. QED
      BY <2>1, <3>1, <3>2, <3>3, <3>4, <3>5, <3>6 DEF IInv
  <2>4. ASSUME NEW w \in Worker, Failure(w) PROVE IInv'
    BY <1>1, <2>1, <2>4, FailureKeeps DEF IInv, TypeOK, Notes
  <2>5. QED
    BY <1>2, <2>2, <2>3, <2>4 DEF Next
<1>3. CASE UNCHANGED vars
  <2>1. clans' = clans /\ ranks' = ranks /\ job' = job /\ noted' = noted
    BY <1>3 DEF vars
  <2>2. TypeOK' /\ FrameInv'
    BY <2>1 DEF IInv, TypeOK, FrameInv, Filled, At
  <2>3. FoundingInv'
    BY <2>1 DEF IInv, FoundingInv, FoundedBy, Founding, InClan, Enabled, At
  <2>4. RacesNoted'
    BY <2>1 DEF IInv, RacesNoted, Races, RankRaces, CloseRaces, EnrolRaces, NameRaces
  <2>5. \A v \in Worker : HandOver(v)' /\ Enrolling(v)' /\ Closing(v)' /\ Naming(v)'
    <3>1. ASSUME NEW v \in Worker PROVE HandOver(v)' /\ Enrolling(v)'
      BY <2>1 DEF IInv, HandOver, Enrolling, InClan, RowsOf, At
    <3>2. ASSUME NEW v \in Worker PROVE Closing(v)' /\ Naming(v)'
      BY <2>1 DEF IInv, Closing, Naming, InClan, Enabled, At
    <3>3. QED
      BY <3>1, <3>2
  <2>6. AtMostOneLeader' /\ OneMembership' /\ MembersOfEnabledClans' /\ UniqueNamesAndTags'
    BY <2>1
    DEF IInv, AtMostOneLeader, OneMembership, MembersOfEnabledClans, UniqueNamesAndTags, Enabled
  <2>7. QED
    BY <2>2, <2>3, <2>4, <2>5, <2>6 DEF IInv
<1>4. QED
  BY <1>2, <1>3

LEMMA Invariance == Spec => []IInv
  BY InitIInv, NextIInv, PTL DEF Spec

(***************************************************************************)
(* The theorems.                                                           *)
(***************************************************************************)
\* Whatever number a request spells, whichever call fails and wherever the
\* process dies, the tables of the clan service hold rows of their types.
THEOREM ClanTypes == Spec => []TypeOK
<1>1. IInv => TypeOK
  BY DEF IInv
<1>2. QED
  BY <1>1, Invariance, PTL

\* requestChangeRank never leaves a clan with two leaders, whatever the other
\* clan requests do meanwhile and whatever other calls fail, unless two rank
\* changes in the clan overlapped or the demotion of its leader failed, a
\* result the handler does not look at.
THEOREM OneLeader == Spec => []AtMostOneLeader
<1>1. IInv => AtMostOneLeader
  BY DEF IInv
<1>2. QED
  BY <1>1, Invariance, PTL

\* requestCreateClan and requestAddMember never leave a player with two rows in
\* ClanRanks, unless two of them that were about the player overlapped, or one
\* of them failed to find the player's clan or to remove its old row.
THEOREM AMemberOfOneClan == Spec => []OneMembership
<1>1. IInv => OneMembership
  BY DEF IInv
<1>2. QED
  BY <1>1, Invariance, PTL

\* A disbanded clan has no rows in ClanRanks, unless somebody was being added
\* to it while requestDisband was under way, or removing its rows failed.
THEOREM NoMembersLeftBehind == Spec => []MembersOfEnabledClans
<1>1. IInv => MembersOfEnabledClans
  BY DEF IInv
<1>2. QED
  BY <1>1, Invariance, PTL

\* Enabled clans share neither name nor tag, unless the requests that wrote it
\* overlapped, the look-up for it failed, or a clan was created without a name.
THEOREM NamesAndTagsDiffer == Spec => []UniqueNamesAndTags
<1>1. IInv => UniqueNamesAndTags
  BY DEF IInv
<1>2. QED
  BY <1>1, Invariance, PTL

-----------------------------------------------------------------------------
(***************************************************************************)
(* Clans implements ClanRules, for every number of players, clans, names,  *)
(* tags and workers, as long as no two requests race and no failure is     *)
(* noted.                                                                  *)
(*                                                                         *)
(* The argument.  As long as noted is empty, IInv says that a player has   *)
(* at most one row, so placeOf reads the table without a choice, and what  *)
(* the handler about to write relies on is the guard of the step of        *)
(* ClanRules it takes: that the founder and the new member are nowhere     *)
(* (Enrolling), that the clan they enter is open and a clan about to be    *)
(* closed is empty (Closing), that nobody leads it when a leader is named  *)
(* (HandOver).  A write that finds no row to change is a stutter.          *)
(***************************************************************************)

\* The place a table R gives the player p.
PlaceIn(R, p) ==
  IF {r \in R : r.player = p} = {}
  THEN [clan |-> None, rank |-> None]
  ELSE LET r == CHOOSE x \in {r \in R : r.player = p} : TRUE
       IN  [clan |-> r.clan, rank |-> r.rank]

\* Nobody has two rows in R.
Single(R) == \A r, s \in R : r.player = s.player => r = s

LEMMA PlaceIsRead ==
  /\ \A p : placeOf(p) = PlaceIn(ranks, p)
  /\ \A p : placeOf(p)' = PlaceIn(ranks', p)
BY DEF placeOf, PlaceIn, RowsOf

LEMMA PlaceOfRow ==
  ASSUME NEW R, NEW r \in R, \A s \in R : s.player = r.player => s = r
  PROVE  PlaceIn(R, r.player) = [clan |-> r.clan, rank |-> r.rank]
<1> DEFINE mine == {s \in R : s.player = r.player}
<1>1. mine = {r}
  OBVIOUS
<1>2. (CHOOSE x \in mine : TRUE) = r
  BY <1>1
<1>3. QED
  BY <1>1, <1>2 DEF PlaceIn

LEMMA PlaceOfNobody ==
  ASSUME NEW R, NEW p, \A s \in R : s.player # p
  PROVE  PlaceIn(R, p) = [clan |-> None, rank |-> None]
<1>1. {s \in R : s.player = p} = {}
  OBVIOUS
<1>2. QED
  BY <1>1 DEF PlaceIn

\* Tables that give a player the same rows give it the same place.
LEMMA SamePlace ==
  ASSUME NEW R, NEW S, NEW p, \A r : r.player = p => (r \in R <=> r \in S)
  PROVE  PlaceIn(R, p) = PlaceIn(S, p)
<1>1. {r \in R : r.player = p} = {r \in S : r.player = p}
  OBVIOUS
<1>2. QED
  BY <1>1 DEF PlaceIn

\* What IInv says of a table when nothing has been noted.
LEMMA UnspoiltTable ==
  ASSUME IInv, noted = {}
  PROVE  /\ ranks \subseteq RankRow /\ Single(ranks)
         /\ \A r \in ranks : /\ r.clan \in Clan /\ r.player \in Player /\ r.rank \in Rank
                             /\ r.clan # None /\ Enabled(r.clan)
                             /\ PlaceIn(ranks, r.player) = [clan |-> r.clan, rank |-> r.rank]
<1>1. ranks \subseteq RankRow /\ Single(ranks)
  BY DEF IInv, TypeOK, OneMembership, Single
<1>2. ASSUME NEW r \in ranks
      PROVE  /\ r.clan \in Clan /\ r.player \in Player /\ r.rank \in Rank
             /\ r.clan # None /\ Enabled(r.clan)
             /\ PlaceIn(ranks, r.player) = [clan |-> r.clan, rank |-> r.rank]
  <2>1. r.clan \in Clan /\ r.player \in Player /\ r.rank \in Rank /\ r.clan # None
    BY <1>1, ClansAssumption DEF RankRow
  <2>2. Enabled(r.clan)
    BY DEF IInv, MembersOfEnabledClans
  <2>3. \A s \in ranks : s.player = r.player => s = r
    BY <1>1 DEF Single
  <2>4. QED
    BY <2>1, <2>2, <2>3, PlaceOfRow
<1>3. QED
  BY <1>1, <1>2

\* A player is in a clan of ClanRules when it has a row in it.
LEMMA MembersAreRows ==
  ASSUME IInv, noted = {}, NEW p \in Player, NEW c \in Clan
  PROVE  PlaceIn(ranks, p).clan = c <=> \E r \in ranks : r.player = p /\ r.clan = c
<1>1. ASSUME NEW r \in ranks, r.player = p
      PROVE  PlaceIn(ranks, p).clan = c <=> \E s \in ranks : s.player = p /\ s.clan = c
  <2>1. PlaceIn(ranks, p) = [clan |-> r.clan, rank |-> r.rank]
    BY <1>1, UnspoiltTable
  <2>2. \A s \in ranks : s.player = p => s = r
    BY <1>1, UnspoiltTable DEF Single
  <2>3. QED
    BY <1>1, <2>1, <2>2
<1>2. CASE \A r \in ranks : r.player # p
  BY <1>2, PlaceOfNobody, ClansAssumption
<1>3. QED
  BY <1>1, <1>2

LEMMA RanksKept ==
  ASSUME ranks' = ranks
  PROVE  Place' = Place
BY DEF Place, placeOf, RowsOf

LEMMA ClansKept ==
  ASSUME clans' = clans
  PROVE  Open' = Open /\ Closed' = Closed
BY DEF Open, Closed, Enabled

LEMMA TablesKept ==
  ASSUME UNCHANGED tables
  PROVE  Follows
BY RanksKept, ClansKept DEF Follows, tables

LEMMA OpensAClan ==
  ASSUME IInv, noted = {}, NEW w \in Worker, CreateClanInsert(w)
  PROVE  Follows
<1> DEFINE c == job'[w].clan
<1>1. /\ c \in Clan /\ clans[c].state = "absent" /\ clans'[c].state = "enabled"
      /\ \A d \in Clan \ {c} : clans'[d] = clans[d]
      /\ ranks' = ranks
  BY CreateClanInserts DEF IInv
<1> HIDE DEF c
<1>2. Open' = Open \union {c} /\ Closed' = Closed /\ c \notin Open \union Closed
  BY <1>1 DEF Open, Closed, Enabled
<1>3. Place' = Place
  BY <1>1, RanksKept
<1>4. Rules!Open(c)
  BY <1>2, <1>3 DEF Rules!Open, Open, Closed, Place
<1>5. QED
  BY <1>1, <1>4 DEF Follows, Rules!Next

LEMMA ClosesAClan ==
  ASSUME IInv, noted = {}, NEW w \in Worker, DisbandDisable(w)
  PROVE  Follows
<1>1. PICK c \in Clan :
      /\ At(w, "Disband", "disableClan") /\ c = job[w].clan /\ clans'[c].state = "disabled"
      /\ \A d \in Clan \ {c} : clans'[d].state = clans[d].state
      /\ ranks' = ranks
  BY DisbandDisables DEF IInv
<1>2. InClan(c) = {}
  BY <1>1 DEF IInv, Closing
<1>3. clans[c].state \in ClanState /\ clans[c].state # "absent"
  <2>1. clans[c] \in ClanRow
    BY <1>1 DEF IInv, TypeOK
  <2>2. clans[c].state = "absent" => \A v \in Worker : c \notin {job[v].clan, job[v].from}
    BY <1>1 DEF IInv, FoundingInv
  <2>3. QED
    BY <1>1, <2>1, <2>2 DEF ClanRow
<1>4. Place' = Place
  BY <1>1, RanksKept
<1>5. CASE Enabled(c)
  <2>1. Open' = Open \ {c} /\ Closed' = Closed \union {c} /\ c \in Open
    BY <1>1, <1>5 DEF Open, Closed, Enabled
  <2>2. \A p \in Player : placeOf(p).clan # c
    BY <1>1, <1>2, MembersAreRows, PlaceIsRead DEF InClan
  <2>3. Rules!In(c) = {}
    BY <2>2 DEF Rules!In, Place
  <2>4. Rules!Close(c)
    BY <1>4, <2>1, <2>3 DEF Rules!Close, Open, Closed, Place
  <2>5. QED
    BY <2>4 DEF Follows, Rules!Next
<1>6. CASE ~Enabled(c)
  <2>1. Open' = Open /\ Closed' = Closed
    BY <1>1, <1>3, <1>6 DEF Open, Closed, Enabled, ClanState
  <2>2. UNCHANGED <<Place, Open, Closed>>
    BY <1>4, <2>1
  <2>3. QED
    BY <2>2 DEF Follows
<1>7. QED
  BY <1>5, <1>6

\* One row more puts a player that was nowhere into a clan.
LEMMA RowAdded ==
  ASSUME IInv, noted = {}, NEW p \in Player, NEW c \in Clan, NEW k \in Rank,
         RowsOf(p) = {}, ranks' = insertClanRank(c, p, k), clans' = clans
  PROVE  /\ Place' = [Place EXCEPT ![p] = [clan |-> c, rank |-> k]]
         /\ Place[p] = [clan |-> None, rank |-> None]
         /\ Open' = Open /\ Closed' = Closed
<1> DEFINE r == [clan |-> c, player |-> p, rank |-> k]
<1>1. ranks' = ranks \union {r} /\ r.player = p /\ r.clan = c /\ r.rank = k
  BY DEF insertClanRank
<1>2. \A s \in ranks : s.player # p
  BY DEF RowsOf
<1> HIDE DEF r
<1>3. PlaceIn(ranks', p) = [clan |-> c, rank |-> k]
  <2>1. r \in ranks' /\ \A s \in ranks' : s.player = r.player => s = r
    BY <1>1, <1>2
  <2>2. PlaceIn(ranks', r.player) = [clan |-> r.clan, rank |-> r.rank]
    BY <2>1, PlaceOfRow
  <2>3. QED
    BY <1>1, <2>2
<1>4. ASSUME NEW q \in Player, q # p
      PROVE  PlaceIn(ranks', q) = PlaceIn(ranks, q)
  BY <1>1, <1>4, SamePlace
<1>5. PlaceIn(ranks, p) = [clan |-> None, rank |-> None]
  BY <1>2, PlaceOfNobody
<1>6. Open' = Open /\ Closed' = Closed
  BY DEF Open, Closed, Enabled
<1>7. Place' = [q \in Player |-> PlaceIn(ranks', q)] /\ Place = [q \in Player |-> PlaceIn(ranks, q)]
  BY PlaceIsRead DEF Place
<1>8. QED
  BY <1>3, <1>4, <1>5, <1>6, <1>7

LEMMA FoundsAClan ==
  ASSUME IInv, noted = {}, NEW w \in Worker, CreateClanLeader(w)
  PROVE  Follows
<1> DEFINE c == job[w].clan
           p == job[w].me
<1>1. /\ At(w, "CreateClan", "insertClanRank")
      /\ ranks' = insertClanRank(c, p, Leader) /\ clans' = clans
  BY DEF CreateClanLeader
<1>2. c \in Clan /\ Enabled(c) /\ InClan(c) = {}
  BY <1>1 DEF IInv, FoundingInv, FoundedBy, Founding
<1>3. p \in Player /\ RowsOf(p) = {}
  BY <1>1 DEF IInv, FrameInv, Filled, Enrolling, At
<1> HIDE DEF c, p
<1>4. /\ Place' = [Place EXCEPT ![p] = [clan |-> c, rank |-> Leader]]
      /\ Place[p] = [clan |-> None, rank |-> None]
      /\ Open' = Open /\ Closed' = Closed
  BY <1>1, <1>2, <1>3, RowAdded DEF Rank
<1>5. \A q \in Player : placeOf(q).clan # c
  BY <1>2, MembersAreRows, PlaceIsRead DEF InClan
<1>6. Rules!In(c) = {}
  BY <1>5 DEF Rules!In, Place
<1>7. Rules!Found(p, c)
  BY <1>2, <1>4, <1>6 DEF Rules!Found, Rules!Nowhere, Rules!Put, Rules!Leader, Leader, Open,
                          Closed, Place
<1>8. QED
  BY <1>2, <1>3, <1>7 DEF Follows, Rules!Next

LEMMA TakesAMemberIn ==
  ASSUME IInv, noted = {}, NEW w \in Worker, AddMemberInsert(w)
  PROVE  Follows
<1> DEFINE c == job[w].clan
           p == job[w].target
<1>1. /\ At(w, "AddMember", "insertClanRank")
      /\ ranks' = insertClanRank(c, p, Member) /\ clans' = clans
  BY DEF AddMemberInsert
<1>2. c \in Clan /\ p \in Player /\ RowsOf(p) = {}
  BY <1>1 DEF IInv, FrameInv, Filled, Enrolling, At
<1>3. Enabled(c)
  BY <1>1, <1>2, ClansAssumption DEF IInv, Closing, At
<1> HIDE DEF c, p
<1>4. /\ Place' = [Place EXCEPT ![p] = [clan |-> c, rank |-> Member]]
      /\ Place[p] = [clan |-> None, rank |-> None]
      /\ Open' = Open /\ Closed' = Closed
  BY <1>1, <1>2, RowAdded DEF Rank
<1>5. Rules!Join(p, c)
  BY <1>2, <1>3, <1>4 DEF Rules!Join, Rules!Nowhere, Rules!Put, Rules!Member, Member, Open,
                          Closed, Place
<1>6. QED
  BY <1>2, <1>5 DEF Follows, Rules!Next

LEMMA DissolvesAClan ==
  ASSUME IInv, noted = {}, NEW w \in Worker, DisbandClear(w)
  PROVE  Follows
<1> DEFINE c == job[w].clan
<1>1. At(w, "Disband", "removeClanRanksByClanId") /\ clans' = clans
      /\ ranks' = {r \in ranks : r.clan # c}
  BY DEF DisbandClear, removeClanRanksByClanId
<1>2. c \in Clan
  BY <1>1 DEF IInv, FrameInv, Filled, At
<1> HIDE DEF c
<1>3. Open' = Open /\ Closed' = Closed
  BY <1>1, ClansKept
<1>4. CASE Enabled(c)
  <2>1. ASSUME NEW p \in Player
        PROVE  PlaceIn(ranks', p) = IF PlaceIn(ranks, p).clan = c
                                    THEN [clan |-> None, rank |-> None]
                                    ELSE PlaceIn(ranks, p)
    <3>1. CASE PlaceIn(ranks, p).clan = c
      <4>1. PICK r \in ranks : r.player = p /\ r.clan = c
        BY <1>2, <3>1, MembersAreRows
      <4>2. \A s \in ranks' : s.player # p
        BY <1>1, <4>1, UnspoiltTable DEF Single
      <4>3. QED
        BY <3>1, <4>2, PlaceOfNobody
    <3>2. CASE PlaceIn(ranks, p).clan # c
      <4>1. \A r \in ranks : r.player = p => r.clan # c
        BY <1>2, <3>2, MembersAreRows
      <4>2. PlaceIn(ranks', p) = PlaceIn(ranks, p)
        BY <1>1, <4>1, SamePlace
      <4>3. QED
        BY <3>2, <4>2
    <3>3. QED
      BY <3>1, <3>2
  <2>2. Place' = [p \in Player |-> IF placeOf(p).clan = c
                                   THEN [clan |-> None, rank |-> None] ELSE placeOf(p)]
    BY <2>1, PlaceIsRead DEF Place
  <2>3. Rules!Dissolve(c)
    BY <1>2, <1>3, <1>4, <2>2 DEF Rules!Dissolve, Rules!In, Rules!Nowhere, Place, Open, Closed
  <2>4. QED
    BY <1>2, <2>3 DEF Follows, Rules!Next
<1>5. CASE ~Enabled(c)
  <2>1. ranks' = ranks
    BY <1>1, <1>5, UnspoiltTable
  <2>2. QED
    BY <1>3, <2>1, RanksKept DEF Follows
<1>6. QED
  BY <1>4, <1>5

\* A row less puts its player nowhere; without a row nothing happens.
LEMMA RowRemoved ==
  ASSUME IInv, noted = {}, NEW p \in Player, NEW c \in Clan,
         ranks' = removeClanRank(c, p), clans' = clans
  PROVE  Follows
<1>1. ranks' = {r \in ranks : r.clan # c \/ r.player # p}
  BY DEF removeClanRank
<1>2. Open' = Open /\ Closed' = Closed
  BY ClansKept
<1>3. ASSUME NEW r \in ranks, r.player = p, r.clan = c
      PROVE  Follows
  <2>1. PlaceIn(ranks', p) = [clan |-> None, rank |-> None]
    <3>1. \A s \in ranks' : s.player # p
      BY <1>1, <1>3, UnspoiltTable DEF Single
    <3>2. QED
      BY <3>1, PlaceOfNobody
  <2>2. ASSUME NEW q \in Player, q # p
        PROVE  PlaceIn(ranks', q) = PlaceIn(ranks, q)
    BY <1>1, <2>2, SamePlace
  <2>3. Place' = [Place EXCEPT ![p] = [clan |-> None, rank |-> None]]
    BY <2>1, <2>2, PlaceIsRead DEF Place
  <2>4. PlaceIn(ranks, p) = [clan |-> c, rank |-> r.rank] /\ c # None
    BY <1>3, UnspoiltTable
  <2>5. Place[p] # [clan |-> None, rank |-> None]
    BY <2>4, PlaceIsRead DEF Place
  <2>6. Rules!Leave(p)
    BY <1>2, <2>3, <2>5 DEF Rules!Leave, Rules!Nowhere, Place, Open, Closed
  <2>7. QED
    BY <2>6 DEF Follows, Rules!Next
<1>4. CASE \A r \in ranks : r.player # p \/ r.clan # c
  <2>1. ranks' = ranks
    BY <1>1, <1>4
  <2>2. QED
    BY <1>2, <2>1, RanksKept DEF Follows
<1>5. QED
  BY <1>3, <1>4

\* A row with another rank gives its player that rank; without a row nothing
\* happens.
LEMMA RankUpdated ==
  ASSUME IInv, noted = {}, NEW p \in Player, NEW c \in Clan, NEW k \in Rank,
         k = Leader => \A r \in InClan(c) : r.rank # Leader,
         ranks' = updateClanRank(c, p, k), clans' = clans
  PROVE  Follows
<1> DEFINE new(r) == IF r.clan = c /\ r.player = p THEN [r EXCEPT !.rank = k] ELSE r
<1>1. ranks' = {new(r) : r \in ranks}
  BY DEF updateClanRank
<1>2. Open' = Open /\ Closed' = Closed
  BY ClansKept
<1>3. ASSUME NEW r \in ranks, r.player = p, r.clan = c
      PROVE  Follows
  <2>1. \A s \in ranks : s # r => s.player # p
    BY <1>3, UnspoiltTable DEF Single
  <2>2. new(r) \in ranks' /\ new(r).player = p /\ new(r).clan = c /\ new(r).rank = k
    BY <1>1, <1>3, UnspoiltTable DEF RankRow
  <2>3. \A s \in ranks' : s = new(r) \/ (s \in ranks /\ s # r)
    BY <1>1, <1>3, <2>1
  <2>4. \A s \in ranks : s # r => s \in ranks'
    BY <1>1, <2>1
  <2> DEFINE n == new(r)
  <2>5. /\ n \in ranks' /\ n.player = p /\ n.clan = c /\ n.rank = k
        /\ \A s \in ranks' : s = n \/ (s \in ranks /\ s # r)
    BY <2>2, <2>3
  <2> HIDE DEF n, new
  <2>6. PlaceIn(ranks', p) = [clan |-> c, rank |-> k]
    <3>1. \A s \in ranks' : s.player = n.player => s = n
      BY <2>1, <2>5
    <3>2. PlaceIn(ranks', n.player) = [clan |-> n.clan, rank |-> n.rank]
      BY <2>5, <3>1, PlaceOfRow
    <3>3. QED
      BY <2>5, <3>2
  <2>7. ASSUME NEW q \in Player, q # p
        PROVE  PlaceIn(ranks', q) = PlaceIn(ranks, q)
    <3>1. \A s : s.player = q => (s \in ranks' <=> s \in ranks)
      BY <1>3, <2>4, <2>5, <2>7
    <3>2. QED
      BY <3>1, SamePlace
  <2>8. Place' = [Place EXCEPT ![p] = [clan |-> c, rank |-> k]]
    BY <2>6, <2>7, PlaceIsRead DEF Place
  <2>9. PlaceIn(ranks, p) = [clan |-> c, rank |-> r.rank] /\ c # None
    BY <1>3, UnspoiltTable
  <2>10. Place[p].clan = c /\ Place[p] # [clan |-> None, rank |-> None]
    BY <2>9, PlaceIsRead DEF Place
  <2>11. k = Leader => ~ \E q \in Player : Place[q].clan = c /\ Place[q].rank = Leader
    <3> SUFFICES ASSUME k = Leader, NEW q \in Player,
                        Place[q].clan = c, Place[q].rank = Leader
                 PROVE  FALSE
      OBVIOUS
    <3>1. PlaceIn(ranks, q).clan = c /\ PlaceIn(ranks, q).rank = Leader
      BY PlaceIsRead DEF Place
    <3>2. PICK s \in ranks : s.player = q /\ s.clan = c
      BY <3>1, MembersAreRows
    <3>3. PlaceIn(ranks, q) = [clan |-> s.clan, rank |-> s.rank]
      BY <3>2, UnspoiltTable
    <3>4. s.rank = Leader
      BY <3>1, <3>3
    <3>5. QED
      BY <3>2, <3>4 DEF InClan
  <2>12. Rules!SetRank(p, k)
    BY <1>2, <2>8, <2>10, <2>11 DEF Rules!SetRank, Rules!Nowhere, Rules!Put, Rules!Led, Rules!In,
       Rules!Leader, Leader, Place, Open, Closed
  <2>13. QED
    BY <2>12 DEF Follows, Rules!Next, Rules!Rank, Rules!Leader, Rules!Co_Leader, Rules!Member,
                 Rank, Leader, Co_Leader, Member
<1>4. CASE \A r \in ranks : r.player # p \/ r.clan # c
  <2>1. ranks' = ranks
    BY <1>1, <1>4
  <2>2. QED
    BY <1>2, <2>1, RanksKept DEF Follows
<1>5. QED
  BY <1>3, <1>4

-----------------------------------------------------------------------------
(***************************************************************************)
(* Every step.                                                             *)
(***************************************************************************)
LEMMA StepFollows ==
  ASSUME IInv, noted = {}, NEW w \in Worker, Step(w)
  PROVE  Follows
<1>1. TypeOK /\ FrameInv /\ FoundingInv /\ Filled(w) /\ HandOver(w)
  BY DEF IInv, FrameInv
<1>2. CASE Queries(w)
  BY <1>1, <1>2, QueriesWriteNothing, TablesKept
<1>3. CASE UpdateClanWrite(w)
  <2>1. ranks' = ranks /\ \A c \in Clan : clans'[c].state = clans[c].state
    BY <1>1, <1>3, UpdateClanWrites
  <2>2. Open' = Open /\ Closed' = Closed
    BY <2>1 DEF Open, Closed, Enabled
  <2>3. QED
    BY <2>1, <2>2, RanksKept DEF Follows
<1>4. CASE ChangeRankDemote(w)
  <2>1. At(w, "ChangeRank", "demote") /\ clans' = clans
        /\ ranks' = updateClanRank(job[w].clan, job[w].me, Co_Leader)
    BY <1>1, <1>4, ChangeRankDemotes
  <2>2. job[w].clan \in Clan /\ job[w].me \in Player
    BY <1>1, <2>1 DEF Filled, At
  <2>3. Co_Leader \in Rank /\ Co_Leader # Leader
    BY DEF Rank, Leader, Co_Leader, Member
  <2>4. QED
    BY <2>1, <2>2, <2>3, RankUpdated
<1>5. CASE ChangeRankSet(w)
  <2>1. At(w, "ChangeRank", "updateClanRank") /\ clans' = clans /\ job[w].rank \in Rank
        /\ ranks' = updateClanRank(job[w].clan, job[w].target, job[w].rank)
    BY <1>1, <1>5, ChangeRankSets
  <2>2. job[w].clan \in Clan /\ job[w].target \in Player
    BY <1>1, <2>1 DEF Filled, At
  <2>3. job[w].rank = Leader => \A r \in InClan(job[w].clan) : r.rank # Leader
    BY <1>1, <2>1 DEF HandOver
  <2>4. QED
    BY <2>1, <2>2, <2>3, RankUpdated
<1>6. CASE AddMemberRemove(w)
  <2>1. At(w, "AddMember", "removeClanRank") /\ clans' = clans
        /\ ranks' = removeClanRank(job[w].from, job[w].target)
    BY <1>6 DEF AddMemberRemove
  <2>2. job[w].from \in Clan /\ job[w].target \in Player
    BY <1>1, <2>1 DEF Filled, At
  <2>3. QED
    BY <2>1, <2>2, RowRemoved
<1>7. CASE DeleteMemberRemove(w)
  <2>1. At(w, "DeleteMember", "removeClanRank") /\ clans' = clans
        /\ ranks' = removeClanRank(job[w].clan, job[w].target)
    BY <1>7 DEF DeleteMemberRemove
  <2>2. job[w].clan \in Clan /\ job[w].target \in Player
    BY <1>1, <2>1 DEF Filled, At
  <2>3. QED
    BY <2>1, <2>2, RowRemoved
<1>8. QED
  BY <1>2, <1>3, <1>4, <1>5, <1>6, <1>7, OpensAClan, FoundsAClan, ClosesAClan, DissolvesAClan,
     TakesAMemberIn DEF Step, Queries

LEMMA NextFollows ==
  ASSUME IInv, noted = {}, [Next]_vars
  PROVE  Follows
<1>1. CASE UNCHANGED vars
  BY <1>1, TablesKept DEF vars, tables
<1>2. CASE Crash
  BY <1>2, TablesKept DEF Crash
<1>3. ASSUME NEW w \in Worker, Step(w)
      PROVE  Follows
  BY <1>3, StepFollows
<1>4. ASSUME NEW w \in Worker, Failure(w)
      PROVE  Follows
  BY <1>4, FailureMeans, TablesKept DEF IInv, Base
<1>5. QED
  BY <1>1, <1>2, <1>3, <1>4 DEF Next

LEMMA InitFollows ==
  ASSUME Init
  PROVE  Rules!Init
<1>1. ranks = {} /\ \A c \in Clan : clans[c].state = "absent"
  BY DEF Init
<1>2. \A p \in Player : placeOf(p) = [clan |-> None, rank |-> None]
  BY <1>1, PlaceIsRead, PlaceOfNobody
<1>3. QED
  BY <1>1, <1>2 DEF Rules!Init, Rules!Nowhere, Place, Open, Closed, Enabled

\* Every database call made before anything is noted is one step of ClanRules or
\* changes nothing it speaks of: also a call that fails, and the calls of a
\* behaviour in which requests race, or a failure spoils something, later.
THEOREM CallsFollowTheRules == Spec => FollowsTheRules
<1>1. Init => Rules!Init
  BY InitFollows
<1>2. IInv /\ [Next]_vars => [noted = {} => Follows]_vars
  BY NextFollows
<1>3. QED
  BY <1>1, <1>2, Invariance, PTL DEF Spec, FollowsTheRules

\* As long as no two requests race and none of the calls fails whose success a
\* handler takes for granted, the clan requests of webserver/request/clan.cpp
\* implement ClanRules, whatever other calls fail: a player moves from clan to
\* clan through nowhere, a leader is named after the old one has stepped down,
\* and a clan is closed empty and for good.
THEOREM ClanRulesImplemented == Spec /\ [](noted = {}) => Rules!Spec
<1>1. Init => Rules!Init
  BY InitFollows
<1>2. IInv /\ noted = {} /\ [Next]_vars => [Rules!Next]_<<Place, Open, Closed>>
  BY NextFollows, RanksKept, ClansKept DEF Follows, tables
<1>3. QED
  BY <1>1, <1>2, Invariance, PTL DEF Spec, Rules!Spec

=============================================================================
