------------------------------- MODULE Clans -------------------------------
(***************************************************************************)
(* The clan service: the Webserver's clan requests                         *)
(* (webserver/request/clan.cpp) over the tables Clans and ClanRanks        *)
(* (database/clan.cpp, database/clan_rank.cpp).                            *)
(*                                                                         *)
(* Every HTTP connection has a thread of its own, here a Worker.  A method *)
(* of Database holds the database mutex for its whole body, so one call is *)
(* one atomic step; a handler is a sequence of such calls with no          *)
(* transaction around them, so calls of other workers come in between.     *)
(* job[w] is the stack frame of the handler w runs; its field `next' names *)
(* the database call the handler makes next.                               *)
(*                                                                         *)
(* A method of Database returns whether it worked, and no handler looks at *)
(* that: after a query that failed it goes on with the default-constructed *)
(* object it passed, after a write that failed as if the table had been    *)
(* written.                                                                *)
(*                                                                         *)
(* Left out: homepage, info, region and the score columns of a clan, the   *)
(* HTTP answers, and the buddy messages the handlers send after their last *)
(* database call (they reach GPCM clients and the chat log, which no clan  *)
(* request reads).                                                         *)
(***************************************************************************)
EXTENDS Integers, FiniteSets

CONSTANTS
  Player,    \* profile ids with a row in Players
  Clan,      \* clan ids the auto-increment column can hand out
  Name,      \* names a create request carries; NoName is one when it carries none
  Tag,       \* tags a create or update request carries
  NoName,    \* the empty string, the name of a default-constructed Clan
  NoTag,     \* the empty string, the tag of a default-constructed Clan
  RankText,  \* integers the "rank" variable of a request can spell
  Worker,    \* threads of the Webserver
  None       \* the id -1

ASSUME ClansAssumption ==
  /\ None \notin Player \union Clan \union Name \union Tag \union {NoName, NoTag}
  /\ RankText \subseteq Int

VARIABLES
  clans,     \* table Clans, by clanid
  ranks,     \* table ClanRanks, a set of rows: no query tells equal rows apart
  job,       \* the handler each worker runs
  noted      \* history: what overlapping handlers and failed calls were about

tables == <<clans, ranks>>
vars   == <<clans, ranks, job, noted>>

(***************************************************************************)
(* Battlefield::Clan::Rank.                                                *)
(***************************************************************************)
Leader    == 0
Co_Leader == 1
Member    == 2
Unknown   == 15
Rank      == {Leader, Co_Leader, Member}

\* An unfiltered cast of the number to the enumeration.
convertRankUnbounded(n) == n % 256

\* Clan::convertRank: the integer is narrowed to uint8_t before the comparison.
convertRank(n) == IF n % 256 \in Rank THEN n % 256 ELSE Unknown

(***************************************************************************)
(* The tables.  Rows of Clans are never deleted: a disbanded clan keeps    *)
(* its row, with `disable' set.                                            *)
(***************************************************************************)
TagText   == Tag \union {NoTag}
ClanState == {"absent", "enabled", "disabled"}
ClanRow   == [state : ClanState, name : Name \union {None}, tag : TagText \union {None}]
RankRow   == [clan : Clan, player : Player, rank : Rank]

Enabled(c) == clans[c].state = "enabled"

(***************************************************************************)
(* The methods of Database the handlers call.  A query that reads its      *)
(* first row only is the set of the rows that may come first.              *)
(***************************************************************************)
RowsOf(p) == {r \in ranks : r.player = p}

queryClanByProfileId(p) == {r.clan : r \in RowsOf(p)}

\* The tag alone is looked up.
queryClanByTagOnly(n, t) == {c \in Clan : Enabled(c) /\ clans[c].tag = t}

queryClanByNameOrTag(n, t) ==
  {c \in Clan : Enabled(c) /\ (clans[c].name = n \/ clans[c].tag = t)}

queryClanRanksByClanId(c) == {r \in ranks : r.clan = c}

insertClan(c, n, t) ==
  [clans EXCEPT ![c] = [state |-> "enabled", name |-> n, tag |-> t]]

updateClan(c, t) == [clans EXCEPT ![c].tag = t]

disableClan(c) == [clans EXCEPT ![c].state = "disabled"]

insertClanRank(c, p, k) == ranks \union {[clan |-> c, player |-> p, rank |-> k]}

\* The rows of the whole clan are updated.
updateRanksOfClan(c, p, k) ==
  {IF r.clan = c THEN [r EXCEPT !.rank = k] ELSE r : r \in ranks}

updateClanRank(c, p, k) ==
  {IF r.clan = c /\ r.player = p THEN [r EXCEPT !.rank = k] ELSE r : r \in ranks}

\* The condition on the player is left out of the DELETE when it is a leader.
removeClanRankKeepingLeader(c, p) ==
  {r \in ranks : r.clan # c \/ r.player # p \/ r.rank = Leader}

removeClanRank(c, p) == {r \in ranks : r.clan # c \/ r.player # p}

\* The rows of the members go, those of the leaders stay.
removeMembersByClanId(c) == {r \in ranks : r.clan # c \/ r.rank # Member}

removeClanRanksByClanId(c) == {r \in ranks : r.clan # c}

(***************************************************************************)
(* What a handler makes of an answer.                                      *)
(***************************************************************************)
FirstOf(S) == IF S = {} THEN {None} ELSE S

\* Clan::GetRank after queryClanRanksByClanId(c): the ranks it may return.
GetRank(c, p) ==
  LET held == {r.rank : r \in {x \in queryClanRanksByClanId(c) : x.player = p}}
  IN  IF held = {} THEN {Unknown} ELSE held

\* The clan _GetSessionPlayerAndClan finds for the player behind an authtoken.
GetSessionPlayerAndClan(p) == FirstOf(queryClanByProfileId(p))

(***************************************************************************)
(* Handlers.                                                               *)
(***************************************************************************)
Op == {"none", "CreateClan", "UpdateClan", "Disband", "ChangeRank", "AddMember",
       "DeleteMember"}

Call == {"none", "queryClanByNameOrTag", "insertClan", "insertClanRank",
         "queryClanByClanId", "queryClanRanksByClanId", "updateClan",
         "removeClanRanksByClanId", "disableClan", "queryClanByProfileId",
         "demote", "updateClanRank", "removeClanRank"}

Job == [op : Op, next : Call, me : Player \union {None}, clan : Clan \union {None},
        target : Player \union {None}, from : Clan \union {None},
        rank : Rank \union {Unknown}, name : Name \union {None},
        tag : TagText \union {None}]

NoJob == [op |-> "none", next |-> "none", me |-> None, clan |-> None,
          target |-> None, from |-> None, rank |-> Unknown, name |-> None,
          tag |-> None]

At(w, op, next) == job[w].op = op /\ job[w].next = next

Begin(w, j) ==
  /\ job[w] = NoJob
  /\ job' = [job EXCEPT ![w] = j]
  /\ UNCHANGED tables

Go(w, next) == job' = [job EXCEPT ![w].next = next]

Finish(w) == job' = [job EXCEPT ![w] = NoJob]

(***************************************************************************)
(* requestCreateClan.                                                      *)
(***************************************************************************)
CreateClan(w) ==
  \E p \in Player, n \in Name, t \in Tag :
    /\ None \in GetSessionPlayerAndClan(p)
    /\ Begin(w, [NoJob EXCEPT !.op = "CreateClan", !.next = "queryClanByNameOrTag",
                              !.me = p, !.name = n, !.tag = t])

CreateClanCheck(w) ==
  /\ At(w, "CreateClan", "queryClanByNameOrTag")
  /\ IF queryClanByNameOrTag(job[w].name, job[w].tag) = {}
     THEN Go(w, "insertClan")
     ELSE Finish(w)
  /\ UNCHANGED tables

CreateClanInsert(w) ==
  /\ At(w, "CreateClan", "insertClan")
  /\ \E c \in Clan :
       /\ clans[c].state = "absent"
       /\ clans' = insertClan(c, job[w].name, job[w].tag)
       /\ job' = [job EXCEPT ![w].clan = c, ![w].next = "insertClanRank"]
  /\ UNCHANGED ranks

CreateClanLeader(w) ==
  /\ At(w, "CreateClan", "insertClanRank")
  /\ ranks' = insertClanRank(job[w].clan, job[w].me, Leader)
  /\ Finish(w)
  /\ UNCHANGED clans

(***************************************************************************)
(* requestUpdateClan.  The request may leave the tag out: the clan is then *)
(* written back with the tag the handler has read.                         *)
(***************************************************************************)
UpdateClan(w) ==
  \E p \in Player, t \in Tag \union {None} : \E c \in GetSessionPlayerAndClan(p) :
    /\ c # None
    /\ Begin(w, [NoJob EXCEPT !.op = "UpdateClan", !.next = "queryClanByClanId",
                              !.me = p, !.clan = c, !.tag = t])

UpdateClanRead(w) ==
  /\ At(w, "UpdateClan", "queryClanByClanId")
  /\ job' = [job EXCEPT ![w].tag = IF @ = None THEN clans[job[w].clan].tag ELSE @,
                        ![w].next = "queryClanRanksByClanId"]
  /\ UNCHANGED tables

UpdateClanRanks(w) ==
  /\ At(w, "UpdateClan", "queryClanRanksByClanId")
  /\ \E k \in GetRank(job[w].clan, job[w].me) :
       IF k = Leader THEN Go(w, "queryClanByNameOrTag") ELSE Finish(w)
  /\ UNCHANGED tables

\* The look-up is made with a default-constructed Clan that holds the tag alone.
UpdateClanCheck(w) ==
  /\ At(w, "UpdateClan", "queryClanByNameOrTag")
  /\ \E c \in FirstOf(queryClanByNameOrTag(NoName, job[w].tag)) :
       IF c \in {None, job[w].clan} THEN Go(w, "updateClan") ELSE Finish(w)
  /\ UNCHANGED tables

UpdateClanWrite(w) ==
  /\ At(w, "UpdateClan", "updateClan")
  /\ clans' = updateClan(job[w].clan, job[w].tag)
  /\ Finish(w)
  /\ UNCHANGED ranks

(***************************************************************************)
(* requestDisband.                                                         *)
(***************************************************************************)
Disband(w) ==
  \E p \in Player : \E c \in GetSessionPlayerAndClan(p) :
    /\ c # None
    /\ Begin(w, [NoJob EXCEPT !.op = "Disband", !.next = "queryClanRanksByClanId",
                              !.me = p, !.clan = c])

DisbandRanks(w) ==
  /\ At(w, "Disband", "queryClanRanksByClanId")
  /\ \E k \in GetRank(job[w].clan, job[w].me) :
       IF k = Leader THEN Go(w, "removeClanRanksByClanId") ELSE Finish(w)
  /\ UNCHANGED tables

DisbandClear(w) ==
  /\ At(w, "Disband", "removeClanRanksByClanId")
  /\ ranks' = removeClanRanksByClanId(job[w].clan)
  /\ Go(w, "disableClan")
  /\ UNCHANGED clans

DisbandDisable(w) ==
  /\ At(w, "Disband", "disableClan")
  /\ clans' = disableClan(job[w].clan)
  /\ Finish(w)
  /\ UNCHANGED ranks

(***************************************************************************)
(* requestChangeRank.  A leader who hands over leadership is demoted       *)
(* first, in a database call of its own.                                   *)
(***************************************************************************)
ChangeRank(w) ==
  \E p, q \in Player, n \in RankText : \E c \in GetSessionPlayerAndClan(p) :
    /\ c # None
    /\ Begin(w, [NoJob EXCEPT !.op = "ChangeRank", !.next = "queryClanByProfileId",
                              !.me = p, !.clan = c, !.target = q,
                              !.rank = convertRank(n)])

ChangeRankTarget(w) ==
  /\ At(w, "ChangeRank", "queryClanByProfileId")
  /\ \E c \in FirstOf(queryClanByProfileId(job[w].target)) :
       IF c = job[w].clan /\ job[w].rank # Unknown
       THEN Go(w, "queryClanRanksByClanId")
       ELSE Finish(w)
  /\ UNCHANGED tables

\* The first call after the check when the leader is not demoted.
NeverDemoted(k) == "updateClanRank"

FirstRankCall(k) == IF k = Leader THEN "demote" ELSE "updateClanRank"

ChangeRankRanks(w) ==
  /\ At(w, "ChangeRank", "queryClanRanksByClanId")
  /\ \E k \in GetRank(job[w].clan, job[w].me) :
       IF k = Leader THEN Go(w, FirstRankCall(job[w].rank)) ELSE Finish(w)
  /\ UNCHANGED tables

ChangeRankDemote(w) ==
  /\ At(w, "ChangeRank", "demote")
  /\ ranks' = updateClanRank(job[w].clan, job[w].me, Co_Leader)
  /\ Go(w, "updateClanRank")
  /\ UNCHANGED clans

ChangeRankSet(w) ==
  /\ At(w, "ChangeRank", "updateClanRank")
  /\ ranks' = updateClanRank(job[w].clan, job[w].target, job[w].rank)
  /\ Finish(w)
  /\ UNCHANGED clans

(***************************************************************************)
(* requestAddMember.  The guard is a disjunction in the code: a player of  *)
(* no clan passes it, and is refused when its rank proves to be Unknown.   *)
(***************************************************************************)
AddMember(w) ==
  \E p, q \in Player : \E c \in GetSessionPlayerAndClan(p) :
    Begin(w, [NoJob EXCEPT !.op = "AddMember", !.next = "queryClanRanksByClanId",
                           !.me = p, !.clan = c, !.target = q])

AddMemberRanks(w) ==
  /\ At(w, "AddMember", "queryClanRanksByClanId")
  /\ \E k \in GetRank(job[w].clan, job[w].me) :
       IF k <= Co_Leader THEN Go(w, "queryClanByProfileId") ELSE Finish(w)
  /\ UNCHANGED tables

AddMemberTarget(w) ==
  /\ At(w, "AddMember", "queryClanByProfileId")
  /\ \E c \in FirstOf(queryClanByProfileId(job[w].target)) :
       job' = [job EXCEPT ![w].from = c,
                          ![w].next = IF c = None THEN "insertClanRank" ELSE "removeClanRank"]
  /\ UNCHANGED tables

AddMemberRemove(w) ==
  /\ At(w, "AddMember", "removeClanRank")
  /\ ranks' = removeClanRank(job[w].from, job[w].target)
  /\ Go(w, "insertClanRank")
  /\ UNCHANGED clans

AddMemberInsert(w) ==
  /\ At(w, "AddMember", "insertClanRank")
  /\ ranks' = insertClanRank(job[w].clan, job[w].target, Member)
  /\ Finish(w)
  /\ UNCHANGED clans

(***************************************************************************)
(* requestDeleteMember.                                                    *)
(***************************************************************************)
DeleteMember(w) ==
  \E p, q \in Player : \E c \in GetSessionPlayerAndClan(p) :
    /\ c # None
    /\ Begin(w, [NoJob EXCEPT !.op = "DeleteMember", !.next = "queryClanByProfileId",
                              !.me = p, !.clan = c, !.target = q])

DeleteMemberTarget(w) ==
  /\ At(w, "DeleteMember", "queryClanByProfileId")
  /\ \E c \in FirstOf(queryClanByProfileId(job[w].target)) :
       IF c = job[w].clan THEN Go(w, "queryClanRanksByClanId") ELSE Finish(w)
  /\ UNCHANGED tables

\* A lower number outranks a higher one; anyone but the leader may leave.
MayRemove(mine, theirs, self) == mine < theirs \/ (self /\ mine # Leader)

DeleteMemberRanks(w) ==
  /\ At(w, "DeleteMember", "queryClanRanksByClanId")
  /\ \E mine \in GetRank(job[w].clan, job[w].me),
        theirs \in GetRank(job[w].clan, job[w].target) :
       IF MayRemove(mine, theirs, job[w].me = job[w].target)
       THEN Go(w, "removeClanRank")
       ELSE Finish(w)
  /\ UNCHANGED tables

DeleteMemberRemove(w) ==
  /\ At(w, "DeleteMember", "removeClanRank")
  /\ ranks' = removeClanRank(job[w].clan, job[w].target)
  /\ Finish(w)
  /\ UNCHANGED clans

(***************************************************************************)
(* The process dies between two calls: the handlers are gone, the tables   *)
(* stay as the last call left them.                                        *)
(***************************************************************************)
Crash ==
  /\ \E w \in Worker : job[w] # NoJob
  /\ job' = [w \in Worker |-> NoJob]
  /\ UNCHANGED tables

Init ==
  /\ clans = [c \in Clan |-> [state |-> "absent", name |-> None, tag |-> None]]
  /\ ranks = {}
  /\ job = [w \in Worker |-> NoJob]
  /\ noted = {}

(***************************************************************************)
(* History: the four ways in which two overlapping handlers get in each    *)
(* other's way, and what each is about.                                    *)
(***************************************************************************)
Enrols(j, p) == (j.op = "CreateClan" /\ j.me = p) \/ (j.op = "AddMember" /\ j.target = p)

Spells(j, x) == j.op \in {"CreateClan", "UpdateClan"} /\ x \in {j.name, j.tag}

\* Two rank changes in one clan.
RankRaces == {c \in Clan : \E v, w \in Worker :
                /\ v # w
                /\ job[v].op = "ChangeRank" /\ job[v].clan = c
                /\ job[w].op = "ChangeRank" /\ job[w].clan = c}

\* A clan is disbanded while one of its officers takes somebody in.
CloseRaces == {c \in Clan : \E v, w \in Worker :
                 /\ job[v].op = "Disband" /\ job[v].clan = c
                 /\ job[w].op = "AddMember" /\ job[w].clan = c}

\* Two handlers each give one player a clan.
EnrolRaces == {p \in Player : \E v, w \in Worker :
                 v # w /\ Enrols(job[v], p) /\ Enrols(job[w], p)}

\* Two handlers each give a clan the same name or tag.
NameRaces == {x \in Name \union TagText : \E v, w \in Worker :
                v # w /\ Spells(job[v], x) /\ Spells(job[w], x)}

Races == ({"rank"} \X RankRaces) \union ({"close"} \X CloseRaces)
           \union ({"enrol"} \X EnrolRaces) \union ({"name"} \X NameRaces)

Note(spoiled) == noted' = noted \union Races' \union spoiled

(***************************************************************************)
(* Calls that fail.  No table changes.  What a failure can spoil is noted: *)
(* the name and tag a failed look-up lets pass, the player whose row was   *)
(* not found or not removed, the clan whose leader was not demoted or      *)
(* whose members were not removed.                                         *)
(***************************************************************************)
\* The clan of the player behind the authtoken is not found: a member passes
\* for a player without one.  The other requests are refused then.
CreateClanUnknown(w) ==
  \E p \in Player, n \in Name, t \in Tag :
    /\ RowsOf(p) # {}
    /\ Begin(w, [NoJob EXCEPT !.op = "CreateClan", !.next = "queryClanByNameOrTag",
                              !.me = p, !.name = n, !.tag = t])
    /\ Note({<<"enrol", p>>})

CreateClanCheckFails(w) ==
  /\ At(w, "CreateClan", "queryClanByNameOrTag")
  /\ Go(w, "insertClan")
  /\ Note({"name"} \X {job[w].name, job[w].tag})
  /\ UNCHANGED tables

\* The clan is written back as default-constructed but for what the request sets.
UpdateClanReadFails(w) ==
  /\ At(w, "UpdateClan", "queryClanByClanId")
  /\ job' = [job EXCEPT ![w].tag = IF @ = None THEN NoTag ELSE @,
                        ![w].next = "queryClanRanksByClanId"]
  /\ Note({})
  /\ UNCHANGED tables

UpdateClanCheckFails(w) ==
  /\ At(w, "UpdateClan", "queryClanByNameOrTag")
  /\ Go(w, "updateClan")
  /\ Note({<<"name", job[w].tag>>})
  /\ UNCHANGED tables

DisbandClearFails(w) ==
  /\ At(w, "Disband", "removeClanRanksByClanId")
  /\ Go(w, "disableClan")
  /\ Note({<<"close", job[w].clan>>})
  /\ UNCHANGED tables

ChangeRankDemoteFails(w) ==
  /\ At(w, "ChangeRank", "demote")
  /\ Go(w, "updateClanRank")
  /\ Note({<<"rank", job[w].clan>>})
  /\ UNCHANGED tables

\* The target passes for a player without a clan, or stays in the old one.
AddMemberTargetFails(w) ==
  /\ At(w, "AddMember", "queryClanByProfileId") \/ At(w, "AddMember", "removeClanRank")
  /\ Go(w, "insertClanRank")
  /\ Note({<<"enrol", job[w].target>>})
  /\ UNCHANGED tables

\* Without ranks both are Unknown: who removes itself passes, a leader too.
DeleteMemberRanksFails(w) ==
  /\ At(w, "DeleteMember", "queryClanRanksByClanId")
  /\ MayRemove(Unknown, Unknown, job[w].me = job[w].target)
  /\ Go(w, "removeClanRank")
  /\ Note({})
  /\ UNCHANGED tables

\* A call after whose failure the handler has nothing more to write: its last
\* write, insertClan (the foreign key of ClanRanks refuses a row of clan -1), or
\* a query that leaves it without a clan or a rank.
LastCallFails(w) ==
  /\ \/ job[w].next \in {"insertClan", "insertClanRank", "updateClan", "disableClan",
                         "updateClanRank"}
     \/ job[w].next = "queryClanRanksByClanId" /\ job[w].op # "DeleteMember"
     \/ At(w, "ChangeRank", "queryClanByProfileId")
     \/ /\ job[w].op = "DeleteMember"
        /\ \/ job[w].next \in {"queryClanByProfileId", "removeClanRank"}
           \/ job[w].me # job[w].target
  /\ Finish(w)
  /\ Note({})
  /\ UNCHANGED tables

Step(w) ==
  \/ CreateClan(w) \/ CreateClanCheck(w) \/ CreateClanInsert(w) \/ CreateClanLeader(w)
  \/ UpdateClan(w) \/ UpdateClanRead(w) \/ UpdateClanRanks(w) \/ UpdateClanCheck(w)
  \/ UpdateClanWrite(w)
  \/ Disband(w) \/ DisbandRanks(w) \/ DisbandClear(w) \/ DisbandDisable(w)
  \/ ChangeRank(w) \/ ChangeRankTarget(w) \/ ChangeRankRanks(w) \/ ChangeRankDemote(w)
  \/ ChangeRankSet(w)
  \/ AddMember(w) \/ AddMemberRanks(w) \/ AddMemberTarget(w) \/ AddMemberRemove(w)
  \/ AddMemberInsert(w)
  \/ DeleteMember(w) \/ DeleteMemberTarget(w) \/ DeleteMemberRanks(w)
  \/ DeleteMemberRemove(w)

Failure(w) ==
  \/ CreateClanUnknown(w) \/ CreateClanCheckFails(w)
  \/ UpdateClanReadFails(w) \/ UpdateClanCheckFails(w)
  \/ DisbandClearFails(w) \/ ChangeRankDemoteFails(w) \/ AddMemberTargetFails(w)
  \/ DeleteMemberRanksFails(w) \/ LastCallFails(w)

Next ==
  \/ (Crash \/ \E w \in Worker : Step(w)) /\ Note({})
  \/ \E w \in Worker : Failure(w)

Spec == Init /\ [][Next]_vars

-----------------------------------------------------------------------------
(***************************************************************************)
(* Type invariant.                                                         *)
(***************************************************************************)
\* The tables hold rows of their types, a rank column holds one of the three
\* ranks of Battlefield::Clan::Rank whatever number a request spelled.
TypeOK ==
  /\ clans \in [Clan -> ClanRow]
  /\ ranks \in SUBSET RankRow
  /\ job \in [Worker -> Job]
  /\ noted \in SUBSET (({"rank", "close"} \X Clan) \union ({"enrol"} \X Player)
                        \union ({"name"} \X (Name \union TagText)))

(***************************************************************************)
(* What the tables keep, in every state of every handler and so also in    *)
(* what a crash leaves behind, and what breaks it: one kind of overlap, or *)
(* the failure of one call whose result the handler does not look at.      *)
(***************************************************************************)
\* A clan has two leaders only if two rank changes in it overlapped or the
\* demotion of its leader failed in one: not in the middle of a hand-over
\* (requestChangeRank demotes first), nor because any other call failed, nor
\* because of members that come, go or create clans meanwhile.
AtMostOneLeader ==
  \A r, s \in ranks :
    (/\ r.clan = s.clan /\ <<"rank", r.clan>> \notin noted
     /\ r.rank = Leader /\ s.rank = Leader) => r.player = s.player

\* A player has rows in two clans, or two rows in one, only if two handlers
\* that each gave it a clan overlapped, or one did not find its row or failed
\* to remove it: no unique key of ClanRanks says so, requestCreateClan and
\* requestAddMember look, and remove, before they insert.
OneMembership ==
  \A r, s \in ranks :
    (r.player = s.player /\ <<"enrol", r.player>> \notin noted) => r = s

\* A clan that has been disbanded has members only if a member was added
\* while it was being disbanded, or removing its members failed and it was
\* disabled all the same; queryClanByProfileId never looks at
\* `disable', so such members go on as if the clan existed.
MembersOfEnabledClans ==
  \A r \in ranks : <<"close", r.clan>> \notin noted => Enabled(r.clan)

\* Two enabled clans share a name or a tag only if two handlers overlapped
\* that were to write it, the look-up for it failed, or a clan was created
\* with the empty name (requestUpdateClan looks a tag up together with that
\* name).
UniqueNamesAndTags ==
  (\A c \in Clan : clans[c].name # NoName) =>
     \A c, d \in Clan :
        (Enabled(c) /\ Enabled(d) /\ c # d) =>
           /\ <<"name", clans[c].name>> \notin noted => clans[c].name # clans[d].name
           /\ <<"name", clans[c].tag>> \notin noted => clans[c].tag # clans[d].tag

(***************************************************************************)
(* Why they hold: what a handler relies on between two of its calls.       *)
(***************************************************************************)
InClan(c) == {r \in ranks : r.clan = c}

\* A clan nobody leads yet, because its row is not there or its founder's row
\* is still to come, is known to nobody but its founder.
Founding(w) == At(w, "CreateClan", "insertClanRank")

FoundedBy(w) ==
  Founding(w) =>
    /\ job[w].clan \in Clan
    /\ Enabled(job[w].clan)
    /\ InClan(job[w].clan) = {}
    /\ \A v \in Worker \ {w} : job[w].clan \notin {job[v].clan, job[v].from}

FoundingInv ==
  /\ \A c \in Clan : clans[c].state = "absent" =>
       InClan(c) = {} /\ \A w \in Worker : c \notin {job[w].clan, job[w].from}
  /\ \A w \in Worker : FoundedBy(w)

\* requestChangeRank has found that the player leads the clan.
HandOver(w) ==
  <<"rank", job[w].clan>> \notin noted =>
    /\ At(w, "ChangeRank", "demote") =>
         \A r \in InClan(job[w].clan) : r.rank = Leader => r.player = job[w].me
    /\ (At(w, "ChangeRank", "updateClanRank") /\ job[w].rank = Leader) =>
         \A r \in InClan(job[w].clan) : r.rank # Leader

\* The player a handler gives a clan has no other, or is being taken from it.
Enrolling(w) ==
  /\ (job[w].op = "CreateClan" /\ <<"enrol", job[w].me>> \notin noted) =>
       RowsOf(job[w].me) = {}
  /\ (job[w].op = "AddMember" /\ <<"enrol", job[w].target>> \notin noted) =>
       /\ job[w].next = "removeClanRank" =>
            \A r \in RowsOf(job[w].target) : r.clan = job[w].from
       /\ job[w].next = "insertClanRank" => RowsOf(job[w].target) = {}

\* The clan somebody is added to is enabled, the clan about to be disabled empty.
Closing(w) ==
  <<"close", job[w].clan>> \notin noted =>
    /\ (job[w].op = "AddMember" /\ job[w].clan # None) => Enabled(job[w].clan)
    /\ At(w, "Disband", "disableClan") => InClan(job[w].clan) = {}

\* The name and the tag about to be written are free.
Naming(w) ==
  \A d \in Clan : Enabled(d) =>
    /\ At(w, "CreateClan", "insertClan") =>
         /\ <<"name", job[w].name>> \notin noted => clans[d].name # job[w].name
         /\ <<"name", job[w].tag>> \notin noted => clans[d].tag # job[w].tag
    /\ (/\ At(w, "UpdateClan", "updateClan") /\ d # job[w].clan
        /\ \A c \in Clan : clans[c].name # NoName
        /\ <<"name", job[w].tag>> \notin noted) => clans[d].tag # job[w].tag

\* Every field a handler has filled in when it makes a call.
Filled(w) ==
  /\ job[w].op = "CreateClan" =>
       job[w].me \in Player /\ job[w].name \in Name /\ job[w].tag \in Tag
  /\ job[w].op \in {"UpdateClan", "Disband", "ChangeRank", "DeleteMember"} =>
       job[w].me \in Player /\ job[w].clan \in Clan
  /\ (job[w].op = "UpdateClan" /\ job[w].next # "queryClanByClanId") => job[w].tag \in TagText
  /\ job[w].op \in {"ChangeRank", "DeleteMember", "AddMember"} =>
       job[w].me \in Player /\ job[w].target \in Player
  /\ At(w, "ChangeRank", "demote") => job[w].rank = Leader
  /\ (job[w].op = "ChangeRank" /\ job[w].next # "queryClanByProfileId") =>
       job[w].rank \in Rank
  /\ (job[w].op = "AddMember" /\ job[w].next # "queryClanRanksByClanId") =>
       job[w].clan \in Clan
  /\ At(w, "AddMember", "removeClanRank") => job[w].from \in Clan

FrameInv ==
  /\ \A c \in Clan : IF clans[c].state = "absent"
                     THEN clans[c].name = None
                     ELSE clans[c].name \in Name /\ clans[c].tag \in TagText
  /\ \A w \in Worker : Filled(w)

RacesNoted == Races \subseteq noted

IInv ==
  /\ TypeOK /\ FrameInv /\ RacesNoted /\ FoundingInv
  /\ \A w \in Worker : HandOver(w) /\ Enrolling(w) /\ Closing(w) /\ Naming(w)
  /\ AtMostOneLeader /\ OneMembership /\ MembersOfEnabledClans /\ UniqueNamesAndTags

(***************************************************************************)
(* ClanRules, implemented until the first race or spoiling failure.        *)
(***************************************************************************)
placeOf(p) ==
  IF RowsOf(p) = {}
  THEN [clan |-> None, rank |-> None]
  ELSE LET r == CHOOSE x \in RowsOf(p) : TRUE IN [clan |-> r.clan, rank |-> r.rank]

Place  == [p \in Player |-> placeOf(p)]
Open   == {c \in Clan : Enabled(c)}
Closed == {c \in Clan : clans[c].state = "disabled"}

Rules == INSTANCE ClanRules WITH place <- Place, open <- Open, closed <- Closed

\* The step of ClanRules, or none, that a step of Clans is: none if it is a query.
Follows == UNCHANGED tables \/ [Rules!Next]_<<Place, Open, Closed>>

\* Every call a clan request makes to the database is one of the steps of
\* ClanRules, up to the first race of two requests and the first failure that is
\* noted, whatever other calls fail: in particular a player who is taken from one
\* clan into another is in neither in between, a new leader is set only after the
\* old one has stepped down, and a clan is closed empty.
FollowsTheRules == Rules!Init /\ [][noted = {} => Follows]_vars

(***************************************************************************)
(* What comments of the code say.                                          *)
(***************************************************************************)
\* "Leader can only disband clan." (requestDeleteMember): a leader leaves the
\* clan only together with everyone else.
LeaderCanOnlyDisband ==
  [][\A r \in ranks :
       (r.rank = Leader /\ ~ \E s \in ranks' : s.clan = r.clan /\ s.player = r.player)
          => ~ \E s \in ranks' : s.clan = r.clan]_vars

\* "New clan tag is not been used yet / Or clan tag is owned by its own"
\* (requestUpdateClan): no two enabled clans carry the same tag.
TagsAreUnique ==
  \A c, d \in Clan :
    (Enabled(c) /\ Enabled(d) /\ clans[c].tag = clans[d].tag) => c = d

=============================================================================
